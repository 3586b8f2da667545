----------------------------- MODULE PduStream ------------------------------
(***************************************************************************)
(* The PDUs of one sender as the bytes that reach the receiver's m_in_buf: *)
(* CImConn::OnRead (src/c++/base/imconn.cpp) over a CSimpleBuffer          *)
(* (UtilPdu.cpp) and the readers of PduCodec.  How the bytes get through   *)
(* the socket is in ImLink; here they arrive in chunks of any size.        *)
(*                                                                         *)
(* The sender is any of the program's peers of the receiver, the PHP page  *)
(* included: what they send are the members of Objects.  Two of these have *)
(* less in them than their reader takes out, and are misread: see ReadAs.  *)
(***************************************************************************)
EXTENDS PduCodec

CONSTANTS
    Numbers,        \* values of the 16-bit fields
    Texts,          \* contents of the string fields
    Junk,           \* what an uninitialised local variable may hold
    READ_BUF_SIZE,  \* recv() is asked for so many bytes
    MaxPdus         \* bound: the number of PDUs sent

ASSUME CodecConstants ==
    /\ \A n \in Numbers \cup Junk : n \in Nat /\ n < 65536
    \* The length of a PDU is an unsigned 32-bit number, that of a string an int.
    /\ \A t \in Texts : t \in Seq(0..255) /\ Len(t) < 2147483647 - IM_PDU_HEADER_LEN - 6
    /\ READ_BUF_SIZE \in Nat \ {0}
    /\ MaxPdus \in Nat

VARIABLES
    sent,       \* the objects the sender has written, in order
    wire,       \* their bytes that have not arrived
    m_in_buf,   \* CSimpleBuffer: the bytes before m_write_offset
    m_alloc,    \* CSimpleBuffer::m_alloc_size
    phase,      \* OnRead: "wait"ing for EPOLLIN, in the "recv" or the "read" loop
    got,        \* the objects passed to HandlePdu, in order
    open

vars == <<sent, wire, m_in_buf, m_alloc, phase, got, open>>

-----------------------------------------------------------------------------
(* The objects of the classes.                                             *)

CImPduServerCommand == [type : {"server command"}, args : {<<c>> : c \in Orders}]
CImPduAdjustRate == [type : {"adjust rate"}, args : Numbers \X Numbers]
CImPduClientData == [type : {"data"}, args : {<<t>> : t \in Texts}]
\* A request, or an answer.
CImPduServerStatusInfo == [type : {"server status"}, args : {<<>>} \cup {<<t>> : t \in Texts}]
\* A request of the page; the answer goes to the page, which is no CImConn.
CImPduAllClientStatusInfo == [type : {"all client status"}, args : {<<>>}]
\* The server's, or a client's with its report.
CImPduHeartbeat == [type : {"heartbeat"}, args : {<<>>} \cup {<<t>> : t \in Texts}]
CImPduResponse == [type : {"response"}, args : Numbers \X Texts]
CImPduRegClientType == [type : {"reg client type"}, args : {<<n>> : n \in Numbers}]
\* Written under the id of a registration, and without its argument.
CImPduClientDone == [type : {"client done"}, args : {<<n>> : n \in Numbers}]
\* ADJUST_RATE is one of the page's commands, of which it sends the id alone.
PageAdjustRate == [type : {"command of the page"}, args : {<<ADJUST_RATE>>}]

Objects ==
    UNION {CImPduServerCommand, CImPduAdjustRate, CImPduClientData,
           CImPduServerStatusInfo, CImPduAllClientStatusInfo, CImPduHeartbeat,
           CImPduResponse, CImPduRegClientType, CImPduClientDone, PageAdjustRate}

\* The constructor that is called for each of them.
Written(obj) ==
    LET a == obj.args
    IN  CASE obj.type = "server command" -> ServerCommand(a[1])
          [] obj.type = "adjust rate" -> AdjustRate(a[1], a[2])
          [] obj.type = "data" -> ClientData(a[1])
          [] obj.type = "server status" -> IF a = <<>> THEN StatusRequest ELSE ServerStatusInfo(a[1])
          [] obj.type = "all client status" -> Pdu(SID_MSG, ALL_CLIENT_STATUS_INFO, <<>>)
          [] obj.type = "heartbeat" -> IF a = <<>> THEN Heartbeat ELSE ClientReport(a[1])
          [] obj.type = "response" -> Response(a[1], a[2])
          [] obj.type = "reg client type" -> RegClientType(a[1])
          [] obj.type = "client done" -> ClientDone(a[1])
          [] obj.type = "command of the page" -> Pdu(SID_COMMAND, ADJUST_RATE, U16(a[1]))

\* What the receiver may take an object for: for itself, but where the number
\* that is missing is whatever the reader's local variable holds.
ReadAs(obj) ==
    CASE obj.type = "client done" ->
            {[type |-> "reg client type", args |-> <<n>>] : n \in Junk}
      [] obj.type = "command of the page" ->
            {[type |-> "adjust rate", args |-> <<obj.args[1], n>>] : n \in Junk}
      [] OTHER -> {obj}

Send(obj) ==
    /\ Len(sent) < MaxPdus
    /\ sent' = Append(sent, obj)
    /\ wire' = wire \o Written(obj)
    /\ UNCHANGED <<m_in_buf, m_alloc, phase, got, open>>

-----------------------------------------------------------------------------
(* The receiver.                                                           *)

(* Fault variant: the new size does not count what is in the buffer. *)
ExtendForgetsOffset(len) == len + len \div 4

\* CSimpleBuffer::Extend, which gives the buffer room for len bytes more
\* and a quarter.  The allocation succeeds and stays below 2^32.
Extend(len) == Len(m_in_buf) + len + (Len(m_in_buf) + len) \div 4

\* One round of the recv() loop of OnRead.
Recv ==
    /\ open /\ phase # "read"
    /\ m_alloc' = IF m_alloc - Len(m_in_buf) < READ_BUF_SIZE
                  THEN Extend(READ_BUF_SIZE) ELSE m_alloc
    /\ \E n \in 1..READ_BUF_SIZE :
        /\ n <= Len(wire)
        /\ m_in_buf' = m_in_buf \o SubSeq(wire, 1, n)
        /\ wire' = SubSeq(wire, n + 1, Len(wire))
    /\ phase' = "recv"
    /\ UNCHANGED <<sent, got, open>>

\* recv() has nothing more for now.
RecvEnds ==
    /\ phase = "recv"
    /\ m_alloc' = IF m_alloc - Len(m_in_buf) < READ_BUF_SIZE
                  THEN Extend(READ_BUF_SIZE) ELSE m_alloc
    /\ phase' = "read"
    /\ UNCHANGED <<sent, wire, m_in_buf, got, open>>

\* HandlePdu, then m_in_buf.Read(NULL, pdu_len); or a CPduException.
Handle ==
    /\ phase = "read" /\ IsPduAvailable(m_in_buf)
    /\ \E junk \in Junk :
        LET obj == ReadPdu(m_in_buf, junk)
        IN  IF obj.type = "refused"
            THEN /\ open' = FALSE /\ phase' = "wait"
                 /\ UNCHANGED <<m_in_buf, got>>
            ELSE /\ got' = Append(got, obj)
                 /\ m_in_buf' = SubSeq(m_in_buf, U32At(m_in_buf, 0) + 1, Len(m_in_buf))
                 /\ UNCHANGED <<phase, open>>
    /\ UNCHANGED <<sent, wire, m_alloc>>

\* The rest of the buffer is not a whole PDU: back to the event loop.
HandleEnds ==
    /\ phase = "read" /\ ~IsPduAvailable(m_in_buf)
    /\ phase' = "wait"
    /\ UNCHANGED <<sent, wire, m_in_buf, m_alloc, got, open>>

Init ==
    /\ sent = <<>> /\ wire = <<>>
    /\ m_in_buf = <<>> /\ m_alloc = 0
    /\ phase = "wait" /\ got = <<>> /\ open = TRUE

Next ==
    \/ \E obj \in Objects : Send(obj)
    \/ Recv \/ RecvEnds \/ Handle \/ HandleEnds

Spec == Init /\ [][Next]_vars

\* The network delivers, and the loop reads what has arrived.
FairSpec == Spec /\ WF_vars(Recv) /\ WF_vars(RecvEnds) /\ WF_vars(Handle) /\ WF_vars(HandleEnds)

-----------------------------------------------------------------------------
(* Properties.                                                             *)

\* What recv() writes stays inside the block that Extend has allocated,
\* although m_write_offset moves back with every PDU read and forward by
\* IncWriteOffset without a check (imconn.cpp:125-134).
InBounds == Len(m_in_buf) <= m_alloc

\* Every PDU is read as what it was written as, in order, whatever follows
\* it in the buffer and whatever is left in the readers' local variables,
\* and none of them makes the receiver close the connection.  A
\* CImPduClientDone is read as a registration of any client type
\* (ImPduClient.cpp:244-253, 281-290), and the page's command ADJUST_RATE as one
\* with any multi (ImPduClient.cpp:45-56, EdmController.php:237): they too take
\* nothing of the PDU behind them, and leave nothing to it.
ReadsBack ==
    /\ Len(got) <= Len(sent) /\ \A i \in 1..Len(got) : got[i] \in ReadAs(sent[i])
    /\ open

\* No PDU stays in m_in_buf although all of it has arrived.
AllRead == []<>(Len(got) = Len(sent))
=============================================================================
