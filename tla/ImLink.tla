------------------------------- MODULE ImLink -------------------------------
(***************************************************************************)
(* One direction of a connection between a client and the server: CImConn  *)
(* (src/c++/base/imconn.cpp) over a non-blocking socket that an edge-      *)
(* triggered epoll watches (BaseSocket.cpp, EventDispatch.cpp).            *)
(*                                                                         *)
(* The sender writes a PDU straight to the socket until the socket takes   *)
(* no more; the rest goes to m_out_buf, m_busy is set, and from then on    *)
(* every PDU goes behind it.  OnWrite empties m_out_buf.  The receiver     *)
(* appends what has arrived to m_in_buf and cuts complete PDUs off it.     *)
(*                                                                         *)
(* A byte is its place in the stream, counted from 1.  The other direction *)
(* appears only through the events it causes: epoll reports EPOLLOUT       *)
(* together with the EPOLLIN of data from the peer.                        *)
(***************************************************************************)
EXTENDS Integers, Sequences

CONSTANTS
    HeaderLen,  \* IM_PDU_HEADER_LEN: the bytes that say how long a PDU is
    Sizes,      \* the sizes PDUs have
    SockBuf,    \* the bytes that fit between send() and recv()
    Greeting,   \* the number of PDUs OnConfirm sends
    PeerTalks,  \* does the peer send anything (its heartbeat at least)?
    MayBreak,   \* environment: the connection may break
    MaxPdus     \* bound: the number of PDUs submitted outside OnConfirm

ASSUME SizesHoldHeader ==
    /\ HeaderLen \in Nat \ {0} /\ SockBuf \in Nat \ {0}
    /\ Sizes \subseteq Nat /\ \A s \in Sizes : s >= HeaderLen
    /\ Greeting \in Nat /\ MaxPdus \in Nat
    /\ PeerTalks \in BOOLEAN /\ MayBreak \in BOOLEAN

VARIABLES
    state,      \* m_state of the sender's socket
    early,      \* history: something was sent before the confirmation
    greet,      \* the PDUs OnConfirm has still to send
    submitted,  \* the PDUs passed to SendPdu: first byte and size of each
    m_busy, m_out_buf,
    nospace,    \* a send() found the socket full: epoll will report EPOLLOUT
    wire,       \* the bytes taken by send() and not yet returned by recv()
    m_in_buf,
    reading,    \* the receiver is in the ReadPdu loop of OnRead
    delivered   \* the numbers of the PDUs passed to HandlePdu

sender == <<state, early, greet, submitted, m_busy, m_out_buf, nospace>>
receiver == <<m_in_buf, reading, delivered>>
vars == <<sender, wire, receiver>>

\* The number of bytes of the first n PDUs.
End(n) == IF n = 0 THEN 0 ELSE submitted[n].first + submitted[n].size - 1

\* A PDU that continues the stream, and its bytes.
NewPdu(size) == [first |-> End(Len(submitted)) + 1, size |-> size]
PduBytes(pdu) == [i \in 1..pdu.size |-> pdu.first + i - 1]

Free == SockBuf - Len(wire)

-----------------------------------------------------------------------------
(* The sender.                                                             *)

(* Fault variant: m_busy is set but never cleared.                         *)
SockTakesStaysBusy(data, k) ==
    /\ k <= Len(data) /\ k <= Free
    /\ wire' = wire \o SubSeq(data, 1, k)
    /\ m_out_buf' = SubSeq(data, k + 1, Len(data))
    /\ nospace' = (k < Len(data))
    /\ m_busy' = (m_busy \/ k < Len(data))

(* Fault variant: the socket is not asked again until it says EAGAIN.      *)
SockTakesNoRetry(data, k) ==
    /\ k <= Len(data) /\ k <= Free
    /\ wire' = wire \o SubSeq(data, 1, k)
    /\ m_out_buf' = SubSeq(data, k + 1, Len(data))
    /\ nospace' = FALSE
    /\ m_busy' = (k < Len(data))

\* send() takes the first k bytes of data; if it does not take them all it
\* was asked once more and said EAGAIN.
SockTakes(data, k) ==
    /\ k <= Len(data) /\ k <= Free
    /\ wire' = wire \o SubSeq(data, 1, k)
    /\ m_out_buf' = SubSeq(data, k + 1, Len(data))
    /\ nospace' = (k < Len(data))
    /\ m_busy' = (k < Len(data))

(* Fault variant: a PDU goes straight to the socket although m_busy is set. *)
SendPduOvertakes(size) ==
    LET data == PduBytes(NewPdu(size)) IN
    /\ submitted' = Append(submitted, NewPdu(size))
    /\ IF state # "connected"
       THEN /\ m_out_buf' = m_out_buf \o data
            /\ m_busy' = TRUE
            /\ UNCHANGED <<wire, nospace>>
       ELSE \E k \in 0..Len(data) :
                /\ k <= Free
                /\ wire' = wire \o SubSeq(data, 1, k)
                /\ m_out_buf' = m_out_buf \o SubSeq(data, k + 1, Len(data))
                /\ nospace' = (nospace \/ k < Len(data))
                /\ m_busy' = (m_busy \/ k < Len(data))

(* Fault variant: one byte too many is read behind the end of the PDU.     *)
SendPduOverruns(size) ==
    LET data == PduBytes([NewPdu(size) EXCEPT !.size = @ + 1]) IN
    /\ submitted' = Append(submitted, NewPdu(size))
    /\ IF m_busy \/ state # "connected"
       THEN /\ m_out_buf' = m_out_buf \o data
            /\ m_busy' = TRUE
            /\ UNCHANGED <<wire, nospace>>
       ELSE \E k \in 0..Len(data) : SockTakes(data, k)

\* CImConn::Send.  Without a connection CBaseSocket::Send returns an error,
\* which Send takes for a socket that is full.
SendPdu(size) ==
    LET data == PduBytes(NewPdu(size)) IN
    /\ submitted' = Append(submitted, NewPdu(size))
    /\ IF m_busy \/ state # "connected"
       THEN /\ m_out_buf' = m_out_buf \o data
            /\ m_busy' = TRUE
            /\ UNCHANGED <<wire, nospace>>
       ELSE \E k \in 0..Len(data) : SockTakes(data, k)

\* A handler, a timer or the start-up code sends.
Send ==
    /\ state # "closed" /\ greet = 0
    /\ early' = (early \/ state = "connecting")
    /\ Len(submitted) < MaxPdus
    /\ \E size \in Sizes : SendPdu(size)
    /\ UNCHANGED <<state, greet, receiver>>

\* The first EPOLLOUT: CBaseSocket::OnWrite reports NETLIB_MSG_CONFIRM, and
\* not NETLIB_MSG_WRITE.  OnConfirm sends its PDUs before anything else runs
\* in the sender's event loop.
Confirm ==
    /\ state = "connecting"
    /\ state' = "connected"
    /\ greet' = Greeting
    /\ UNCHANGED <<early, submitted, m_busy, m_out_buf, nospace, wire, receiver>>

OnConfirm ==
    /\ state = "connected" /\ greet > 0
    /\ greet' = greet - 1
    /\ \E size \in Sizes : SendPdu(size)
    /\ UNCHANGED <<state, early, receiver>>

\* CImConn::OnWrite.
Flush ==
    /\ state = "connected" /\ greet = 0
    /\ IF m_busy
       THEN \E k \in 0..Len(m_out_buf) : SockTakes(m_out_buf, k)
       ELSE nospace' = FALSE /\ UNCHANGED <<m_busy, m_out_buf, wire>>
    /\ UNCHANGED <<state, early, greet, submitted, receiver>>

\* EPOLLOUT: there is room again in a socket that was found full.
OnWrite == nospace /\ Free > 0 /\ Flush

\* EPOLLOUT that comes with the EPOLLIN of data from the peer.
OnPeerData == PeerTalks /\ Free > 0 /\ Flush

-----------------------------------------------------------------------------
(* The receiver: CImConn::OnRead.                                          *)

\* EPOLLIN: recv() until nothing is left of what has arrived by now.
OnRead ==
    /\ state # "closed" /\ ~reading
    /\ \E n \in 1..Len(wire) :
        /\ m_in_buf' = m_in_buf \o SubSeq(wire, 1, n)
        /\ wire' = SubSeq(wire, n + 1, Len(wire))
    /\ reading' = TRUE
    /\ UNCHANGED <<sender, delivered>>

\* The PDU that starts with the first byte of m_in_buf.
FirstPdu == CHOOSE n \in 1..Len(submitted) : submitted[n].first = m_in_buf[1]

\* _IsPduAvailable, on the length field at the head of the buffer.
PduAvailable ==
    /\ Len(m_in_buf) >= HeaderLen
    /\ submitted[FirstPdu].size <= Len(m_in_buf)

(* Fault variant: the PDU that was handled stays in m_in_buf.              *)
ReadPduKept ==
    /\ reading /\ PduAvailable
    /\ delivered' = Append(delivered, FirstPdu)
    /\ UNCHANGED <<sender, wire, m_in_buf, reading>>

(* Fault variant: one PDU for each EPOLLIN.                                *)
ReadPduOnce ==
    /\ reading /\ PduAvailable
    /\ delivered' = Append(delivered, FirstPdu)
    /\ m_in_buf' = SubSeq(m_in_buf, submitted[FirstPdu].size + 1, Len(m_in_buf))
    /\ reading' = FALSE
    /\ UNCHANGED <<sender, wire>>

\* One round of the loop: HandlePdu, then m_in_buf.Read(NULL, pdu_len).
ReadPdu ==
    /\ reading /\ PduAvailable
    /\ delivered' = Append(delivered, FirstPdu)
    /\ m_in_buf' = SubSeq(m_in_buf, submitted[FirstPdu].size + 1, Len(m_in_buf))
    /\ UNCHANGED <<sender, wire, reading>>

ReadEnds ==
    /\ reading /\ ~PduAvailable
    /\ reading' = FALSE
    /\ UNCHANGED <<sender, wire, m_in_buf, delivered>>

-----------------------------------------------------------------------------
\* The connection breaks: both ends drop their buffers.  The loop of OnRead
\* is not interrupted by it: the close event comes after.
Break ==
    /\ MayBreak /\ ~reading
    /\ state # "closed"
    /\ state' = "closed" /\ greet' = 0
    /\ wire' = <<>> /\ m_out_buf' = <<>> /\ m_in_buf' = <<>>
    /\ m_busy' = FALSE /\ nospace' = FALSE
    /\ UNCHANGED <<early, submitted, reading, delivered>>

Init ==
    /\ state = "connecting" /\ early = FALSE /\ greet = 0
    /\ submitted = <<>>
    /\ m_busy = FALSE /\ m_out_buf = <<>> /\ nospace = FALSE
    /\ wire = <<>>
    /\ m_in_buf = <<>> /\ reading = FALSE /\ delivered = <<>>

Next ==
    \/ Send \/ Confirm \/ OnConfirm \/ OnWrite \/ OnPeerData
    \/ OnRead \/ ReadPdu \/ ReadEnds
    \/ Break

Spec == Init /\ [][Next]_vars

\* The network moves bytes and confirms the connection, epoll reports every
\* edge, and a peer that talks keeps talking.  Nothing makes the program send.
\* A socket with room takes at least a byte (SockTakesSome).
SockTakesSome == Len(m_out_buf') < Len(m_out_buf)
Fairness ==
    /\ WF_vars(Confirm) /\ WF_vars(OnConfirm)
    /\ WF_vars(OnRead) /\ WF_vars(ReadPdu) /\ WF_vars(ReadEnds)
    /\ WF_vars(OnWrite /\ SockTakesSome) /\ WF_vars(OnPeerData /\ SockTakesSome)
FairSpec == Spec /\ Fairness

-----------------------------------------------------------------------------
(* Properties.                                                             *)

\* The types of the buffers of a CImConn.
TypeOK ==
    /\ state \in {"connecting", "connected", "closed"}
    /\ early \in BOOLEAN /\ greet \in Nat
    /\ submitted \in Seq([first : Nat \ {0}, size : Sizes])
    /\ m_busy \in BOOLEAN /\ nospace \in BOOLEAN /\ reading \in BOOLEAN
    /\ m_out_buf \in Seq(1..End(Len(submitted)))
    /\ wire \in Seq(1..End(Len(submitted)))
    /\ m_in_buf \in Seq(1..End(Len(submitted)))
    /\ delivered \in Seq(1..Len(submitted))

\* m_busy is set exactly as long as bytes wait in m_out_buf: were it cleared
\* early a later PDU would overtake them, were it set late one would wait
\* for ever behind an empty buffer that no event empties (imconn.cpp:87-91,
\* 111-116 and 193-195).
BusyIffPending == m_busy <=> m_out_buf # <<>>

\* No byte is lost, duplicated or reordered across the direct sends, the
\* partial sends, m_out_buf and the flushes: what is on the wire and then
\* in m_out_buf continues what the receiver has, up to the last byte sent.
StreamIntact ==
    state # "closed" =>
        LET stream == m_in_buf \o wire \o m_out_buf
            read == End(Len(delivered))
        IN  /\ \A i \in 1..Len(stream) : stream[i] = read + i
            /\ read + Len(stream) = End(Len(submitted))

\* Unless it sent before it was connected, a sender with bytes in m_out_buf
\* has an event coming: the socket was found full (EPOLLOUT is reported on
\* the edge only, EventDispatch.cpp:93).
EventComing ==
    ~early => (state = "connected" /\ m_busy => nospace)

\* The connection is a PduChannel: whole PDUs, once each, in order.
Channel == INSTANCE PduChannel WITH submitted <- submitted, delivered <- delivered
ChannelSpec == Channel!Spec

\* Every PDU submitted is delivered, unless the connection breaks.
AllDelivered ==
    \A n \in 1..MaxPdus :
        (Len(submitted) >= n) ~> (Len(delivered) >= n \/ state = "closed")
=============================================================================
