------------------------------ MODULE PduCodec ------------------------------
(***************************************************************************)
(* The PDUs of the protocol as bytes: what the constructors of the classes *)
(* in src/c++/base/ImPduClient.cpp write, and what CImPdu::ReadPdu         *)
(* (ImPduBase.cpp) and the reading constructors make of it.                *)
(*                                                                         *)
(* A PDU is read as an object [type, args].  A number that the stream has  *)
(* no bytes for is left as it is: an uninitialised local variable.  `junk' *)
(* stands for what that variable holds.                                    *)
(***************************************************************************)
EXTENDS Integers, Sequences

(* The numbers of the modules and of their commands.                       *)
SID_COMMAND == 1
SID_MSG == 2
SID_OTHER == 3

START == 1
STOP == 2
PAUSE == 4
RESUME == 8
Orders == {START, STOP, PAUSE, RESUME}
ADJUST_RATE == 16

DATA == 1
SERVER_STATUS_INFO == 2
ALL_CLIENT_STATUS_INFO == 3

HEARTBEAT == 1
RESPONSE == 2
REG_CLIENT_TYPE == 3
CLIENT_DONE == 4

IM_PDU_HEADER_LEN == 12
IM_PDU_VERSION == 1

-----------------------------------------------------------------------------
(* CByteStream: numbers in big-endian order, strings behind their length.  *)

U16(x) == <<x \div 256, x % 256>>
U32(x) == U16(x \div 65536) \o U16(x % 65536)

U16At(buf, pos) == 256 * buf[pos + 1] + buf[pos + 2]
U32At(buf, pos) == 65536 * U16At(buf, pos) + U16At(buf, pos + 2)

WriteString(text) == U32(Len(text)) \o text

\* A stream over the body of a PDU, and the values read from it so far.
Stream(body) == [body |-> body, pos |-> 0, vals |-> <<>>]

(* Fault variant: the first byte is the low one. *)
GetU16LittleEndian(is, junk) ==
    IF is.pos + 2 > Len(is.body)
    THEN [is EXCEPT !.vals = Append(@, junk)]
    ELSE [is EXCEPT !.pos = @ + 2,
                    !.vals = Append(@, is.body[is.pos + 1] + 256 * is.body[is.pos + 2])]

\* operator>>: _ReadByte does nothing when too few bytes are left.
GetU16(is, junk) ==
    IF is.pos + 2 > Len(is.body)
    THEN [is EXCEPT !.vals = Append(@, junk)]
    ELSE [is EXCEPT !.pos = @ + 2, !.vals = Append(@, U16At(is.body, is.pos))]

\* ReadString skips as many bytes as the length says, whatever is left.
GetString(is, junk) ==
    LET short == is.pos + 4 > Len(is.body)
        len == IF short THEN junk ELSE U32At(is.body, is.pos)
        at == IF short THEN is.pos ELSE is.pos + 4
        end == IF at + len > Len(is.body) THEN Len(is.body) ELSE at + len
    IN  [is EXCEPT !.pos = at + len, !.vals = Append(@, SubSeq(is.body, at + 1, end))]

-----------------------------------------------------------------------------
(* The writing constructors.                                               *)

\* CImPdu::WriteHeader, in front of the body.
Header(len, module, command) ==
    U32(len) \o U16(module) \o U16(command) \o U16(IM_PDU_VERSION) \o U16(0)
Pdu(module, command, body) ==
    Header(IM_PDU_HEADER_LEN + Len(body), module, command) \o body

ServerCommand(order) == Pdu(SID_COMMAND, order, U16(order))
AdjustRate(delay, multi) == Pdu(SID_COMMAND, ADJUST_RATE, U16(delay) \o U16(multi))

ClientData(data) == Pdu(SID_MSG, DATA, WriteString(data))
StatusRequest == Pdu(SID_MSG, SERVER_STATUS_INFO, <<>>)
ServerStatusInfo(json) == Pdu(SID_MSG, SERVER_STATUS_INFO, WriteString(json))
AllClientStatusInfo(json) == Pdu(SID_MSG, ALL_CLIENT_STATUS_INFO, WriteString(json))

Heartbeat == Pdu(SID_OTHER, HEARTBEAT, <<>>)
ClientReport(json) == Pdu(SID_OTHER, HEARTBEAT, WriteString(json))
Response(status, message) == Pdu(SID_OTHER, RESPONSE, U16(status) \o WriteString(message))
RegClientType(client_type) == Pdu(SID_OTHER, REG_CLIENT_TYPE, U16(client_type))

\* CImPduClientDone writes the id of another command, and not its argument.
ClientDone(client_type) == Pdu(SID_OTHER, REG_CLIENT_TYPE, <<>>)

-----------------------------------------------------------------------------
(* The reading constructors.                                               *)

\* A CPduException.
Refused(error) == [type |-> "refused", args |-> <<error>>]

\* PARSE_PACKET_ASSERT: the body must be used up.
Parsed(type, is) ==
    IF is.pos = Len(is.body)
    THEN [type |-> type, args |-> is.vals]
    ELSE Refused("parse failed")

ReadServerCommand(body, junk) == Parsed("server command", GetU16(Stream(body), junk))

ReadAdjustRate(body, junk) ==
    Parsed("adjust rate", GetU16(GetU16(Stream(body), junk), junk))
ReadClientData(body, junk) == Parsed("data", GetString(Stream(body), junk))
ReadServerStatusInfo(body, junk) ==
    Parsed("server status", IF body # <<>> THEN GetString(Stream(body), junk) ELSE Stream(body))
ReadAllClientStatusInfo(body) == Parsed("all client status", Stream(body))
ReadHeartbeat(body, junk) ==
    Parsed("heartbeat", IF body # <<>> THEN GetString(Stream(body), junk) ELSE Stream(body))
ReadResponse(body, junk) ==
    Parsed("response", GetString(GetU16(Stream(body), junk), junk))
ReadRegClientType(body, junk) == Parsed("reg client type", GetU16(Stream(body), junk))
ReadClientDone(body) == Parsed("client done", Stream(body))

ReadPduCommand(command, body, junk) ==
    CASE command \in Orders -> ReadServerCommand(body, junk)
      [] command = ADJUST_RATE -> ReadAdjustRate(body, junk)
      [] OTHER -> Refused("wrong command id")

ReadPduMsg(command, body, junk) ==
    CASE command = DATA -> ReadClientData(body, junk)
      [] command = SERVER_STATUS_INFO -> ReadServerStatusInfo(body, junk)
      [] command = ALL_CLIENT_STATUS_INFO -> ReadAllClientStatusInfo(body)
      [] OTHER -> Refused("wrong command id")

ReadPduOther(command, body, junk) ==
    CASE command = HEARTBEAT -> ReadHeartbeat(body, junk)
      [] command = RESPONSE -> ReadResponse(body, junk)
      [] command = REG_CLIENT_TYPE -> ReadRegClientType(body, junk)
      [] command = CLIENT_DONE -> ReadClientDone(body)
      [] OTHER -> Refused("wrong command id")

(* Fault variant: a PDU that ends with the buffer is not seen. *)
IsPduAvailableOffByOne(buf) ==
    /\ Len(buf) >= IM_PDU_HEADER_LEN
    /\ U32At(buf, 0) < Len(buf)

\* Has the PDU at the head of the buffer arrived completely?
IsPduAvailable(buf) ==
    /\ Len(buf) >= IM_PDU_HEADER_LEN
    /\ U32At(buf, 0) <= Len(buf)

\* CImPdu::ReadPdu of a buffer that holds one.
ReadPdu(buf, junk) ==
    LET module == U16At(buf, 4)
        command == U16At(buf, 6)
        body == SubSeq(buf, IM_PDU_HEADER_LEN + 1, U32At(buf, 0))
    IN  CASE module = SID_COMMAND -> ReadPduCommand(command, body, junk)
          [] module = SID_MSG -> ReadPduMsg(command, body, junk)
          [] module = SID_OTHER -> ReadPduOther(command, body, junk)
          [] OTHER -> Refused("wrong service id")
=============================================================================
