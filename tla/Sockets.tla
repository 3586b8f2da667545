------------------------------- MODULE Sockets ------------------------------
(***************************************************************************)
(* The event loop of both programs and the lives of its sockets and        *)
(* connections: CEventDispatch::StartDispatch (EventDispatch.cpp),         *)
(* CBaseSocket and netlib over the socket map, imconn_callback over the    *)
(* connection map, and who holds a reference to what (CRefObject).  The    *)
(* handlers close the connection they run in, a malformed PDU closes it,   *)
(* the timer closes it, and the kernel gives its descriptor to the next.   *)
(*                                                                         *)
(* A connection, its CBaseSocket and its CImConn have one name, an element *)
(* of Peers.  The server (servConn.cpp) accepts them; the client           *)
(* (clientConn.cpp) makes them, one after the other.  What bytes do on a   *)
(* connection is in ImLink; here PDUs arrive whole.  epoll is edge-        *)
(* triggered: something that happens to a descriptor puts it on the ready  *)
(* list once, and epoll_wait reports what holds when it is called.         *)
(***************************************************************************)
EXTENDS Integers, Sequences, FiniteSets

CONSTANTS
    Peers,     \* bound: the connections there are in all, in their order
    Fds,       \* the descriptors the process may have, as far as they matter here
    NoPeer,
    Other,     \* anything else a descriptor is open for
    NoFd,      \* NETLIB_INVALID_HANDLE, and the end of an iteration
    Listening, \* the descriptor of the listening socket
    MaxPdus    \* bound: PDUs that have arrived over a connection unread

ASSUME SocketNames ==
    /\ Peers \subseteq Nat /\ NoPeer \notin Peers \cup {Other} /\ Other \notin Peers
    /\ Fds \subseteq Nat /\ Fds # {} /\ NoFd \notin Fds \cup {Listening} /\ Listening \notin Fds
    /\ MaxPdus \in Nat

VARIABLES
    \* the kernel and the other ends
    role,      \* is this the server or a client?
    owner,     \* the connection a descriptor is open for
    link,      \* the state of each connection
    backlog,   \* connections that wait for accept()
    rx,        \* PDUs that have arrived and were not read
    ready,     \* descriptors on epoll's ready list
    \* the program's maps and objects
    sockets,   \* g_socket_map, without the listening socket
    conns,     \* g_client_conn_map, g_serv_conn_map
    sref,      \* m_refCount of each CBaseSocket, 0 once deleted
    cref,      \* m_refCount of each CImConn
    state,     \* CBaseSocket::m_state
    type,      \* client_type of a connection
    \* the loop: its place, the events left, the event and the connection it
    \* works on, where a handler returns to, and a timer's iterator
    pc, batch, event, held, after, it, seen,
    starved    \* history: accept() has found no descriptor

kernel == <<role, owner, link, backlog, rx, ready>>
objects == <<sockets, conns, sref, cref, state, type>>
loop == <<pc, batch, event, held, after, it, seen>>
vars == <<kernel, objects, loop, starved>>

\* PDUs: a page's command, which is answered, any other, and a malformed one.
Pdus == IF role = "server" THEN {"command", "other", "malformed"} ELSE {"other", "malformed"}

\* What the loop works on: an entry of events[], and the socket found for it.
NoEvent == [fd |-> NoFd, of |-> NoPeer, mask |-> {}, socket |-> NoPeer]

\* What epoll says of a descriptor.
Mask(p) ==
    (IF rx[p] # <<>> \/ link[p] \in {"fin", "reset", "refused"} THEN {"EPOLLIN"} ELSE {})
    \cup (IF link[p] # "connecting" THEN {"EPOLLOUT"} ELSE {})
    \cup (IF link[p] \in {"reset", "refused"} THEN {"EPOLLHUP"} ELSE {})

-----------------------------------------------------------------------------
(* The kernel and the peers.                                               *)

FdsOf(p) == {fd \in Fds : owner[fd] = p}
FreeFds == FdsOf(NoPeer)
\* The kernel gives the smallest one.
NewFd == CHOOSE fd \in FreeFds : \A f \in FreeFds : fd <= f

Unused(p) == link[p] = "none" /\ \A q \in Peers : q < p => link[q] # "none"

\* A connection to the server is established and waits to be accepted.
Dial(p) ==
    /\ role = "server" /\ Unused(p)
    /\ link' = [link EXCEPT ![p] = "up"]
    /\ backlog' = Append(backlog, p)
    /\ ready' = ready \cup {Listening}
    /\ UNCHANGED <<role, owner, rx, objects, loop, starved>>

\* A client's connect() succeeds, or is refused.
Answered(p) ==
    /\ link[p] = "connecting"
    /\ \E answer \in {"up", "refused"} : link' = [link EXCEPT ![p] = answer]
    /\ ready' = ready \cup FdsOf(p)
    /\ UNCHANGED <<role, owner, backlog, rx, objects, loop, starved>>

PeerSends(p) ==
    /\ link[p] = "up" /\ Len(rx[p]) < MaxPdus
    /\ \E pdu \in Pdus : rx' = [rx EXCEPT ![p] = Append(@, pdu)]
    /\ ready' = ready \cup FdsOf(p)
    /\ UNCHANGED <<role, owner, link, backlog, objects, loop, starved>>

\* The peer closes, breaks the connection, or is cut off without a sign.
PeerGoes(p) ==
    /\ \E how \in {"fin", "reset", "dead"} :
        /\ link[p] = "up" \/ (link[p] = "fin" /\ how = "reset")
        /\ link' = [link EXCEPT ![p] = how]
        /\ ready' = IF how = "dead" THEN ready ELSE ready \cup FdsOf(p)
    /\ UNCHANGED <<role, owner, backlog, rx, objects, loop, starved>>

\* Something is sent to p: a peer that has closed answers with a reset.
SendTo(p) ==
    IF link[p] = "fin"
    THEN /\ link' = [link EXCEPT ![p] = "reset"]
         /\ ready' = ready \cup FdsOf(p)
    ELSE UNCHANGED <<link, ready>>

-----------------------------------------------------------------------------
(* The dispatch loop.                                                      *)

\* epoll_wait.
EpollWait ==
    /\ pc = "wait"
    /\ batch' = {[NoEvent EXCEPT !.fd = fd, !.of = owner[fd], !.mask = Mask(owner[fd])] :
                    fd \in ready \ {Listening}}
                \cup {[NoEvent EXCEPT !.fd = fd] : fd \in ready \cap {Listening}}
    /\ ready' = {}
    /\ pc' = "dispatch"
    /\ UNCHANGED <<role, owner, link, backlog, rx, objects, event, held, after, it, seen, starved>>

(* Fault variant: the socket is used without a reference. *)
DispatchNoRef(e) ==
    /\ pc = "dispatch" /\ e \in batch
    /\ batch' = batch \ {e}
    /\ IF e.fd = Listening
       THEN pc' = "accept" /\ UNCHANGED <<event, sref>>
       ELSE LET s == sockets[e.fd]
            IN  IF s = NoPeer
                THEN UNCHANGED <<pc, event, sref>>
                ELSE /\ event' = [e EXCEPT !.socket = s]
                     /\ pc' = "in"
                     /\ UNCHANGED sref
    /\ UNCHANGED <<kernel, sockets, conns, cref, state, type, held, after, it, seen, starved>>

\* FindBaseSocket, of one event after the other.
Dispatch(e) ==
    /\ pc = "dispatch" /\ e \in batch
    /\ batch' = batch \ {e}
    /\ IF e.fd = Listening
       THEN pc' = "accept" /\ UNCHANGED <<event, sref>>
       ELSE LET s == sockets[e.fd]
            IN  IF s = NoPeer
                THEN UNCHANGED <<pc, event, sref>>
                ELSE /\ sref' = [sref EXCEPT ![s] = @ + 1]
                     /\ event' = [e EXCEPT !.socket = s]
                     /\ pc' = "in"
    /\ UNCHANGED <<kernel, sockets, conns, cref, state, type, held, after, it, seen, starved>>

\* _AcceptNewSocket, once round: accept(), a CBaseSocket, AddBaseSocket,
\* AddEvent, and serverCallback, which makes the cServConn.  What client_type
\* reads as before and after a registration is in EdmControl.
Accept ==
    /\ pc = "accept" /\ backlog # <<>> /\ FreeFds # {}
    /\ LET fd == NewFd
           p == Head(backlog)
       IN  /\ backlog' = Tail(backlog)
           /\ owner' = [owner EXCEPT ![fd] = p]
           /\ sockets' = [sockets EXCEPT ![fd] = IF @ = NoPeer THEN p ELSE @]
           /\ sref' = [sref EXCEPT ![p] = 1]
           /\ state' = [state EXCEPT ![p] = "CONNECTED"]
           /\ ready' = ready \cup {fd}
           /\ conns' = [conns EXCEPT ![fd] = p]
           /\ cref' = [cref EXCEPT ![p] = 1]
           /\ \E t \in {"CPP", "PHP"} : type' = [type EXCEPT ![p] = t]
    /\ UNCHANGED <<role, link, rx, loop, starved>>

(* Fault variant: accept() is not called until it fails. *)
AcceptEndsEarly ==
    /\ pc = "accept"
    /\ starved' = (starved \/ (backlog # <<>> /\ FreeFds = {}))
    /\ pc' = "dispatch"
    /\ UNCHANGED <<kernel, objects, batch, event, held, after, it, seen>>

\* accept() fails: there is nothing to accept, or no descriptor.
AcceptEnds ==
    /\ pc = "accept" /\ (backlog = <<>> \/ FreeFds = {})
    /\ starved' = (starved \/ backlog # <<>>)
    /\ pc' = "dispatch"
    /\ UNCHANGED <<kernel, objects, batch, event, held, after, it, seen>>

-----------------------------------------------------------------------------
(* The handlers of a connection.                                           *)

\* m_handle.
FdOf(p) == CHOOSE fd \in Fds : conns[fd] = p

(* Fault variant: the socket stays in the map. *)
CloseKeepsSocket(p, n) ==
    LET fd == FdOf(p)
    IN  /\ owner' = [owner EXCEPT ![fd] = NoPeer]
        /\ ready' = ready \ {fd}
        /\ sref' = [sref EXCEPT ![sockets[fd]] = @ - 1]
        /\ conns' = [conns EXCEPT ![fd] = NoPeer]
        /\ cref' = [cref EXCEPT ![p] = @ + n - 1]
        /\ type' = [type EXCEPT ![p] = "none"]
        /\ link' = [link EXCEPT ![p] = "closed"]
        /\ rx' = [rx EXCEPT ![p] = <<>>]
        /\ UNCHANGED sockets

\* close of either connection class: netlib_close by m_handle (RemoveEvent,
\* RemoveBaseSocket, closesocket, ReleaseRef), erase, ReleaseRef.  n is what
\* the caller has added to the connection's count.
Close(p, n) ==
    LET fd == FdOf(p)
    IN  /\ owner' = [owner EXCEPT ![fd] = NoPeer]
        /\ ready' = ready \ {fd}
        /\ sockets' = [sockets EXCEPT ![fd] = NoPeer]
        /\ sref' = [sref EXCEPT ![sockets[fd]] = @ - 1]
        /\ conns' = [conns EXCEPT ![fd] = NoPeer]
        /\ cref' = [cref EXCEPT ![p] = @ + n - 1]
        /\ type' = [type EXCEPT ![p] = "none"]
        /\ link' = [link EXCEPT ![p] = "closed"]
        /\ rx' = [rx EXCEPT ![p] = <<>>]

\* OnRead of the connection: recv() until there is nothing left, then
\* HandlePdu of every PDU.  The server answers a page's command; after a
\* CPduException comes OnClose.
Read(p) ==
    LET good == {k \in 1..Len(rx[p]) : \A j \in 1..k : rx[p][j] # "malformed"}
    IN  IF good # 1..Len(rx[p])
        THEN Close(p, 1)
        ELSE /\ rx' = [rx EXCEPT ![p] = <<>>]
             /\ IF \E k \in good : rx[p][k] = "command"
                THEN SendTo(p) ELSE UNCHANGED <<link, ready>>
             /\ cref' = [cref EXCEPT ![p] = @ + 1]
             /\ UNCHANGED <<owner, sockets, conns, sref, type>>

\* OnConfirm, which sends the registration.
Confirm(p) ==
    /\ SendTo(p)
    /\ cref' = [cref EXCEPT ![p] = @ + 1]
    /\ UNCHANGED <<owner, rx, sockets, conns, sref, type>>

(* Fault variant: the handler is called without a reference. *)
CallbackNoRef(msg, back) ==
    LET p == conns[event.fd]
    IN  IF p = NoPeer
        THEN /\ pc' = back
             /\ UNCHANGED <<owner, link, rx, ready, sockets, conns, sref, cref, type, held, after>>
        ELSE /\ CASE msg = "CLOSE" -> Close(p, 0)
                  [] msg = "READ" -> Read(p)
                  [] msg = "CONFIRM" -> Confirm(p)
             /\ held' = p
             /\ after' = back
             /\ pc' = "leave"

\* imconn_callback: FindImConn by the event's descriptor, AddRef, the handler.
Callback(msg, back) ==
    LET p == conns[event.fd]
    IN  IF p = NoPeer
        THEN /\ pc' = back
             /\ UNCHANGED <<owner, link, rx, ready, sockets, conns, sref, cref, type, held, after>>
        ELSE /\ CASE msg = "CLOSE" -> Close(p, 1)
                  [] msg = "READ" -> Read(p)
                  [] msg = "CONFIRM" -> Confirm(p)
             /\ held' = p
             /\ after' = back
             /\ pc' = "leave"

NoCallback(next) ==
    /\ pc' = next
    /\ UNCHANGED <<owner, link, rx, ready, sockets, conns, sref, cref, type, held, after>>

\* The end of imconn_callback.
Leave ==
    /\ pc = "leave"
    /\ cref' = [cref EXCEPT ![held] = @ - 1]
    /\ pc' = after
    /\ held' = NoPeer /\ after' = ""
    /\ UNCHANGED <<kernel, sockets, conns, sref, state, type, batch, event, it, seen, starved>>

\* CBaseSocket::OnRead: the end of the stream shows as EPOLLIN without bytes.
OnRead ==
    /\ pc = "in"
    /\ IF "EPOLLIN" \notin event.mask THEN NoCallback("out")
       ELSE Callback(IF rx[event.socket] = <<>> THEN "CLOSE" ELSE "READ", "out")
    /\ UNCHANGED <<role, backlog, state, batch, event, it, seen, starved>>

\* CBaseSocket::OnWrite.  SO_ERROR of a descriptor closed meanwhile is 0;
\* what OnWrite of a connection does is in ImLink.
OnWrite ==
    /\ pc = "out"
    /\ LET s == event.socket
           failed == link[s] = "refused" /\ owner[event.fd] = s
           next == IF "EPOLLHUP" \in event.mask THEN "hup" ELSE "release"
       IN  IF "EPOLLOUT" \notin event.mask \/ state[s] # "CONNECTING"
           THEN NoCallback(next) /\ UNCHANGED state
           ELSE IF failed
           THEN Callback("CLOSE", next) /\ UNCHANGED state
           ELSE Callback("CONFIRM", next) /\ state' = [state EXCEPT ![s] = "CONNECTED"]
    /\ UNCHANGED <<role, backlog, batch, event, it, seen, starved>>

\* CBaseSocket::OnClose.
OnClose ==
    /\ pc = "hup"
    /\ state' = [state EXCEPT ![event.socket] = "CLOSING"]
    /\ Callback("CLOSE", "release")
    /\ UNCHANGED <<role, backlog, batch, event, it, seen, starved>>

\* ReleaseRef of the socket, and the next event.
Release ==
    /\ pc = "release"
    /\ sref' = [sref EXCEPT ![event.socket] = @ - 1]
    /\ state' = IF sref'[event.socket] > 0 THEN state ELSE [state EXCEPT ![event.socket] = "IDLE"]
    /\ event' = NoEvent
    /\ pc' = "dispatch"
    /\ UNCHANGED <<kernel, sockets, conns, cref, type, batch, held, after, it, seen, starved>>

-----------------------------------------------------------------------------
(* Timers: server_conn_timer_callback and client_conn_timer_callback.      *)

Handles == {fd \in Fds : conns[fd] # NoPeer}
First(handles) == IF handles = {} THEN {NoFd} ELSE handles

DispatchEnds ==
    /\ pc = "dispatch" /\ batch = {}
    /\ pc' = "timer"
    /\ UNCHANGED <<kernel, objects, batch, event, held, after, it, seen, starved>>

\* _CheckTimer: five seconds have passed, or not.
TimerNotDue ==
    /\ pc = "timer"
    /\ pc' = "wait"
    /\ UNCHANGED <<kernel, objects, batch, event, held, after, it, seen, starved>>

TimerDue ==
    /\ pc = "timer"
    /\ it' \in First(Handles)
    /\ pc' = "loop"
    /\ UNCHANGED <<kernel, objects, batch, event, held, after, seen, starved>>

(* Fault variant: the iterator is advanced after OnTimer. *)
TimerVisitStays ==
    /\ pc = "loop" /\ it # NoFd
    /\ IF it \in seen
       THEN /\ it' \in First(Handles \ seen)
            /\ UNCHANGED <<seen, pc, held>>
       ELSE /\ seen' = seen \cup {it}
            /\ it' = it
            /\ IF role = "server" /\ type[conns[it]] = "PHP"
               THEN UNCHANGED <<pc, held>>
               ELSE /\ held' = conns[it]
                    /\ pc' = "onTimer"
    /\ UNCHANGED <<kernel, objects, batch, event, after, starved>>

\* The iterator is advanced before OnTimer is called, in the table's order.
TimerVisit ==
    /\ pc = "loop" /\ it # NoFd
    /\ seen' = seen \cup {it}
    /\ it' \in First(Handles \ seen')
    /\ IF role = "server" /\ type[conns[it]] = "PHP"
       THEN UNCHANGED <<pc, held>>
       ELSE /\ held' = conns[it]
            /\ pc' = "onTimer"
    /\ UNCHANGED <<kernel, objects, batch, event, after, starved>>

\* OnTimer: nothing to do, a heartbeat, or a peer that was silent too long.
TimerQuiet ==
    /\ pc = "onTimer"
    /\ held' = NoPeer /\ pc' = "loop"
    /\ UNCHANGED <<kernel, objects, batch, event, after, it, seen, starved>>

(* Fault variant: a heartbeat that is due is not sent. *)
TimerBeatForgotten ==
    /\ pc = "onTimer"
    /\ held' = NoPeer /\ pc' = "loop"
    /\ UNCHANGED <<kernel, objects, batch, event, after, it, seen, starved>>

TimerBeat ==
    /\ pc = "onTimer"
    /\ SendTo(held)
    /\ held' = NoPeer /\ pc' = "loop"
    /\ UNCHANGED <<role, owner, backlog, rx, objects, batch, event, after, it, seen, starved>>

\* After its last connection the client connects again, and the loop is at its end.
TimerOut ==
    /\ pc = "onTimer"
    /\ Close(held, 0)
    /\ state' = [state EXCEPT ![held] = "IDLE"]
    /\ held' = NoPeer
    /\ pc' = IF role = "client" /\ Handles' = {} THEN "connect" ELSE "loop"
    /\ UNCHANGED <<role, backlog, batch, event, after, it, seen, starved>>

TimerEnds ==
    /\ pc = "loop" /\ it = NoFd
    /\ seen' = {}
    /\ pc' = "wait"
    /\ UNCHANGED <<kernel, objects, batch, event, held, after, it, starved>>

\* connect_server and netlib_connect, at the start and from OnTimer.  When
\* connect() fails at once the socket is deleted; the cClientConn is not.
ConnectServer(p) ==
    /\ pc = "connect" /\ Unused(p)
    /\ cref' = [cref EXCEPT ![p] = 1]
    /\ \/ /\ link' = [link EXCEPT ![p] = "failed"]
          /\ UNCHANGED <<owner, sockets, conns, sref, state>>
       \/ /\ link' = [link EXCEPT ![p] = "connecting"]
          /\ owner' = [owner EXCEPT ![NewFd] = p]
          /\ sockets' = [sockets EXCEPT ![NewFd] = IF @ = NoPeer THEN p ELSE @]
          /\ conns' = [conns EXCEPT ![NewFd] = p]
          /\ sref' = [sref EXCEPT ![p] = 1]
          /\ state' = [state EXCEPT ![p] = "CONNECTING"]
    /\ pc' = "wait" /\ seen' = {}
    /\ UNCHANGED <<role, backlog, rx, ready, type, batch, event, held, after, it, starved>>

\* The bound Peers is reached: every further attempt fails at once.
ConnectServerFails ==
    /\ pc = "connect" /\ \A p \in Peers : link[p] # "none"
    /\ pc' = "wait" /\ seen' = {}
    /\ UNCHANGED <<kernel, objects, batch, event, held, after, it, starved>>

-----------------------------------------------------------------------------
Init ==
    /\ role \in {"server", "client"}
    /\ \E taken \in (SUBSET Fds) \ {Fds} :
        owner = [fd \in Fds |-> IF fd \in taken THEN Other ELSE NoPeer]
    /\ link = [p \in Peers |-> "none"]
    /\ backlog = <<>> /\ ready = {}
    /\ rx = [p \in Peers |-> <<>>]
    /\ sockets = [fd \in Fds |-> NoPeer] /\ conns = [fd \in Fds |-> NoPeer]
    /\ sref = [p \in Peers |-> 0] /\ cref = [p \in Peers |-> 0]
    /\ state = [p \in Peers |-> "IDLE"]
    /\ type = [p \in Peers |-> "none"]
    /\ pc = IF role = "client" THEN "connect" ELSE "wait"
    /\ batch = {} /\ event = NoEvent /\ held = NoPeer /\ after = ""
    /\ it = NoFd /\ seen = {}
    /\ starved = FALSE

\* What happens at the other ends while the loop is inside a handler is seen
\* by it as if it had happened before the handler or after it.
World ==
    /\ pc \in {"wait", "dispatch", "in"}
    /\ \E p \in Peers : Dial(p) \/ Answered(p) \/ PeerSends(p) \/ PeerGoes(p)

StartDispatch ==
    \/ EpollWait \/ (\E e \in batch : Dispatch(e)) \/ DispatchEnds
    \/ Accept \/ AcceptEnds
    \/ OnRead \/ OnWrite \/ OnClose \/ Leave \/ Release
    \/ TimerNotDue \/ TimerDue \/ TimerVisit \/ TimerEnds
    \/ TimerQuiet \/ TimerBeat \/ TimerOut
    \/ ConnectServerFails \/ \E p \in Peers : ConnectServer(p)

Next == World \/ StartDispatch

Spec == Init /\ [][Next]_vars

\* The loop turns.  Time passes, so the timer is due again and again, what
\* was sent last gets old, and a connection over which nothing can arrive
\* gets too old.  A connect() is answered, or times out in the kernel.
Fairness ==
    /\ WF_vars(StartDispatch) /\ SF_vars(TimerDue)
    /\ \A p \in Peers :
        /\ WF_vars(Answered(p))
        /\ SF_vars(TimerBeat /\ held = p)
        /\ SF_vars(TimerOut /\ held = p /\ link[p] = "dead")
FairSpec == Spec /\ Fairness

-----------------------------------------------------------------------------
(* Properties.                                                             *)

Events ==
    [fd : Fds \cup {NoFd, Listening}, of : Peers \cup {NoPeer, Other},
     mask : SUBSET {"EPOLLIN", "EPOLLOUT", "EPOLLHUP"}, socket : Peers \cup {NoPeer}]

TypeOK ==
    /\ role \in {"server", "client"}
    /\ owner \in [Fds -> Peers \cup {NoPeer, Other}]
    /\ link \in [Peers -> {"none", "connecting", "refused", "failed", "up",
                           "fin", "reset", "dead", "closed"}]
    /\ backlog \in Seq(Peers) /\ ready \subseteq Fds \cup {Listening}
    /\ rx \in [Peers -> Seq(Pdus)]
    /\ sockets \in [Fds -> Peers \cup {NoPeer}]
    /\ conns \in [Fds -> Peers \cup {NoPeer}]
    /\ sref \in [Peers -> 0..2] /\ cref \in [Peers -> 0..2]
    /\ state \in [Peers -> {"IDLE", "CONNECTING", "CONNECTED", "CLOSING"}]
    /\ type \in [Peers -> {"none", "CPP", "PHP"}]
    /\ pc \in {"connect", "wait", "dispatch", "accept", "in", "out", "hup",
               "release", "leave", "timer", "loop", "onTimer"}
    /\ batch \subseteq Events /\ event \in Events
    /\ held \in Peers \cup {NoPeer} /\ after \in {"", "out", "hup", "release"}
    /\ it \in Fds \cup {NoFd} /\ seen \subseteq Fds
    /\ starved \in BOOLEAN

InCallback == pc = "leave"

\* The loop never touches an object that was deleted or an entry that was
\* erased: neither the socket of its event, after a handler closed it, nor
\* the connection whose handler returns, nor the connection OnTimer is called
\* for, nor the node its iterator stands on.
NothingDangling ==
    /\ event.socket # NoPeer => sref[event.socket] > 0
    /\ held # NoPeer => cref[held] > 0
    /\ pc = "loop" /\ it # NoFd => conns[it] # NoPeer

\* An object is deleted with its last use and not later: its count is the
\* number of places that know it.  Only the connection whose connect() fails
\* at once is never released (clientConn.cpp:72-76).
RefsExact ==
    \A p \in Peers :
        /\ sref[p] = Cardinality({fd \in Fds : sockets[fd] = p})
                     + IF event.socket = p THEN 1 ELSE 0
        /\ cref[p] = Cardinality({fd \in Fds : conns[fd] = p})
                     + (IF InCallback /\ held = p THEN 1 ELSE 0)
                     + IF link[p] = "failed" THEN 1 ELSE 0

\* An event is handled by the socket and the connection it happened to, even
\* when descriptors were closed and given away since epoll_wait returned.
Rightful ==
    event.socket # NoPeer =>
        event.of = event.socket /\ (InCallback => held = event.of)

\* Connections whose peer has closed them, broken them or gone silent are
\* closed, although the end of a stream goes unnoticed when it arrives with
\* the last bytes (BaseSocket.cpp:167-175, imconn.cpp:123-137): a heartbeat
\* finds out.  Left over are pages, which get none (servConn.cpp:22), that
\* closed or vanished without having an answer to come.
GoneIsClosed ==
    <>[](\A fd \in Handles :
            link[conns[fd]] \in {"fin", "reset", "refused", "dead"} =>
                /\ role = "server" /\ type[conns[fd]] = "PHP"
                /\ link[conns[fd]] \in {"fin", "dead"})

\* Every connection is accepted, although several may be announced by one
\* edge, unless accept() ever ran out of descriptors (BaseSocket.cpp:297).
AllAccepted == <>[](backlog = <<>> \/ starved)
=============================================================================
