------------------------------ MODULE EdmControl -----------------------------
(***************************************************************************)
(* The control plane: how the server (manager.cpp, servConn.cpp) makes its *)
(* clients (clientConn.cpp) follow the status and the sending rate an      *)
(* administrator orders, while clients start, lose their connections and   *)
(* connect again.                                                          *)
(*                                                                         *)
(* Both programs are event loops: one handler is one step.  A connection   *)
(* carries whole PDUs in order (PduChannel, which ImLink implements), with *)
(* one thing kept of ImLink: what the client sends before its connection   *)
(* is confirmed stays in m_out_buf until something arrives from the server.*)
(* A connection may be reset, which both ends notice, or go dead, which    *)
(* each end finds out only by its own timeout.                             *)
(*                                                                         *)
(* The rate stands for the delay and the number of processes together.     *)
(* The administrator's own connection appears as the orders it causes; the *)
(* reports the clients send with their heartbeats are not modelled.        *)
(***************************************************************************)
EXTENDS Naturals, Sequences

CONSTANTS
    Clients,      \* the client hosts, numbered in the order in which they start
    NoClient,
    Conns,        \* bound: the connections made in all, numbered as they are made
    Orders,       \* the statuses the administrator may order
    Rates,        \* the rates the administrator may order
    DefaultRate,  \* delay 0 and one process, on both sides
    Garbage,      \* what an uninitialised client_type may read as
    MaxOrders,    \* bound: the number of orders
    MaxBreaks     \* bound: the connections that break and the reports that
                  \* the mail is sent, in all

ASSUME NoClientIsNone == NoClient \notin Clients
ASSUME Numbered == Clients \subseteq Nat /\ Conns \subseteq Nat
ASSUME OrdersKnown == Orders \subseteq {"START", "STOP", "PAUSE", "RESUME"}
ASSUME DefaultRateIn == DefaultRate \in Rates
ASSUME GarbageKnown == Garbage \subseteq {"CPP", "PHP", "junk"} /\ Garbage # {}
ASSUME ControlBounds == MaxOrders \in Nat /\ MaxBreaks \in Nat

VARIABLES
    sStatus, sRate,   \* cManager::_status; _delay and _multi
    inMap, type,      \* g_client_conn_map; client_type of each connection
    cStatus, cRate,   \* what each client has in shared memory
    booted,           \* the clients that have been started
    peer, open,       \* who made a connection; is it in its g_serv_conn_map?
    confirmed,        \* the client has run OnConfirm
    held,             \* PDUs in the client's m_out_buf
    up, down,         \* PDUs on the way to the server, to the client
    link,             \* none, up, reset, or dead without a sign
    asked,            \* history: the server has answered a status request
    missed,           \* history: since then an order has passed the connection over,
                      \* as a page's
    orders, breaks    \* bounds

server == <<sStatus, sRate, inMap, type>>
client == <<cStatus, cRate, booted, peer, open, confirmed, held>>
net == <<up, down, link>>
bounds == <<orders, breaks>>
history == <<asked, missed>>
vars == <<server, client, net, history, bounds>>

\* PDUs.
Status(s) == [pdu |-> "command", status |-> s]
Rate(r) == [pdu |-> "rate", rate |-> r]
Info(s, r) == [pdu |-> "info", status |-> s, rate |-> r]
Plain(name) == [pdu |-> name]

Reachable(i) == link[i] \in {"up", "reset"}

-----------------------------------------------------------------------------
(* The server.                                                             *)

Accept(i) ==
    /\ link[i] = "up" /\ i \notin inMap /\ type[i] = "none"
    /\ inMap' = inMap \cup {i}
    /\ \E t \in Garbage : type' = [type EXCEPT ![i] = t]
    /\ UNCHANGED <<sStatus, sRate, client, net, history, bounds>>

(* Fault variant: the loop returns after the first client. *)
SendFirstClient(pdu) ==
    LET clients == {i \in inMap : type[i] # "PHP"} IN
    down' = [i \in Conns |-> IF clients # {} /\ i = (CHOOSE k \in clients : TRUE) /\ open[i]
                             THEN Append(down[i], pdu) ELSE down[i]]

\* send_all_client_pdu.
SendAllClients(pdu) ==
    down' = [i \in Conns |-> IF i \in inMap /\ type[i] # "PHP" /\ open[i]
                             THEN Append(down[i], pdu) ELSE down[i]]

PassedOver == {i \in inMap : type[i] = "PHP"}

\* cManager::start, stop, pause and resume.
Order(s) ==
    /\ orders < MaxOrders
    /\ orders' = orders + 1
    /\ SendAllClients(Status(s))
    /\ sStatus' = s
    /\ missed' = missed \cup (asked \cap PassedOver)
    /\ UNCHANGED <<sRate, inMap, type, client, up, link, asked, breaks>>

\* cManager::adjustSendRate.
Adjust(r) ==
    /\ orders < MaxOrders
    /\ orders' = orders + 1
    /\ sRate' = r
    /\ SendAllClients(Rate(r))
    /\ missed' = missed \cup (asked \cap PassedOver)
    /\ UNCHANGED <<sStatus, inMap, type, client, up, link, asked, breaks>>

\* HandlePdu, on a status request, a registration or the test data.  A client's
\* CImPduClientDone comes as a registration without its number: client_type is
\* then a local variable nobody has set.
ServerRecv(i) ==
    /\ i \in inMap /\ Reachable(i) /\ up[i] # <<>>
    /\ up' = [up EXCEPT ![i] = Tail(@)]
    /\ CASE Head(up[i]).pdu = "statusRequest" ->
              /\ down' = [down EXCEPT ![i] = Append(@, Info(sStatus, sRate))]
              /\ asked' = asked \cup {i}
              /\ UNCHANGED <<type, missed>>
         [] Head(up[i]).pdu = "register" ->
              /\ type' = [type EXCEPT ![i] = "CPP"]
              /\ UNCHANGED <<down, history>>
         [] Head(up[i]).pdu = "done" ->
              /\ \E t \in Garbage : type' = [type EXCEPT ![i] = t]
              /\ UNCHANGED <<down, history>>
         [] Head(up[i]).pdu = "data" ->
              /\ down' = [down EXCEPT ![i] = Append(@, Plain("response"))]
              /\ UNCHANGED <<type, history>>
    /\ UNCHANGED <<sStatus, sRate, inMap, client, link, bounds>>

\* The heartbeat of OnTimer; the timer passes PHP connections over.
ServerBeat(i) ==
    /\ i \in inMap /\ type[i] # "PHP"
    /\ link[i] = "up" /\ down[i] = <<>>
    /\ down' = [down EXCEPT ![i] = <<Plain("heartbeat")>>]
    /\ UNCHANGED <<server, client, up, link, history, bounds>>

\* OnClose, once everything that arrived has been read; or CLIENT_TIMEOUT.
ServerClose(i) ==
    /\ i \in inMap
    /\ \/ link[i] = "reset" /\ up[i] = <<>>
       \/ link[i] = "dead" /\ type[i] # "PHP"
    /\ inMap' = inMap \ {i}
    /\ UNCHANGED <<sStatus, sRate, type, client, net, history, bounds>>

-----------------------------------------------------------------------------
(* A client.                                                               *)

\* The connection made next.
Unused(i) == peer[i] = NoClient /\ \A j \in Conns : j < i => peer[j] # NoClient

\* connect_server: the attempt may fail at once.
Connect(c, i) ==
    /\ Unused(i)
    /\ peer' = [peer EXCEPT ![i] = c]
    /\ link' = [link EXCEPT ![i] = "up"]
    /\ UNCHANGED breaks
ConnectFails == breaks < MaxBreaks /\ breaks' = breaks + 1

\* main: connect_server, then init_client_conn, which sends its request
\* before the connection is confirmed.
Boot(c) ==
    /\ c \notin booted /\ \A d \in Clients : d < c => d \in booted
    /\ booted' = booted \cup {c}
    /\ \/ \E i \in Conns :
            /\ Connect(c, i)
            /\ open' = [open EXCEPT ![i] = TRUE]
            /\ held' = [held EXCEPT ![i] = <<Plain("statusRequest")>>]
       \/ ConnectFails /\ UNCHANGED <<peer, open, held, link>>
    /\ UNCHANGED <<server, cStatus, cRate, confirmed, up, down, history, orders>>

\* OnConfirm: behind what is in m_out_buf already, if there is anything.
Confirm(i) ==
    /\ open[i] /\ link[i] = "up" /\ ~confirmed[i]
    /\ confirmed' = [confirmed EXCEPT ![i] = TRUE]
    /\ LET pdus == <<Plain("register"), Plain("data")>> IN
       IF held[i] = <<>>
       THEN up' = [up EXCEPT ![i] = @ \o pdus] /\ UNCHANGED held
       ELSE held' = [held EXCEPT ![i] = @ \o pdus] /\ UNCHANGED up
    /\ UNCHANGED <<server, cStatus, cRate, booted, peer, open, down, link, history, bounds>>

\* The client's HandlePdu.
Follow(c, pdu) ==
    /\ cStatus' = IF pdu.pdu \in {"command", "info"}
                  THEN [cStatus EXCEPT ![c] = pdu.status] ELSE cStatus
    /\ cRate' = IF pdu.pdu \in {"rate", "info"}
                THEN [cRate EXCEPT ![c] = pdu.rate] ELSE cRate

(* Fault variant: EPOLLIN does not come with EPOLLOUT. *)
ClientRecvNoFlush(i) ==
    /\ open[i] /\ Reachable(i) /\ down[i] # <<>>
    /\ down' = [down EXCEPT ![i] = Tail(@)]
    /\ Follow(peer[i], Head(down[i]))
    /\ UNCHANGED <<server, booted, peer, open, confirmed, held, up, link, history, bounds>>

\* One PDU is handled; the same event lets a confirmed connection flush.
ClientRecv(i) ==
    /\ open[i] /\ Reachable(i) /\ down[i] # <<>>
    /\ down' = [down EXCEPT ![i] = Tail(@)]
    /\ Follow(peer[i], Head(down[i]))
    /\ IF confirmed[i] /\ link[i] = "up"
       THEN /\ up' = [up EXCEPT ![i] = @ \o held[i]]
            /\ held' = [held EXCEPT ![i] = <<>>]
       ELSE UNCHANGED <<up, held>>
    /\ UNCHANGED <<server, booted, peer, open, confirmed, link, history, bounds>>

\* cWorker::done, in a sending child that has found nothing to send.  The child
\* has a copy of the connection with an m_out_buf of its own, so the report may
\* pass what the client holds back.
Done(i) ==
    /\ breaks < MaxBreaks /\ breaks' = breaks + 1
    /\ open[i] /\ link[i] = "up" /\ cStatus[peer[i]] \in {"START", "RESUME"}
    /\ up' = [up EXCEPT ![i] = Append(@, Plain("done"))]
    /\ UNCHANGED <<server, client, down, link, history, orders>>

\* OnClose: nothing is connected again.
ClientClosed(i) ==
    /\ open[i] /\ link[i] = "reset" /\ down[i] = <<>>
    /\ open' = [open EXCEPT ![i] = FALSE]
    /\ UNCHANGED <<server, cStatus, cRate, booted, peer, confirmed, held, net, history, bounds>>

\* SERVER_TIMEOUT: nothing arrives over a connection that is dead, or whose
\* server takes the client for a PHP page and sends no heartbeat, while all
\* the client has to say is stuck in m_out_buf.
Silent(i) ==
    \/ link[i] = "dead"
    \/ /\ link[i] = "up" /\ confirmed[i] /\ type[i] = "PHP"
       /\ up[i] = <<>> /\ down[i] = <<>>

\* The client's side of close, seen by the server if anything arrives at all.
Leave(i) == [link EXCEPT ![i] = IF @ = "up" THEN "reset" ELSE @]

(* Fault variant: the client asks for the status again, as early as before. *)
ClientTimeoutAsks(i) ==
    /\ open[i] /\ Silent(i)
    /\ \E j \in Conns :
          /\ Unused(j)
          /\ peer' = [peer EXCEPT ![j] = peer[i]]
          /\ open' = [open EXCEPT ![i] = FALSE, ![j] = TRUE]
          /\ held' = [held EXCEPT ![i] = <<>>, ![j] = <<Plain("statusRequest")>>]
          /\ link' = [Leave(i) EXCEPT ![j] = "up"]
    /\ UNCHANGED <<server, cStatus, cRate, booted, confirmed, up, down, history, bounds>>

\* OnTimer: close, then connect_server, with no new status request.
ClientTimeout(i) ==
    /\ open[i] /\ Silent(i)
    /\ held' = [held EXCEPT ![i] = <<>>]
    /\ \/ \E j \in Conns :
            /\ Unused(j)
            /\ peer' = [peer EXCEPT ![j] = peer[i]]
            /\ open' = [open EXCEPT ![i] = FALSE, ![j] = TRUE]
            /\ link' = [Leave(i) EXCEPT ![j] = "up"]
            /\ UNCHANGED breaks
       \/ /\ ConnectFails
          /\ open' = [open EXCEPT ![i] = FALSE]
          /\ link' = Leave(i)
          /\ UNCHANGED peer
    /\ UNCHANGED <<server, cStatus, cRate, booted, confirmed, up, down, history, orders>>

-----------------------------------------------------------------------------
(* The network.                                                            *)

\* Both ends will see the end of the connection; what is on the way is lost.
Reset(i) ==
    /\ breaks < MaxBreaks /\ breaks' = breaks + 1
    /\ link[i] = "up"
    /\ link' = [link EXCEPT ![i] = "reset"]
    /\ up' = [up EXCEPT ![i] = <<>>] /\ down' = [down EXCEPT ![i] = <<>>]
    /\ UNCHANGED <<server, client, history, orders>>

\* Nothing arrives any more, and nobody is told.
Die(i) ==
    /\ breaks < MaxBreaks /\ breaks' = breaks + 1
    /\ link[i] = "up"
    /\ link' = [link EXCEPT ![i] = "dead"]
    /\ UNCHANGED <<server, client, up, down, history, orders>>

-----------------------------------------------------------------------------
Init ==
    /\ sStatus = "STOP" /\ sRate = DefaultRate
    /\ inMap = {} /\ type = [i \in Conns |-> "none"]
    /\ cStatus = [c \in Clients |-> "NONE"]
    /\ cRate = [c \in Clients |-> DefaultRate]
    /\ booted = {}
    /\ peer = [i \in Conns |-> NoClient]
    /\ open = [i \in Conns |-> FALSE]
    /\ confirmed = [i \in Conns |-> FALSE]
    /\ held = [i \in Conns |-> <<>>]
    /\ up = [i \in Conns |-> <<>>] /\ down = [i \in Conns |-> <<>>]
    /\ link = [i \in Conns |-> "none"]
    /\ asked = {} /\ missed = {}
    /\ orders = 0 /\ breaks = 0

ServerStep(i) == Accept(i) \/ ServerRecv(i) \/ ServerBeat(i) \/ ServerClose(i)
ClientStep(i) == Confirm(i) \/ ClientRecv(i) \/ ClientClosed(i) \/ ClientTimeout(i)

Next ==
    \/ \E s \in Orders : Order(s)
    \/ \E r \in Rates : Adjust(r)
    \/ \E c \in Clients : Boot(c)
    \/ \E i \in Conns : ServerStep(i) \/ ClientStep(i) \/ Done(i) \/ Reset(i) \/ Die(i)

Spec == Init /\ [][Next]_vars

\* Both event loops turn, the network delivers over connections that have
\* not broken, and timers run.  Nobody need order anything, no client need
\* be started, no child need find the mail sent and no connection need break.
Fairness ==
    \A i \in Conns :
        /\ WF_vars(Accept(i)) /\ WF_vars(ServerRecv(i))
        /\ WF_vars(ServerBeat(i)) /\ WF_vars(ServerClose(i))
        /\ WF_vars(Confirm(i)) /\ WF_vars(ClientRecv(i))
        /\ WF_vars(ClientClosed(i)) /\ WF_vars(ClientTimeout(i))
FairSpec == Spec /\ Fairness

-----------------------------------------------------------------------------
(* Properties.                                                             *)

\* The value a client ends up with once it has handled the PDUs in s: the
\* last one that carries the field decides.
FollowedStatus(c, s) ==
    LET carriers == {k \in 1..Len(s) : s[k].pdu \in {"command", "info"}} IN
    IF carriers = {} THEN cStatus[c]
    ELSE s[CHOOSE k \in carriers : \A j \in carriers : j <= k].status
FollowedRate(c, s) ==
    LET carriers == {k \in 1..Len(s) : s[k].pdu \in {"rate", "info"}} IN
    IF carriers = {} THEN cRate[c]
    ELSE s[CHOOSE k \in carriers : \A j \in carriers : j <= k].rate

\* A client whose status request was answered over a connection stays in step
\* with the server for as long as that connection works and is not taken for
\* a page's when an order is sent, as its own report that the mail is sent may
\* bring about: what it has and what is on its way add up to
\* what the administrator ordered last, whatever answers, orders, registrations
\* and reports overtook each other (servConn.cpp:47-56 against 252-266).
InStep ==
    \A i \in asked \ missed :
        (i \in inMap /\ open[i] /\ link[i] = "up") =>
            /\ FollowedStatus(peer[i], down[i]) = sStatus
            /\ FollowedRate(peer[i], down[i]) = sRate

\* A client the bound Conns leaves no second connection.
Spent(c) ==
    /\ \A i \in Conns : peer[i] # NoClient
    /\ \A i, j \in Conns : peer[i] = c /\ peer[j] = c => i = j

\* Once the administrator is quiet, a client whose first connection holds has
\* what was ordered, although its request was sent too early and waits in
\* m_out_buf for a heartbeat (clientConn.cpp:51-52); unless an order has passed
\* it over since the answer, when its report had undone its registration.
Learns ==
    <>[](\A i \in Conns :
            (open[i] /\ link[i] = "up" /\ \A j \in Conns : peer[j] = peer[i] => j = i)
                => \/ cStatus[peer[i]] = sStatus /\ cRate[peer[i]] = sRate
                   \/ i \in missed
                   \/ Silent(i) /\ Spent(peer[i]))

\* Every client that was started ends up as a registered client, whatever an
\* uninitialised client_type reads as: a server that takes it for a PHP page
\* and keeps silent is left by the time-out, and over the next connection the
\* registration is the first thing sent (clientConn.cpp:94-101, 126-137).  Said
\* of clients that report nothing: each report may undo the registration, until
\* the next connection.
EndsUpRegistered ==
    <>[](breaks = 0 =>
            \A c \in booted :
                \/ \E i \in inMap : peer[i] = c /\ open[i] /\ type[i] = "CPP"
                \/ Spent(c))
=============================================================================
