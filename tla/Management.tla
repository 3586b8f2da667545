----------------------------- MODULE Management -----------------------------
(***************************************************************************)
(* What the server knows of its clients and what the management page is    *)
(* told: cMonitoring (src/c++/server/monitoring.cpp) and the handlers of   *)
(* servConn.cpp that feed and read it, the reports of the clients          *)
(* (clientConn.cpp) and the page (src/php/EdmController.php), each of      *)
(* whose calls makes a connection, registers it, asks once and reads once. *)
(*                                                                         *)
(* What the orders do to the clients is in EdmControl, the PDUs as bytes   *)
(* in PduCodec, the event loop in Sockets.  Here PDUs are handled in the   *)
(* order of their connection, and a status is the fact that it is there.   *)
(***************************************************************************)
EXTENDS Integers, Sequences, FiniteSets

CONSTANTS
    Conns,     \* bound: connections at a time
    Hosts,     \* where a client is started, and pages are called
    Ips,
    Ways,      \* how the hosts may be reached, see way
    MaxPages,  \* bound: calls of the page
    MaxFaults  \* bound: clients that end, connections that are cut, reset or
               \* refused, CImPduClientDone

ASSUME ManagementConstants ==
    /\ Conns \subseteq Nat /\ IsFiniteSet(Conns) /\ Hosts # {}
    /\ Ways \subseteq [Hosts -> [local : Ips, remote : Ips]] /\ Ways # {}
    /\ MaxPages \in Nat /\ MaxFaults \in Nat

VARIABLES
    way,       \* of each host the ip its client reports, and the one its connections
               \* come from: another one through a gateway, or by the loopback device
    client,    \* what became of each host's client
    conn,      \* the connections
    \* the server
    serving,
    listed,    \* the keys of _client_status_maps
    online,    \* _online_client_num, uninitialised at first
    pages, faults  \* bounds

server == <<serving, listed, online>>
bounds == <<pages, faults>>
vars == <<way, client, conn, server, bounds>>

Local(h) == way[h].local    \* getLocalIp()
Remote(h) == way[h].remote  \* GetRemoteIP()

\* A client tries to connect, has a connection, runs on without one for
\* ever, or has ended.
Clients == {"trying", "on", "stranded", "ended"}

\* The page's actions; a rate is an order here.
Requests == {"order", "status", "list"}
Answer == [order |-> "response", status |-> "status_info", list |-> "client_list"]

\* A connection:
Connection == [
    peer : {"none", "client", "page"},      \* what has made it,
    host : Hosts,                           \* and where;
    far : {"none", "open", "gone"},         \* its end
    near : {"none", "open", "closed"},      \* the server's: in g_client_conn_map
    cut : BOOLEAN,                          \* nothing arrives any more
    up : Seq({"reg", "report", "done"} \cup Requests),    \* PDUs under way
    ctype : {"none", "CPP", "PHP"},         \* client_type, uninitialised at first
    request : Requests \cup {"none"},       \* what a page waits for the answer to
    \* the first PDU sent to it, the only one it reads; "notice": meant for clients
    first : {"none", "response", "status_info", "client_list", "notice"},
    handled : Nat]                          \* history: how often its request was executed

Free == [peer |-> "none", host |-> CHOOSE h \in Hosts : TRUE, far |-> "none", near |-> "none",
         cut |-> FALSE, up |-> <<>>, ctype |-> "none",
         request |-> "none", first |-> "none", handled |-> 0]

\* When both ends have forgotten a connection, nothing is left of it.
Kept(c) == IF c.far = "gone" /\ c.near = "closed" THEN Free ELSE c

Open == {k \in Conns : conn[k].near = "open"}
\* server_conn_timer_callback and send_all_client_pdu pass over the pages.
NotPages == {k \in Open : conn[k].ctype # "PHP"}
Unused == {k \in Conns : conn[k] = Free}

-----------------------------------------------------------------------------
(* The clients.                                                            *)

Makes(k, c) ==
    /\ serving /\ k \in Unused /\ \A j \in Unused : k <= j
    /\ \E t \in {"CPP", "PHP"} :
        conn' = [conn EXCEPT ![k] = [c EXCEPT !.far = "open", !.near = "open", !.ctype = t]]

Of(h) == {k \in Conns : conn[k].peer = "client" /\ conn[k].host = h /\ conn[k].far = "open"}

\* connect_server, called at the start and after a time-out, gets through;
\* OnConfirm registers, and sends a test which changes nothing.
Connect(h, k) ==
    /\ client[h] = "trying"
    /\ Makes(k, [Free EXCEPT !.peer = "client", !.host = h, !.up = <<"reg">>])
    /\ client' = [client EXCEPT ![h] = "on"]
    /\ UNCHANGED <<way, server, bounds>>

\* It fails, at once or by an OnClose: no connection is left whose OnTimer
\* would call it again.
ConnectFails(h) ==
    /\ client[h] = "trying" /\ faults < MaxFaults
    /\ client' = [client EXCEPT ![h] = "stranded"]
    /\ faults' = faults + 1
    /\ UNCHANGED <<way, conn, server, pages>>

\* A client that has nothing under way sends something.
Sends(h, k, pdu) ==
    /\ k \in Of(h) /\ conn[k].up = <<>>
    /\ conn' = [conn EXCEPT ![k].up = IF conn[k].cut \/ k \notin Open THEN <<>> ELSE <<pdu>>]

\* OnTimer of the client: a report of its status.
Report(h, k) ==
    /\ Sends(h, k, "report")
    /\ UNCHANGED <<way, client, server, bounds>>

\* cWorker::done, in a child that has found nothing to send.
Done(h, k) ==
    /\ faults < MaxFaults
    /\ Sends(h, k, "done")
    /\ faults' = faults + 1
    /\ UNCHANGED <<way, client, server, pages>>

Leaves(c) == Kept([c EXCEPT !.far = "gone"])

\* OnTimer again: nothing has come from the server for SERVER_TIMEOUT.  A
\* connection that is taken for a page's gets no heartbeats.
ClientTimeout(h, k) ==
    /\ k \in Of(h)
    /\ \/ conn[k].near = "closed" \/ conn[k].cut
       \/ conn[k].ctype = "PHP" /\ conn[k].up # <<"reg">>
    /\ conn' = [conn EXCEPT ![k] = Leaves(@)]
    /\ client' = [client EXCEPT ![h] = "trying"]
    /\ UNCHANGED <<way, server, bounds>>

\* OnClose of the client: its connection was reset, or it hears, late, that
\* the server has closed it.  It closes its end, and does not connect again.
Reset(h, k) ==
    /\ k \in Of(h) /\ faults < MaxFaults
    /\ conn' = [conn EXCEPT ![k] = Leaves(@)]
    /\ client' = [client EXCEPT ![h] = "stranded"]
    /\ faults' = faults + 1
    /\ UNCHANGED <<way, server, pages>>

\* The client process ends.
Leave(h) ==
    /\ client[h] # "ended" /\ faults < MaxFaults
    /\ client' = [client EXCEPT ![h] = "ended"]
    /\ conn' = [k \in Conns |-> IF k \in Of(h) THEN Leaves(conn[k]) ELSE conn[k]]
    /\ faults' = faults + 1
    /\ UNCHANGED <<way, server, pages>>

\* A client's connection is cut; some of what is under way arrives.
Cut(k) ==
    /\ conn[k].peer = "client" /\ conn[k].far = "open" /\ ~conn[k].cut /\ faults < MaxFaults
    /\ \E n \in 0..Len(conn[k].up) :
        conn' = [conn EXCEPT ![k].cut = TRUE, ![k].up = SubSeq(@, 1, n)]
    /\ faults' = faults + 1
    /\ UNCHANGED <<way, client, server, pages>>

-----------------------------------------------------------------------------
(* The page.                                                               *)

\* getSock, regClientType and the request of an action.
Ask(k, h, r) ==
    /\ pages < MaxPages
    /\ Makes(k, [Free EXCEPT !.peer = "page", !.host = h, !.up = <<"reg", r>>, !.request = r])
    /\ pages' = pages + 1
    /\ UNCHANGED <<way, client, server, faults>>

\* What the page may report of the first PDU.  It knows the answer by its
\* ids, except that the list of the clients is taken from whatever comes:
\* the bytes behind the header of something else, if there are any or
\* another PDU has come along with it, read as an empty list.
Reports(r, pdu) ==
    IF pdu = Answer[r] THEN {"success"}
    ELSE IF r = "list" THEN {"success", "error"} ELSE {"error"}

\* The end of an action, and __destruct.
PageEnds(k) ==
    /\ conn' = [conn EXCEPT ![k] =
                    Leaves([@ EXCEPT !.request = "none", !.first = "none", !.handled = 0])]
    /\ UNCHANGED <<way, client, server, bounds>>

Waiting(k) == conn[k].request # "none"

\* recv() once.
PageReads(k) ==
    /\ Waiting(k) /\ conn[k].first # "none"
    /\ PageEnds(k)

\* Nothing for SO_RCVTIMEO, or the end of the stream.
PageGivesUp(k) ==
    /\ Waiting(k) /\ conn[k].first = "none"
    /\ PageEnds(k)

-----------------------------------------------------------------------------
(* The server.                                                             *)

(* Fault variant: a status that is there already is erased only. *)
UpdateClientStatusErases(ip) == IF ip \in listed THEN listed \ {ip} ELSE listed \cup {ip}

\* cMonitoring, of which only who is listed is kept here.
UpdateClientStatus(ip) == listed \cup {ip}
removeClientStauts(ips) == listed \ ips

\* A PDU to a page that still waits for its first one.
Told(c, pdu) == IF c.request # "none" /\ c.first = "none" THEN [c EXCEPT !.first = pdu] ELSE c
Closed(c) == Kept([c EXCEPT !.near = "closed", !.up = <<>>, !.ctype = "none"])

(* Fault variant: the status stays. *)
ClosesKeepingStatus(closing, beats) ==
    /\ conn' = [k \in Conns |->
                    IF k \in closing THEN Closed(conn[k])
                    ELSE IF k \in beats THEN Told(conn[k], "notice") ELSE conn[k]]
    /\ UNCHANGED listed

\* cServConn::close, with removeClientStauts, and heartbeats to some others.
Closes(closing, beats) ==
    /\ conn' = [k \in Conns |->
                    IF k \in closing THEN Closed(conn[k])
                    ELSE IF k \in beats THEN Told(conn[k], "notice") ELSE conn[k]]
    /\ listed' = removeClientStauts({Remote(conn[k].host) : k \in closing})

\* OnClose: the other end has closed.  What it has sent is read before, or
\* lost if it broke the connection.
OnClose(k) ==
    /\ serving /\ k \in Open /\ conn[k].far = "gone" /\ ~conn[k].cut
    /\ Closes({k}, {})
    /\ UNCHANGED <<way, client, serving, online, bounds>>

\* Those that send nothing any more, and the pages a heartbeat can get to.
Silent == {k \in NotPages : conn[k].cut \/ conn[k].far = "gone"}
Beaten == {k \in NotPages : Waiting(k) /\ conn[k].first = "none"}

(* Fault variant: the connections are counted before the late are closed. *)
TimerCountsFirst(late, beats) ==
    /\ serving
    /\ Closes(late, beats)
    /\ online' = Cardinality(Open)
    /\ UNCHANGED <<way, client, serving, bounds>>

\* server_conn_timer_callback: a heartbeat to those that were sent nothing
\* for a while, out with those that have sent nothing for CLIENT_TIMEOUT,
\* and then it counts.
Timer(late, beats) ==
    /\ serving
    /\ Closes(late, beats)
    /\ online' = Cardinality(NotPages \ late)
    /\ UNCHANGED <<way, client, serving, bounds>>

\* The next PDU of a connection, if it is one of these.
NextIs(k, pdus) == serving /\ k \in Open /\ conn[k].up # <<>> /\ Head(conn[k].up) \in pdus
Taken(k) == [conn[k] EXCEPT !.up = Tail(@)]

\* _HandleRegClientType.  CImPduClientDone is written as a registration
\* without its number, which is read as whatever the local variable holds.
HandleReg(k) ==
    /\ NextIs(k, {"reg", "done"})
    /\ \E t \in {"CPP", "PHP"} :
        /\ Head(conn[k].up) = "reg" => t = IF conn[k].peer = "page" THEN "PHP" ELSE "CPP"
        /\ conn' = [conn EXCEPT ![k] = [Taken(k) EXCEPT !.ctype = t]]
    /\ UNCHANGED <<way, client, server, bounds>>

\* _HandleHeartBeat, by the ip that was reported.
HandleReport(k) ==
    /\ NextIs(k, {"report"})
    /\ conn' = [conn EXCEPT ![k] = Taken(k)]
    /\ listed' = UpdateClientStatus(Local(conn[k].host))
    /\ UNCHANGED <<way, client, serving, online, bounds>>

\* A request of a page is carried out.
Executed(k) == [Taken(k) EXCEPT !.handled = IF Waiting(k) THEN @ + 1 ELSE @]

(* Fault variant: the pages get the order as well. *)
BroadcastToAll(k, c) ==
    [j \in Conns |->
        IF j = k THEN Told(IF k \in Open THEN Told(c, "notice") ELSE c, "response")
        ELSE IF j \in Open THEN Told(conn[j], "notice") ELSE conn[j]]

\* send_all_client_pdu, and then the response to k, whose state is c.
Broadcast(k, c) ==
    [j \in Conns |->
        IF j = k THEN Told(IF k \in NotPages THEN Told(c, "notice") ELSE c, "response")
        ELSE IF j \in NotPages THEN Told(conn[j], "notice") ELSE conn[j]]

\* The assert of _getTotalNum fails: the process is gone.  What becomes of
\* the other ends is not followed any further.
Aborts == serving' = FALSE /\ conn' = [j \in Conns |-> Free]

(* Fault variant: the response goes out before start() has got through. *)
HandleCommandEarly(k) ==
    /\ NextIs(k, {"order"})
    /\ \/ conn' = Broadcast(k, Executed(k)) /\ UNCHANGED serving
       \/ /\ serving' = FALSE
          /\ conn' = [j \in Conns |-> IF j = k THEN Closed(Told(Taken(k), "response")) ELSE Free]
    /\ UNCHANGED <<way, client, listed, online, bounds>>

\* _HandleServerCommand and _HandleServerAdjustRate.  start() asserts that
\* the database can be reached (manager.cpp:143-146), or the server aborts.
HandleCommand(k) ==
    /\ NextIs(k, {"order"})
    /\ \/ conn' = Broadcast(k, Executed(k)) /\ UNCHANGED serving
       \/ Aborts
    /\ UNCHANGED <<way, client, listed, online, bounds>>

(* Fault variant: the request is left in the buffer. *)
HandleQueryAgain(k) ==
    /\ NextIs(k, {"status", "list"})
    /\ conn' = [conn EXCEPT ![k] =
                    Told([Executed(k) EXCEPT !.up = conn[k].up], Answer[Head(conn[k].up)])]
    /\ UNCHANGED <<way, client, server, bounds>>

\* _HandleAllClientStatusInfo and _HandleServerStatusInfo.
HandleQuery(k) ==
    /\ NextIs(k, {"status", "list"})
    /\ conn' = [conn EXCEPT ![k] = Told(Executed(k), Answer[Head(conn[k].up)])]
    /\ UNCHANGED <<way, client, server, bounds>>

HandlePdu(k) == HandleReg(k) \/ HandleReport(k) \/ HandleCommand(k) \/ HandleQuery(k)

-----------------------------------------------------------------------------
Init ==
    /\ way \in Ways /\ client = [h \in Hosts |-> "trying"] /\ conn = [k \in Conns |-> Free]
    /\ serving = TRUE /\ listed = {} /\ online \in {0, Cardinality(Conns)}
    /\ pages = 0 /\ faults = 0

Next ==
    \/ \E k \in Conns :
        \/ \E h \in Hosts :
            \/ Connect(h, k) \/ Report(h, k) \/ Done(h, k)
            \/ ClientTimeout(h, k) \/ Reset(h, k)
            \/ \E r \in Requests : Ask(k, h, r)
        \/ Cut(k) \/ PageReads(k) \/ PageGivesUp(k)
        \/ OnClose(k) \/ HandlePdu(k)
    \/ \E h \in Hosts : ConnectFails(h) \/ Leave(h)
    \/ \E late \in SUBSET Silent, beats \in SUBSET Beaten : Timer(late, beats)

Spec == Init /\ [][Next]_vars

\* The server's loop gets round to every connection and its timer runs, and
\* time passes: all that sends nothing any more gets too old.  The clients'
\* timers run, and the calls of the page come to an end by themselves.
Fairness ==
    /\ WF_vars(Timer(Silent, {}))
    /\ \A k \in Conns : WF_vars(HandlePdu(k) \/ OnClose(k))
    /\ WF_vars(\E k \in Conns : PageReads(k) \/ PageGivesUp(k))
    /\ \A h \in Hosts :
        /\ WF_vars(\E k \in Conns : Connect(h, k) \/ ClientTimeout(h, k))
        /\ WF_vars(\E k \in Conns : Report(h, k))
FairSpec == Spec /\ Fairness

-----------------------------------------------------------------------------
(* Properties.                                                             *)

TypeOK ==
    /\ way \in Ways /\ client \in [Hosts -> Clients]
    /\ conn \in [Conns -> Connection] /\ \A k \in Conns : conn[k].handled <= 1
    /\ serving \in BOOLEAN /\ listed \subseteq Ips /\ online \in 0..Cardinality(Conns)
    /\ pages \in 0..MaxPages /\ faults \in 0..MaxFaults

\* Who reports this ip also connects from it.
Direct(i) == \A h \in Hosts : Local(h) = i => Remote(h) = i

\* A status is kept by the ip a client reports (clientConn.cpp:117) and removed
\* by the ip a connection comes from, be it this one, another one of the same
\* client or a page's (servConn.cpp:86-90, monitoring.cpp:34-48).  Still a
\* client that is listed has a connection, provided that the two ips are the
\* same: with a gateway in between, or a client that comes by the loopback
\* device, nothing removes the status.
NoGhosts ==
    serving => \A i \in listed : Direct(i) =>
        \E k \in Open : conn[k].peer = "client" /\ Local(conn[k].host) = i

\* What a page makes of the PDU it is sent is true, although every call makes
\* a new connection whose first PDU may be meant for others: it reports a
\* success only if its own request was carried out, once, and an error only if
\* it was sent something else first.  Except that the list of the clients is
\* taken from whatever comes first, no ids are looked at (EdmController.php:346-352).
\* A page that is sent nothing in time says so and is not spoken of here.
PageTruthful ==
    \A k \in Conns : Waiting(k) /\ conn[k].first # "none" =>
        LET said == Reports(conn[k].request, conn[k].first) IN
        /\ "success" \in said =>
            \/ conn[k].handled = 1
            \/ conn[k].request = "list" /\ conn[k].first = "notice"
        /\ "error" \in said => conn[k].first = "notice"

\* Once the server has read the registration of a page, the first thing it
\* sends there is the answer (servConn.cpp:22, 51).
AnswersOnly ==
    [][\A k \in Conns :
        /\ Waiting(k) /\ Len(conn[k].up) < 2
        /\ conn[k].first = "none" /\ conn'[k].first # "none"
        => conn'[k].first = Answer[conn[k].request]]_vars

\* A connection taken for a page's, over which nothing comes any more, is
\* kept for ever, and the status with it.
Leaked(i) ==
    \E k \in Open :
        /\ conn[k].peer = "client" /\ Local(conn[k].host) = i
        /\ conn[k].ctype = "PHP" /\ conn[k].cut

\* In the end a client that has a connection is listed, and of those that
\* report the ip they come from no other, although connections are closed late,
\* after the client's next one has reported, and calls of the page from the
\* same ip remove its status too.  Clients that run on without a connection
\* (clientConn.cpp:72-76, 89-92) are not: nobody can tell them from those that ended.
StatusSettles ==
    (<>[]serving) =>
        <>[](\A i \in Ips :
            LET on == \E h \in Hosts : client[h] = "on" /\ Local(h) = i IN
            /\ on => i \in listed
            /\ i \in listed /\ Direct(i) /\ ~Leaked(i) => on)

\* In the end the number of those that have a connection is right, from
\* whatever it was at first.
OnlineSettles ==
    (<>[]serving) => <>[](online = Cardinality({h \in Hosts : client[h] = "on"}))
=============================================================================
