-------------------------- MODULE EdmControlProofs --------------------------
(***************************************************************************)
(* Proofs about EdmControl, for any number of clients, connections, orders *)
(* and connections that break.                                             *)
(***************************************************************************)
EXTENDS EdmControl, WellFoundedInduction, TLAPS

-----------------------------------------------------------------------------
(* The invariant.                                                          *)

Statuses == Orders \cup {"STOP"}

\* What is sent to a client, and what a client sends.
ToClient ==
    [pdu : {"command"}, status : Statuses] \cup [pdu : {"rate"}, rate : Rates]
        \cup [pdu : {"info"}, status : Statuses, rate : Rates]
        \cup [pdu : {"heartbeat", "response"}]
ToServer == [pdu : {"statusRequest", "register", "data", "done"}]

Typed ==
    /\ sStatus \in Statuses /\ sRate \in Rates
    /\ inMap \subseteq Conns /\ type \in [Conns -> {"none", "CPP", "PHP", "junk"}]
    /\ cStatus \in [Clients -> Statuses \cup {"NONE"}] /\ cRate \in [Clients -> Rates]
    /\ booted \subseteq Clients /\ peer \in [Conns -> Clients \cup {NoClient}]
    /\ open \in [Conns -> BOOLEAN] /\ confirmed \in [Conns -> BOOLEAN]
    /\ held \in [Conns -> Seq(ToServer)] /\ up \in [Conns -> Seq(ToServer)]
    /\ down \in [Conns -> Seq(ToClient)]
    /\ link \in [Conns -> {"none", "up", "reset", "dead"}]
    /\ asked \subseteq Conns

\* A connection nobody has made is known to nobody.
Fresh ==
    \A i \in Conns : peer[i] = NoClient =>
        link[i] = "none" /\ ~open[i] /\ i \notin inMap /\ i \notin asked

\* A client that was started has one connection at a time: g_serv_conn_map
\* never has a second in it (clientConn.cpp:94-101).
Single ==
    /\ \A i \in Conns : open[i] => peer[i] \in booted
    /\ \A i, j \in Conns : open[i] /\ open[j] /\ peer[i] = peer[j] => i = j

\* The server accepts a connection once.
Accepted == \A i \in inMap \cup asked : type[i] # "none"

ControlInv == Typed /\ Fresh /\ Single /\ Accepted /\ InStep

-----------------------------------------------------------------------------
(* What decides in a sequence of PDUs: the last one of some kinds.         *)

Carriers(s, K) == {k \in 1..Len(s) : s[k].pdu \in K}
LastIn(s, K) == CHOOSE k \in Carriers(s, K) : \A j \in Carriers(s, K) : j <= k

StatusKinds == {"command", "info"}
RateKinds == {"rate", "info"}
ThenStatus(v, s) == IF Carriers(s, StatusKinds) = {} THEN v ELSE s[LastIn(s, StatusKinds)].status
ThenRate(v, s) == IF Carriers(s, RateKinds) = {} THEN v ELSE s[LastIn(s, RateKinds)].rate

LEMMA HasLast ==
    ASSUME NEW s, Len(s) \in Nat, NEW K, Carriers(s, K) # {}
    PROVE  LastIn(s, K) \in Carriers(s, K) /\ \A j \in Carriers(s, K) : j <= LastIn(s, K)
  <1> DEFINE T == {Len(s) - k : k \in Carriers(s, K)}
             R == OpToRel(<, Nat)
  <1>1. Carriers(s, K) \subseteq 1..Len(s)
    BY DEF Carriers
  <1>2. T \subseteq Nat /\ T # {}
    BY <1>1
  <1>3. \E x \in T : \A y \in T : <<y, x>> \notin R
    BY <1>2, NatLessThanWellFounded, WFMin
  <1>4. \A x, y \in T : y < x => <<y, x>> \in R
    BY <1>2 DEF OpToRel
  <1> HIDE DEF R
  <1>5. PICK k \in Carriers(s, K) : \A y \in T : <<y, Len(s) - k>> \notin R
    BY <1>3
  <1>6. ASSUME NEW j \in Carriers(s, K)
        PROVE  j <= k
    <2>1. Len(s) - j \in T /\ Len(s) - k \in T
      OBVIOUS
    <2>2. ~(Len(s) - j < Len(s) - k)
      BY <1>4, <1>5, <2>1
    <2> QED
      BY <1>1, <2>2
  <1> QED
    BY <1>6 DEF LastIn

LEMMA LastIs ==
    ASSUME NEW s, Len(s) \in Nat, NEW K, NEW k \in Carriers(s, K),
           \A j \in Carriers(s, K) : j <= k
    PROVE  LastIn(s, K) = k
  <1>1. Carriers(s, K) \subseteq 1..Len(s)
    BY DEF Carriers
  <1>2. LastIn(s, K) \in Carriers(s, K) /\ k <= LastIn(s, K) /\ LastIn(s, K) <= k
    BY HasLast
  <1> QED
    BY <1>1, <1>2

LEMMA AppendLast ==
    ASSUME NEW s \in Seq(ToClient), NEW p \in ToClient, NEW K,
           NEW t \in Seq(ToClient), Len(t) = Len(s) + 1, t[Len(s) + 1] = p,
           \A k \in 1..Len(s) : t[k] = s[k]
    PROVE  /\ p.pdu \in K => Carriers(t, K) # {} /\ t[LastIn(t, K)] = p
           /\ p.pdu \notin K =>
                /\ Carriers(t, K) = Carriers(s, K)
                /\ Carriers(s, K) # {} => t[LastIn(t, K)] = s[LastIn(s, K)]
  <1> DEFINE n == Len(s)
  <1>1. /\ t \in Seq(ToClient) /\ n \in Nat /\ Len(t) = n + 1 /\ t[n + 1] = p
        /\ \A k \in 1..n : t[k] = s[k]
    OBVIOUS
  <1> HIDE DEF n
  <1>2. Carriers(s, K) = {k \in 1..n : s[k].pdu \in K}
    BY DEF Carriers, n
  <1>3. Carriers(t, K) = {k \in 1..(n + 1) : t[k].pdu \in K}
    BY <1>1 DEF Carriers
  <1>4. CASE p.pdu \in K
    <2>1. n + 1 \in Carriers(t, K) /\ \A j \in Carriers(t, K) : j <= n + 1
      BY <1>1, <1>3, <1>4
    <2>2. Len(t) \in Nat
      BY <1>1
    <2>3. LastIn(t, K) = n + 1
      BY <2>1, <2>2, LastIs
    <2> QED
      BY <1>1, <1>4, <2>1, <2>3
  <1>5. CASE p.pdu \notin K
    <2>1. \A k \in 1..(n + 1) : t[k].pdu \in K <=> k \in 1..n /\ s[k].pdu \in K
      <3>1. \A k \in 1..(n + 1) : k \in 1..n \/ k = n + 1
        BY <1>1
      <3>2. n + 1 \notin 1..n
        BY <1>1
      <3> QED
        BY <1>1, <1>5, <3>1, <3>2
    <2>2. 1..n \subseteq 1..(n + 1)
      BY <1>1
    <2>3. Carriers(t, K) = Carriers(s, K)
      BY <1>2, <1>3, <2>1, <2>2
    <2>4. LastIn(t, K) = LastIn(s, K)
      BY <2>3 DEF LastIn
    <2>5. ASSUME Carriers(s, K) # {}
          PROVE  t[LastIn(s, K)] = s[LastIn(s, K)]
      <3>1. LastIn(s, K) \in Carriers(s, K)
        BY <1>1, <2>5, HasLast DEF n
      <3> QED
        BY <1>1, <1>2, <3>1
    <2> QED
      BY <1>5, <2>3, <2>4, <2>5
  <1> QED
    BY <1>4, <1>5

LEMMA TailLast ==
    ASSUME NEW s \in Seq(ToClient), s # <<>>, NEW K
    PROVE  /\ Carriers(Tail(s), K) # {} =>
                /\ Carriers(s, K) # {}
                /\ s[LastIn(s, K)] = Tail(s)[LastIn(Tail(s), K)]
           /\ Carriers(Tail(s), K) = {} /\ Head(s).pdu \in K =>
                Carriers(s, K) # {} /\ s[LastIn(s, K)] = Head(s)
           /\ Carriers(Tail(s), K) = {} /\ Head(s).pdu \notin K => Carriers(s, K) = {}
  <1> DEFINE t == Tail(s)
             n == Len(t)
  <1>1. /\ t \in Seq(ToClient) /\ n \in Nat /\ Len(s) = n + 1 /\ s[1] = Head(s)
        /\ \A k \in 1..n : t[k] = s[k + 1]
    OBVIOUS
  <1> HIDE DEF n
  <1>2. Carriers(t, K) = {k \in 1..n : t[k].pdu \in K}
    BY DEF Carriers, n
  <1>3. Carriers(s, K) = {k \in 1..(n + 1) : s[k].pdu \in K}
    BY <1>1 DEF Carriers
  <1>4. \A k \in 1..(n + 1) : k = 1 \/ (k - 1 \in 1..n /\ t[k - 1] = s[k])
    <2>1. \A k \in 1..(n + 1) : k = 1 \/ (k - 1 \in 1..n /\ (k - 1) + 1 = k)
      BY <1>1
    <2> QED
      BY <1>1, <2>1
  <1>5. \A k \in 1..n : k \in Nat /\ k + 1 \in 1..(n + 1)
    BY <1>1
  <1>6. Len(s) \in Nat /\ Len(t) \in Nat /\ 1 \in 1..(n + 1)
    BY <1>1 DEF n
  <1>7. CASE Carriers(t, K) # {}
    <2> DEFINE m == LastIn(t, K)
    <2>1. m \in Carriers(t, K) /\ \A j \in Carriers(t, K) : j <= m
      BY <1>6, <1>7, HasLast
    <2> HIDE DEF m
    <2>2. m + 1 \in Carriers(s, K) /\ m \in Nat /\ t[m] = s[m + 1]
      BY <1>1, <1>2, <1>3, <1>5, <2>1
    <2>3. ASSUME NEW j \in Carriers(s, K) PROVE j <= m + 1
      <3>1. j \in 1..(n + 1) /\ s[j].pdu \in K
        BY <1>3
      <3>2. CASE j = 1
        BY <2>2, <3>2
      <3>3. CASE j # 1
        <4>1. j - 1 \in Carriers(t, K)
          BY <1>2, <1>4, <3>1, <3>3
        <4>2. j - 1 <= m /\ j \in Nat
          BY <1>1, <2>1, <3>1, <4>1
        <4> QED
          BY <2>2, <4>2
      <3> QED
        BY <3>2, <3>3
    <2>4. LastIn(s, K) = m + 1
      BY <1>6, <2>2, <2>3, LastIs
    <2> QED
      BY <1>7, <2>2, <2>4 DEF m, t
  <1>8. CASE Carriers(t, K) = {}
    <2>1. \A k \in Carriers(s, K) : k = 1
      BY <1>2, <1>3, <1>4, <1>8
    <2>2. CASE Head(s).pdu \in K
      <3>1. 1 \in Carriers(s, K)
        BY <1>1, <1>3, <1>6, <2>2
      <3>2. LastIn(s, K) = 1
        BY <1>6, <2>1, <3>1, LastIs
      <3> QED
        BY <1>1, <1>8, <2>2, <3>1, <3>2
    <2>3. CASE Head(s).pdu \notin K
      <3>1. 1 \notin Carriers(s, K)
        BY <1>1, <1>3, <2>3
      <3>2. Carriers(s, K) = {}
        BY <2>1, <3>1
      <3> QED
        BY <1>8, <2>3, <3>2
    <2> QED
      BY <2>2, <2>3
  <1> QED
    BY <1>7, <1>8

\* One PDU more is on its way.
LEMMA ThenAppend ==
    ASSUME NEW s \in Seq(ToClient), NEW p \in ToClient, NEW v
    PROVE  /\ Append(s, p) \in Seq(ToClient)
           /\ ThenStatus(v, Append(s, p)) =
                IF p.pdu \in StatusKinds THEN p.status ELSE ThenStatus(v, s)
           /\ ThenRate(v, Append(s, p)) =
                IF p.pdu \in RateKinds THEN p.rate ELSE ThenRate(v, s)
  <1>1. Append(s, p) \in Seq(ToClient)
    OBVIOUS
  <1>2. ThenStatus(v, Append(s, p)) =
            IF p.pdu \in StatusKinds THEN p.status ELSE ThenStatus(v, s)
    <2> DEFINE t == Append(s, p)
    <2>1. /\ t \in Seq(ToClient) /\ Len(t) = Len(s) + 1 /\ t[Len(s) + 1] = p
          /\ \A k \in 1..Len(s) : t[k] = s[k]
      OBVIOUS
    <2> HIDE DEF t
    <2>2. p.pdu \in StatusKinds => Carriers(t, StatusKinds) # {} /\ t[LastIn(t, StatusKinds)] = p
      BY <2>1, AppendLast
    <2>3. p.pdu \notin StatusKinds => Carriers(t, StatusKinds) = Carriers(s, StatusKinds)
      BY <2>1, AppendLast
    <2>4. p.pdu \notin StatusKinds /\ Carriers(s, StatusKinds) # {} =>
            t[LastIn(t, StatusKinds)] = s[LastIn(s, StatusKinds)]
      BY <2>1, AppendLast
    <2>5. ThenStatus(v, t) = IF p.pdu \in StatusKinds THEN p.status ELSE ThenStatus(v, s)
      BY <2>2, <2>3, <2>4 DEF ThenStatus
    <2> QED
      BY <2>5 DEF t
  <1>3. ThenRate(v, Append(s, p)) =
            IF p.pdu \in RateKinds THEN p.rate ELSE ThenRate(v, s)
    <2> DEFINE t == Append(s, p)
    <2>1. /\ t \in Seq(ToClient) /\ Len(t) = Len(s) + 1 /\ t[Len(s) + 1] = p
          /\ \A k \in 1..Len(s) : t[k] = s[k]
      OBVIOUS
    <2> HIDE DEF t
    <2>2. p.pdu \in RateKinds => Carriers(t, RateKinds) # {} /\ t[LastIn(t, RateKinds)] = p
      BY <2>1, AppendLast
    <2>3. p.pdu \notin RateKinds => Carriers(t, RateKinds) = Carriers(s, RateKinds)
      BY <2>1, AppendLast
    <2>4. p.pdu \notin RateKinds /\ Carriers(s, RateKinds) # {} =>
            t[LastIn(t, RateKinds)] = s[LastIn(s, RateKinds)]
      BY <2>1, AppendLast
    <2>5. ThenRate(v, t) = IF p.pdu \in RateKinds THEN p.rate ELSE ThenRate(v, s)
      BY <2>2, <2>3, <2>4 DEF ThenRate
    <2> QED
      BY <2>5 DEF t
  <1> QED
    BY <1>1, <1>2, <1>3

\* The client handles the first.
LEMMA ThenTail ==
    ASSUME NEW s \in Seq(ToClient), s # <<>>, NEW v
    PROVE  /\ Tail(s) \in Seq(ToClient) /\ Head(s) \in ToClient
           /\ ThenStatus(IF Head(s).pdu \in StatusKinds THEN Head(s).status ELSE v, Tail(s)) =
                ThenStatus(v, s)
           /\ ThenRate(IF Head(s).pdu \in RateKinds THEN Head(s).rate ELSE v, Tail(s)) =
                ThenRate(v, s)
  <1>1. Tail(s) \in Seq(ToClient) /\ Head(s) \in ToClient
    OBVIOUS
  <1>2. ThenStatus(IF Head(s).pdu \in StatusKinds THEN Head(s).status ELSE v, Tail(s)) =
            ThenStatus(v, s)
    BY TailLast DEF ThenStatus
  <1>3. ThenRate(IF Head(s).pdu \in RateKinds THEN Head(s).rate ELSE v, Tail(s)) =
            ThenRate(v, s)
    BY TailLast DEF ThenRate
  <1> QED
    BY <1>1, <1>2, <1>3

-----------------------------------------------------------------------------
(* The steps.                                                              *)

LEMMA Pdus ==
    /\ \A s \in Statuses : Status(s) \in ToClient /\ Status(s).pdu = "command" /\ Status(s).status = s
    /\ \A r \in Rates : Rate(r) \in ToClient /\ Rate(r).pdu = "rate" /\ Rate(r).rate = r
    /\ \A s \in Statuses, r \in Rates :
        /\ Info(s, r) \in ToClient /\ Info(s, r).pdu = "info"
        /\ Info(s, r).status = s /\ Info(s, r).rate = r
    /\ \A n \in {"heartbeat", "response"} : Plain(n) \in ToClient /\ Plain(n).pdu = n
    /\ \A n \in {"statusRequest", "register", "data", "done"} : Plain(n) \in ToServer
  BY DEF Status, Rate, Info, Plain, ToClient, ToServer

\* What the client makes of a PDU is of its type.
LEMMA Carried ==
    ASSUME NEW p \in ToClient
    PROVE  /\ p.pdu \in StatusKinds => p.status \in Statuses
           /\ p.pdu \in RateKinds => p.rate \in Rates
  BY DEF ToClient, StatusKinds, RateKinds

\* The condition of InStep for a connection, and what it then says.
Working(i) == i \in asked \ missed /\ i \in inMap /\ open[i] /\ link[i] = "up"
Agrees(i) ==
    Working(i) => /\ ThenStatus(cStatus[peer[i]], down[i]) = sStatus
                  /\ ThenRate(cRate[peer[i]], down[i]) = sRate

LEMMA FollowedIs ==
    ASSUME NEW c, NEW s
    PROVE  /\ FollowedStatus(c, s) = ThenStatus(cStatus[c], s)
           /\ FollowedRate(c, s) = ThenRate(cRate[c], s)
  BY DEF FollowedStatus, FollowedRate, ThenStatus, ThenRate, LastIn, Carriers,
         StatusKinds, RateKinds

LEMMA InStepIs ==
    /\ InStep <=> \A i \in asked \ missed : Agrees(i)
    /\ InStep' <=> \A i \in asked' \ missed' : Agrees(i)'
  <1>1. InStep <=> \A i \in asked \ missed : Agrees(i)
    BY FollowedIs DEF InStep, Agrees, Working
  <1>2. ASSUME NEW i
        PROVE  /\ FollowedStatus(peer[i], down[i])' = ThenStatus(cStatus[peer[i]], down[i])'
               /\ FollowedRate(peer[i], down[i])' = ThenRate(cRate[peer[i]], down[i])'
    BY DEF FollowedStatus, FollowedRate, ThenStatus, ThenRate, LastIn, Carriers,
           StatusKinds, RateKinds
  <1>3. InStep' <=> \A i \in asked' \ missed' : Agrees(i)'
    BY <1>2 DEF InStep, Agrees, Working
  <1> QED
    BY <1>1, <1>3

\* A connection that the step leaves alone, or out of what InStep is about.
LEMMA AgreesStays ==
    ASSUME InStep, NEW i,
           Working(i)' => Working(i) /\ peer'[i] = peer[i] /\ down'[i] = down[i],
           UNCHANGED <<cStatus, cRate, sStatus, sRate>>
    PROVE  Agrees(i)'
  <1>1. Working(i) => Agrees(i)
    BY InStepIs DEF Working
  <1> QED
    BY <1>1 DEF Agrees

\* A step leaves all of them alone.
LEMMA AllStay ==
    ASSUME InStep, UNCHANGED <<cStatus, cRate, sStatus, sRate>>,
           \A i : Working(i)' => Working(i) /\ peer'[i] = peer[i] /\ down'[i] = down[i]
    PROVE  InStep'
  <1>1. \A i : Agrees(i)'
    BY AgreesStays
  <1>2. InStep' <=> \A i \in asked' \ missed' : Agrees(i)'
    BY InStepIs
  <1> QED
    BY <1>1, <1>2

\* The server.
LEMMA AcceptStep ==
    ASSUME ControlInv, NEW i \in Conns, Accept(i)
    PROVE  ControlInv'
  <1>1. /\ link[i] = "up" /\ type[i] = "none" /\ inMap' = inMap \cup {i}
        /\ UNCHANGED <<sStatus, sRate, cStatus, cRate, booted, peer, open, confirmed, held,
                       up, down, link, asked, missed>>
    BY DEF Accept, client, net, history
  <1>2. PICK t \in Garbage : type' = [type EXCEPT ![i] = t]
    BY DEF Accept
  <1>3. t \in {"CPP", "PHP", "junk"}
    BY GarbageKnown
  <1>4. Typed'
    BY <1>1, <1>2, <1>3 DEF ControlInv, Typed
  <1>5. Fresh' /\ Single'
    BY <1>1 DEF ControlInv, Fresh, Single
  <1>6. Accepted'
    BY <1>1, <1>2, <1>3 DEF ControlInv, Typed, Accepted
  <1>7. InStep'
    <2>1. \A j : Working(j)' => Working(j)
      BY <1>1 DEF ControlInv, Accepted, Working
    <2> QED
      BY <1>1, <2>1, AllStay DEF ControlInv
  <1> QED
    BY <1>4, <1>5, <1>6, <1>7 DEF ControlInv

\* A PDU for all clients.
LEMMA SendEach ==
    ASSUME Typed, NEW pdu \in ToClient, SendAllClients(pdu)
    PROVE  /\ down' \in [Conns -> Seq(ToClient)]
           /\ \A i \in Conns : down'[i] = IF i \in inMap /\ type[i] # "PHP" /\ open[i]
                                        THEN Append(down[i], pdu) ELSE down[i]
  <1>1. \A i \in Conns : down[i] \in Seq(ToClient) /\ Append(down[i], pdu) \in Seq(ToClient)
    BY DEF Typed
  <1> QED
    BY <1>1 DEF SendAllClients

\* An order: whoever has been answered and is passed over is remembered, and all others that work
\* have it on their way behind what was sent before.
LEMMA OrderStep ==
    ASSUME ControlInv, NEW s \in Orders, Order(s)
    PROVE  ControlInv'
  <1>1. /\ sStatus' = s /\ SendAllClients(Status(s)) /\ missed' = missed \cup (asked \cap PassedOver)
        /\ UNCHANGED <<sRate, inMap, type, cStatus, cRate, booted, peer, open, confirmed, held,
                       up, link, asked>>
    BY DEF Order, client
  <1>2. /\ s \in Statuses /\ Status(s) \in ToClient
        /\ Status(s).pdu = "command" /\ Status(s).status = s
    BY Pdus DEF Statuses
  <1>3. /\ down' \in [Conns -> Seq(ToClient)]
        /\ \A i \in Conns : down'[i] = IF i \in inMap /\ type[i] # "PHP" /\ open[i]
                                     THEN Append(down[i], Status(s)) ELSE down[i]
    BY <1>1, <1>2, SendEach DEF ControlInv
  <1>4. Typed'
    BY <1>1, <1>2, <1>3 DEF ControlInv, Typed
  <1>5. Fresh' /\ Single' /\ Accepted'
    BY <1>1 DEF ControlInv, Fresh, Single, Accepted
  <1>6. ASSUME NEW i \in asked', i \notin missed'
        PROVE  Agrees(i)'
    <2>1. SUFFICES ASSUME Working(i)'
                   PROVE  /\ ThenStatus(cStatus'[peer'[i]], down'[i]) = sStatus'
                          /\ ThenRate(cRate'[peer'[i]], down'[i]) = sRate'
      BY DEF Agrees, ThenStatus, ThenRate, LastIn, Carriers
    <2>2. i \in Conns /\ Working(i) /\ type[i] # "PHP"
      BY <1>1, <1>6, <2>1 DEF Working, PassedOver, ControlInv, Typed
    <2>3. down'[i] = Append(down[i], Status(s)) /\ down[i] \in Seq(ToClient)
      BY <1>3, <2>2 DEF Working, ControlInv, Typed
    <2>4. Agrees(i)
      BY <2>2, InStepIs DEF ControlInv, Working
    <2>5. /\ ThenStatus(cStatus[peer[i]], down'[i]) = s
          /\ ThenRate(cRate[peer[i]], down'[i]) = ThenRate(cRate[peer[i]], down[i])
      BY <1>2, <2>3, ThenAppend DEF StatusKinds, RateKinds
    <2> QED
      BY <1>1, <2>2, <2>4, <2>5 DEF Agrees
  <1> QED
    BY <1>4, <1>5, <1>6, InStepIs DEF ControlInv

LEMMA AdjustStep ==
    ASSUME ControlInv, NEW r \in Rates, Adjust(r)
    PROVE  ControlInv'
  <1>1. /\ sRate' = r /\ SendAllClients(Rate(r)) /\ missed' = missed \cup (asked \cap PassedOver)
        /\ UNCHANGED <<sStatus, inMap, type, cStatus, cRate, booted, peer, open, confirmed, held,
                       up, link, asked>>
    BY DEF Adjust, client
  <1>2. Rate(r) \in ToClient /\ Rate(r).pdu = "rate" /\ Rate(r).rate = r
    BY Pdus
  <1>3. /\ down' \in [Conns -> Seq(ToClient)]
        /\ \A i \in Conns : down'[i] = IF i \in inMap /\ type[i] # "PHP" /\ open[i]
                                     THEN Append(down[i], Rate(r)) ELSE down[i]
    BY <1>1, <1>2, SendEach DEF ControlInv
  <1>4. Typed'
    BY <1>1, <1>3 DEF ControlInv, Typed
  <1>5. Fresh' /\ Single' /\ Accepted'
    BY <1>1 DEF ControlInv, Fresh, Single, Accepted
  <1>6. ASSUME NEW i \in asked', i \notin missed'
        PROVE  Agrees(i)'
    <2>1. SUFFICES ASSUME Working(i)'
                   PROVE  /\ ThenStatus(cStatus'[peer'[i]], down'[i]) = sStatus'
                          /\ ThenRate(cRate'[peer'[i]], down'[i]) = sRate'
      BY DEF Agrees, ThenStatus, ThenRate, LastIn, Carriers
    <2>2. i \in Conns /\ Working(i) /\ type[i] # "PHP"
      BY <1>1, <1>6, <2>1 DEF Working, PassedOver, ControlInv, Typed
    <2>3. down'[i] = Append(down[i], Rate(r)) /\ down[i] \in Seq(ToClient)
      BY <1>3, <2>2 DEF Working, ControlInv, Typed
    <2>4. Agrees(i)
      BY <2>2, InStepIs DEF ControlInv, Working
    <2>5. /\ ThenRate(cRate[peer[i]], down'[i]) = r
          /\ ThenStatus(cStatus[peer[i]], down'[i]) = ThenStatus(cStatus[peer[i]], down[i])
      BY <1>2, <2>3, ThenAppend DEF StatusKinds, RateKinds
    <2> QED
      BY <1>1, <2>2, <2>4, <2>5 DEF Agrees
  <1> QED
    BY <1>4, <1>5, <1>6, InStepIs DEF ControlInv

\* Something that the clients do not follow is sent to one of them.
LEMMA PlainSent ==
    ASSUME ControlInv, NEW i \in Conns, NEW n \in {"heartbeat", "response"},
           down' = [down EXCEPT ![i] = Append(@, Plain(n))],
           UNCHANGED <<sStatus, sRate, inMap, cStatus, cRate, peer, open, link, asked, missed>>
    PROVE  down' \in [Conns -> Seq(ToClient)] /\ InStep'
  <1>1. /\ Plain(n) \in ToClient /\ Plain(n).pdu = n /\ down \in [Conns -> Seq(ToClient)]
    BY Pdus DEF ControlInv, Typed
  <1>2. down[i] \in Seq(ToClient) /\ Append(down[i], Plain(n)) \in Seq(ToClient)
    BY <1>1
  <1>3. down' \in [Conns -> Seq(ToClient)]
    BY <1>1, <1>2
  <1>4. ASSUME NEW j \in asked', j \notin missed'
        PROVE  Agrees(j)'
    <2>1. SUFFICES ASSUME Working(j)'
                   PROVE  /\ ThenStatus(cStatus'[peer'[j]], down'[j]) = sStatus'
                          /\ ThenRate(cRate'[peer'[j]], down'[j]) = sRate'
      BY DEF Agrees, ThenStatus, ThenRate, LastIn, Carriers
    <2>2. j \in Conns /\ Working(j)
      BY <1>4, <2>1 DEF Working, ControlInv, Typed
    <2>3. Agrees(j)
      BY <2>2, InStepIs DEF ControlInv, Working
    <2>4. CASE j = i
      <3>1. down'[j] = Append(down[j], Plain(n))
        BY <1>1, <2>2, <2>4
      <3>2. /\ ThenRate(cRate[peer[j]], down'[j]) = ThenRate(cRate[peer[j]], down[j])
            /\ ThenStatus(cStatus[peer[j]], down'[j]) = ThenStatus(cStatus[peer[j]], down[j])
        BY <1>1, <1>2, <2>4, <3>1, ThenAppend DEF StatusKinds, RateKinds
      <3> QED
        BY <2>2, <2>3, <3>2 DEF Agrees
    <2>5. CASE j # i
      BY <1>1, <2>2, <2>3, <2>5 DEF Agrees
    <2> QED
      BY <2>4, <2>5
  <1> QED
    BY <1>3, <1>4, InStepIs

LEMMA ServerRecvStep ==
    ASSUME ControlInv, NEW i \in Conns, ServerRecv(i)
    PROVE  ControlInv'
  <1>1. /\ i \in inMap /\ up[i] # <<>> /\ up' = [up EXCEPT ![i] = Tail(@)]
        /\ UNCHANGED <<sStatus, sRate, inMap, cStatus, cRate, booted, peer, open, confirmed, held,
                       link>>
    BY DEF ServerRecv, client
  <1>2. up' \in [Conns -> Seq(ToServer)] /\ Head(up[i]) \in ToServer
    <2>1. up \in [Conns -> Seq(ToServer)]
      BY DEF ControlInv, Typed
    <2>2. up[i] \in Seq(ToServer)
      BY <2>1
    <2>3. Tail(up[i]) \in Seq(ToServer) /\ Head(up[i]) \in ToServer
      BY <1>1, <2>2
    <2> QED
      BY <1>1, <2>1, <2>3
  <1>3. Head(up[i]).pdu \in {"statusRequest", "register", "data", "done"}
    BY <1>2 DEF ToServer
  <1>4. Single'
    BY <1>1 DEF ControlInv, Single
  <1>5. CASE Head(up[i]).pdu = "statusRequest"
    <2> DEFINE info == Info(sStatus, sRate)
    <2>1. /\ down' = [down EXCEPT ![i] = Append(@, info)] /\ asked' = asked \cup {i}
          /\ UNCHANGED <<type, missed>>
      BY <1>5 DEF ServerRecv
    <2>2. /\ info \in ToClient /\ info.pdu = "info" /\ info.status = sStatus /\ info.rate = sRate
      BY Pdus DEF ControlInv, Typed
    <2> HIDE DEF info
    <2>3. down \in [Conns -> Seq(ToClient)] /\ Append(down[i], info) \in Seq(ToClient)
      BY <2>2 DEF ControlInv, Typed
    <2>4. down' \in [Conns -> Seq(ToClient)]
      BY <2>1, <2>3
    <2>5. Typed'
      BY <1>1, <1>2, <2>1, <2>4 DEF ControlInv, Typed
    <2>6. Fresh' /\ Accepted'
      BY <1>1, <2>1 DEF ControlInv, Fresh, Accepted
    <2>7. ASSUME NEW j \in asked', j \notin missed'
          PROVE  Agrees(j)'
      <3>1. SUFFICES ASSUME Working(j)'
                     PROVE  /\ ThenStatus(cStatus'[peer'[j]], down'[j]) = sStatus'
                            /\ ThenRate(cRate'[peer'[j]], down'[j]) = sRate'
        BY DEF Agrees, ThenStatus, ThenRate, LastIn, Carriers
      <3>2. CASE j = i
        <4>1. down'[i] = Append(down[i], info) /\ down[i] \in Seq(ToClient)
          BY <2>1, <2>3
        <4>2. /\ ThenRate(cRate[peer[i]], down'[i]) = sRate
              /\ ThenStatus(cStatus[peer[i]], down'[i]) = sStatus
          BY <2>2, <4>1, ThenAppend DEF StatusKinds, RateKinds
        <4> QED
          BY <1>1, <3>2, <4>2
      <3>3. CASE j # i
        <4>1. j \in Conns /\ Working(j) /\ down'[j] = down[j]
          BY <1>1, <2>1, <2>3, <2>7, <3>1, <3>3 DEF Working, ControlInv, Typed
        <4>2. Agrees(j)
          BY <4>1, InStepIs DEF ControlInv, Working
        <4> QED
          BY <1>1, <4>1, <4>2 DEF Agrees
      <3> QED
        BY <3>2, <3>3
    <2> QED
      BY <1>4, <2>5, <2>6, <2>7, InStepIs DEF ControlInv
  <1>6. CASE Head(up[i]).pdu = "register"
    <2>1. type' = [type EXCEPT ![i] = "CPP"] /\ UNCHANGED <<down, asked, missed>>
      BY <1>6 DEF ServerRecv, history
    <2>2. Typed'
      BY <1>1, <1>2, <2>1 DEF ControlInv, Typed
    <2>3. Fresh' /\ Accepted'
      BY <1>1, <2>1 DEF ControlInv, Fresh, Accepted, Typed
    <2>4. InStep'
      BY <1>1, <2>1, AllStay DEF ControlInv, Working
    <2> QED
      BY <1>4, <2>2, <2>3, <2>4 DEF ControlInv
  <1>7. CASE Head(up[i]).pdu = "done"
    <2>1. UNCHANGED <<down, asked, missed>> /\ \E t \in Garbage : type' = [type EXCEPT ![i] = t]
      BY <1>7 DEF ServerRecv, history
    <2>2. PICK t \in {"CPP", "PHP", "junk"} : type' = [type EXCEPT ![i] = t]
      BY <2>1, GarbageKnown
    <2>3. Typed'
      BY <1>1, <1>2, <2>1, <2>2 DEF ControlInv, Typed
    <2>4. Fresh' /\ Accepted'
      BY <1>1, <2>1, <2>2 DEF ControlInv, Fresh, Accepted, Typed
    <2>5. InStep'
      BY <1>1, <2>1, AllStay DEF ControlInv, Working
    <2> QED
      BY <1>4, <2>3, <2>4, <2>5 DEF ControlInv
  <1>8. CASE Head(up[i]).pdu = "data"
    <2>1. down' = [down EXCEPT ![i] = Append(@, Plain("response"))] /\ UNCHANGED <<type, asked, missed>>
      BY <1>8 DEF ServerRecv, history
    <2>2. down' \in [Conns -> Seq(ToClient)] /\ InStep'
      BY <1>1, <2>1, PlainSent
    <2>3. Typed'
      BY <1>1, <1>2, <2>1, <2>2 DEF ControlInv, Typed
    <2>4. Fresh' /\ Accepted'
      BY <1>1, <2>1 DEF ControlInv, Fresh, Accepted
    <2> QED
      BY <1>4, <2>2, <2>3, <2>4 DEF ControlInv
  <1> QED
    BY <1>3, <1>5, <1>6, <1>7, <1>8

LEMMA ServerBeatStep ==
    ASSUME ControlInv, NEW i \in Conns, ServerBeat(i)
    PROVE  ControlInv'
  <1>1. /\ down' = [down EXCEPT ![i] = <<Plain("heartbeat")>>] /\ down[i] = <<>>
        /\ UNCHANGED <<sStatus, sRate, inMap, type, cStatus, cRate, booted, peer, open, confirmed,
                       held, up, link, asked, missed>>
    BY DEF ServerBeat, server, client, history
  <1>2. <<Plain("heartbeat")>> = Append(down[i], Plain("heartbeat"))
    BY <1>1
  <1>3. down' = [down EXCEPT ![i] = Append(@, Plain("heartbeat"))]
    BY <1>1, <1>2
  <1>4. down' \in [Conns -> Seq(ToClient)] /\ InStep'
    BY <1>1, <1>3, PlainSent
  <1>5. Typed'
    BY <1>1, <1>4 DEF ControlInv, Typed
  <1>6. Fresh' /\ Single' /\ Accepted'
    BY <1>1 DEF ControlInv, Fresh, Single, Accepted
  <1> QED
    BY <1>4, <1>5, <1>6 DEF ControlInv

LEMMA ServerCloseStep ==
    ASSUME ControlInv, NEW i \in Conns, ServerClose(i)
    PROVE  ControlInv'
  <1>1. /\ inMap' = inMap \ {i}
        /\ UNCHANGED <<sStatus, sRate, type, cStatus, cRate, booted, peer, open, confirmed,
                       held, up, down, link, asked, missed>>
    BY DEF ServerClose, client, net, history
  <1>2. Typed'
    BY <1>1 DEF ControlInv, Typed
  <1>3. Fresh' /\ Single' /\ Accepted'
    BY <1>1 DEF ControlInv, Fresh, Single, Accepted
  <1>4. InStep'
    BY <1>1, AllStay DEF ControlInv, Working
  <1> QED
    BY <1>2, <1>3, <1>4 DEF ControlInv

\* A client.
LEMMA BootStep ==
    ASSUME ControlInv, NEW c \in Clients, Boot(c)
    PROVE  ControlInv'
  <1>1. /\ c \notin booted /\ booted' = booted \cup {c} /\ c # NoClient
        /\ UNCHANGED <<sStatus, sRate, inMap, type, cStatus, cRate, confirmed, up, down,
                       asked, missed>>
    BY NoClientIsNone DEF Boot, server, history
  <1>2. CASE UNCHANGED <<peer, open, held, link>>
    <2>1. Typed'
      BY <1>1, <1>2 DEF ControlInv, Typed
    <2>2. Fresh' /\ Single' /\ Accepted'
      BY <1>1, <1>2 DEF ControlInv, Fresh, Single, Accepted
    <2>3. InStep'
      BY <1>1, <1>2, AllStay DEF ControlInv, Working
    <2> QED
      BY <2>1, <2>2, <2>3 DEF ControlInv
  <1>3. ASSUME NEW i \in Conns, Connect(c, i), open' = [open EXCEPT ![i] = TRUE],
               held' = [held EXCEPT ![i] = <<Plain("statusRequest")>>]
        PROVE  ControlInv'
    <2>1. /\ peer[i] = NoClient /\ peer' = [peer EXCEPT ![i] = c]
          /\ link' = [link EXCEPT ![i] = "up"]
      BY <1>3 DEF Connect, Unused
    <2>2. ~open[i] /\ i \notin inMap /\ i \notin asked
      BY <2>1 DEF ControlInv, Fresh
    <2>3. Typed'
      <3>1. <<Plain("statusRequest")>> \in Seq(ToServer)
        BY Pdus
      <3>2. held' \in [Conns -> Seq(ToServer)]
        BY <1>3, <3>1 DEF ControlInv, Typed
      <3> QED
        BY <1>1, <1>3, <2>1, <3>2 DEF ControlInv, Typed
    <2>4. Fresh'
      BY <1>1, <1>3, <2>1 DEF ControlInv, Typed, Fresh
    <2>5. Single'
      <3>1. \A j \in Conns : open[j] => peer[j] \in booted /\ peer[j] # c /\ j # i
        BY <1>1, <2>2 DEF ControlInv, Single
      <3>2. \A j \in Conns : /\ open'[j] = IF j = i THEN TRUE ELSE open[j]
                             /\ peer'[j] = IF j = i THEN c ELSE peer[j]
        BY <1>3, <2>1 DEF ControlInv, Typed
      <3> QED
        BY <1>1, <3>1, <3>2 DEF ControlInv, Single
    <2>6. Accepted'
      BY <1>1 DEF ControlInv, Accepted
    <2>7. InStep'
      <3>1. \A j : Working(j)' => Working(j) /\ peer'[j] = peer[j]
        BY <1>1, <1>3, <2>1, <2>2 DEF ControlInv, Typed, Working
      <3> QED
        BY <1>1, <3>1, AllStay DEF ControlInv
    <2> QED
      BY <2>3, <2>4, <2>5, <2>6, <2>7 DEF ControlInv
  <1> QED
    BY <1>2, <1>3 DEF Boot

LEMMA ConfirmStep ==
    ASSUME ControlInv, NEW i \in Conns, Confirm(i)
    PROVE  ControlInv'
  <1> DEFINE pdus == <<Plain("register"), Plain("data")>>
  <1>1. /\ confirmed' = [confirmed EXCEPT ![i] = TRUE]
        /\ \/ up' = [up EXCEPT ![i] = @ \o pdus] /\ UNCHANGED held
           \/ held' = [held EXCEPT ![i] = @ \o pdus] /\ UNCHANGED up
        /\ UNCHANGED <<sStatus, sRate, inMap, type, cStatus, cRate, booted, peer, open, down,
                       link, asked, missed>>
    BY DEF Confirm, server, history
  <1>2. pdus \in Seq(ToServer)
    BY Pdus
  <1> HIDE DEF pdus
  <1>3. held[i] \o pdus \in Seq(ToServer) /\ up[i] \o pdus \in Seq(ToServer)
    BY <1>2 DEF ControlInv, Typed
  <1>4. up' \in [Conns -> Seq(ToServer)] /\ held' \in [Conns -> Seq(ToServer)]
    BY <1>1, <1>3 DEF ControlInv, Typed
  <1>5. Typed'
    BY <1>1, <1>4 DEF ControlInv, Typed
  <1>6. Fresh' /\ Single' /\ Accepted'
    BY <1>1 DEF ControlInv, Fresh, Single, Accepted
  <1>7. InStep'
    BY <1>1, AllStay DEF ControlInv, Working
  <1> QED
    BY <1>5, <1>6, <1>7 DEF ControlInv

\* What the client has handled it has, and no other connection is the client's.
LEMMA ClientRecvStep ==
    ASSUME ControlInv, NEW i \in Conns, ClientRecv(i)
    PROVE  ControlInv'
  <1> DEFINE c == peer[i]
             p == Head(down[i])
  <1>1. /\ open[i] /\ down[i] # <<>> /\ down' = [down EXCEPT ![i] = Tail(@)] /\ Follow(c, p)
        /\ UNCHANGED <<sStatus, sRate, inMap, type, booted, peer, open, confirmed, link,
                       asked, missed>>
    BY DEF ClientRecv, server, history
  <1>2. /\ c \in Clients /\ down \in [Conns -> Seq(ToClient)] /\ down[i] \in Seq(ToClient)
        /\ cStatus \in [Clients -> Statuses \cup {"NONE"}] /\ cRate \in [Clients -> Rates]
    BY <1>1 DEF ControlInv, Typed, Single
  <1>3. p \in ToClient /\ Tail(down[i]) \in Seq(ToClient)
    BY <1>1, <1>2, ThenTail
  <1>4. /\ p.pdu \in StatusKinds => p.status \in Statuses
        /\ p.pdu \in RateKinds => p.rate \in Rates
    BY <1>3, Carried
  <1> HIDE DEF p, c
  <1>5. /\ cStatus' = IF p.pdu \in StatusKinds THEN [cStatus EXCEPT ![c] = p.status] ELSE cStatus
        /\ cRate' = IF p.pdu \in RateKinds THEN [cRate EXCEPT ![c] = p.rate] ELSE cRate
    BY <1>1 DEF Follow, StatusKinds, RateKinds
  <1>6. cStatus' \in [Clients -> Statuses \cup {"NONE"}] /\ cRate' \in [Clients -> Rates]
    BY <1>2, <1>4, <1>5
  <1>7. /\ cStatus'[c] = IF p.pdu \in StatusKinds THEN p.status ELSE cStatus[c]
        /\ cRate'[c] = IF p.pdu \in RateKinds THEN p.rate ELSE cRate[c]
        /\ \A d \in Clients : d # c => cStatus'[d] = cStatus[d] /\ cRate'[d] = cRate[d]
    BY <1>2, <1>5
  <1>8. down' \in [Conns -> Seq(ToClient)]
    BY <1>1, <1>2, <1>3
  <1>9. up' \in [Conns -> Seq(ToServer)] /\ held' \in [Conns -> Seq(ToServer)]
    <2>1. /\ up \in [Conns -> Seq(ToServer)] /\ held \in [Conns -> Seq(ToServer)]
      BY DEF ControlInv, Typed
    <2>2. up[i] \o held[i] \in Seq(ToServer) /\ <<>> \in Seq(ToServer)
      BY <2>1
    <2>3. \/ up' = [up EXCEPT ![i] = @ \o held[i]] /\ held' = [held EXCEPT ![i] = <<>>]
          \/ UNCHANGED <<up, held>>
      BY DEF ClientRecv
    <2> QED
      BY <2>1, <2>2, <2>3
  <1>10. Typed'
    BY <1>1, <1>6, <1>8, <1>9 DEF ControlInv, Typed
  <1>11. Fresh' /\ Single' /\ Accepted'
    BY <1>1 DEF ControlInv, Fresh, Single, Accepted
  <1>12. ASSUME NEW j \in asked', j \notin missed'
         PROVE  Agrees(j)'
    <2>1. SUFFICES ASSUME Working(j)'
                   PROVE  /\ ThenStatus(cStatus'[peer'[j]], down'[j]) = sStatus'
                          /\ ThenRate(cRate'[peer'[j]], down'[j]) = sRate'
      BY DEF Agrees, ThenStatus, ThenRate, LastIn, Carriers
    <2>2. j \in Conns /\ Working(j)
      BY <1>1, <1>12, <2>1 DEF Working, ControlInv, Typed
    <2>3. Agrees(j)
      BY <2>2, InStepIs DEF ControlInv, Working
    <2>4. CASE j = i
      <3>1. down'[i] = Tail(down[i]) /\ peer'[i] = c
        BY <1>1, <1>2 DEF c
      <3>2. /\ ThenStatus(cStatus'[c], Tail(down[i])) = ThenStatus(cStatus[c], down[i])
            /\ ThenRate(cRate'[c], Tail(down[i])) = ThenRate(cRate[c], down[i])
        BY <1>1, <1>2, <1>7, ThenTail DEF p
      <3> QED
        BY <1>1, <2>2, <2>3, <2>4, <3>1, <3>2 DEF Agrees, c
    <2>5. CASE j # i
      <3>1. peer[j] \in Clients /\ peer[j] # c
        BY <1>1, <2>2, <2>5 DEF ControlInv, Typed, Single, Working, c
      <3>2. /\ down'[j] = down[j] /\ peer'[j] = peer[j]
            /\ cStatus'[peer[j]] = cStatus[peer[j]] /\ cRate'[peer[j]] = cRate[peer[j]]
        BY <1>1, <1>2, <1>7, <2>2, <2>5, <3>1
      <3> QED
        BY <1>1, <2>2, <2>3, <3>2 DEF Agrees
    <2> QED
      BY <2>4, <2>5
  <1> QED
    BY <1>10, <1>11, <1>12, InStepIs DEF ControlInv

LEMMA DoneStep ==
    ASSUME ControlInv, NEW i \in Conns, Done(i)
    PROVE  ControlInv'
  <1>1. /\ up' = [up EXCEPT ![i] = Append(@, Plain("done"))]
        /\ UNCHANGED <<sStatus, sRate, inMap, type, cStatus, cRate, booted, peer, open, confirmed,
                       held, down, link, asked, missed>>
    BY DEF Done, server, client, history
  <1>2. Plain("done") \in ToServer
    BY Pdus
  <1>3. up' \in [Conns -> Seq(ToServer)]
    BY <1>1, <1>2 DEF ControlInv, Typed
  <1>4. Typed'
    BY <1>1, <1>3 DEF ControlInv, Typed
  <1>5. Fresh' /\ Single' /\ Accepted'
    BY <1>1 DEF ControlInv, Fresh, Single, Accepted
  <1>6. InStep'
    BY <1>1, AllStay DEF ControlInv, Working
  <1> QED
    BY <1>4, <1>5, <1>6 DEF ControlInv

LEMMA ClientClosedStep ==
    ASSUME ControlInv, NEW i \in Conns, ClientClosed(i)
    PROVE  ControlInv'
  <1>1. /\ open' = [open EXCEPT ![i] = FALSE]
        /\ UNCHANGED <<sStatus, sRate, inMap, type, cStatus, cRate, booted, peer, confirmed, held,
                       up, down, link, asked, missed>>
    BY DEF ClientClosed, server, net, history
  <1>2. Typed'
    BY <1>1 DEF ControlInv, Typed
  <1>3. Fresh' /\ Single' /\ Accepted'
    BY <1>1 DEF ControlInv, Typed, Fresh, Single, Accepted
  <1>4. InStep'
    BY <1>1, AllStay DEF ControlInv, Typed, Working
  <1> QED
    BY <1>2, <1>3, <1>4 DEF ControlInv

LEMMA ClientTimeoutStep ==
    ASSUME ControlInv, NEW i \in Conns, ClientTimeout(i)
    PROVE  ControlInv'
  <1>1. /\ open[i] /\ held' = [held EXCEPT ![i] = <<>>]
        /\ UNCHANGED <<sStatus, sRate, inMap, type, cStatus, cRate, booted, confirmed,
                       up, down, asked, missed>>
    BY DEF ClientTimeout, server, history
  <1>2. peer[i] \in Clients /\ peer[i] \in booted /\ peer[i] # NoClient
    BY <1>1, NoClientIsNone DEF ControlInv, Typed, Single
  <1>3. held' \in [Conns -> Seq(ToServer)]
    <2>1. <<>> \in Seq(ToServer)
      OBVIOUS
    <2> QED
      BY <1>1, <2>1 DEF ControlInv, Typed
  <1>4. /\ Leave(i) \in [Conns -> {"none", "up", "reset", "dead"}]
        /\ \A j \in Conns : Leave(i)[j] = IF j = i /\ link[i] = "up" THEN "reset" ELSE link[j]
    BY DEF Leave, ControlInv, Typed
  <1>5. Accepted'
    BY <1>1 DEF ControlInv, Accepted
  <1>6. CASE open' = [open EXCEPT ![i] = FALSE] /\ link' = Leave(i) /\ UNCHANGED peer
    <2>1. Typed'
      BY <1>1, <1>3, <1>4, <1>6 DEF ControlInv, Typed
    <2>2. Fresh' /\ Single'
      BY <1>1, <1>2, <1>4, <1>6 DEF ControlInv, Typed, Fresh, Single
    <2>3. InStep'
      <3>1. \A j : Working(j)' => Working(j)
        BY <1>1, <1>4, <1>6 DEF ControlInv, Typed, Working
      <3> QED
        BY <1>1, <1>6, <3>1, AllStay DEF ControlInv
    <2> QED
      BY <1>5, <2>1, <2>2, <2>3 DEF ControlInv
  <1>7. ASSUME NEW j \in Conns, peer[j] = NoClient, peer' = [peer EXCEPT ![j] = peer[i]],
               open' = [open EXCEPT ![i] = FALSE, ![j] = TRUE],
               link' = [Leave(i) EXCEPT ![j] = "up"]
        PROVE  ControlInv'
    <2>1. i # j /\ ~open[j] /\ j \notin inMap /\ j \notin asked
      BY <1>2, <1>7 DEF ControlInv, Fresh
    <2>2. Typed'
      BY <1>1, <1>2, <1>3, <1>4, <1>7 DEF ControlInv, Typed
    <2>3. \A k \in Conns :
            /\ open'[k] = IF k = j THEN TRUE ELSE IF k = i THEN FALSE ELSE open[k]
            /\ peer'[k] = IF k = j THEN peer[i] ELSE peer[k]
            /\ link'[k] = IF k = j THEN "up" ELSE IF k = i /\ link[i] = "up" THEN "reset" ELSE link[k]
      BY <1>4, <1>7, <2>1 DEF ControlInv, Typed
    <2>4. Fresh'
      BY <1>1, <1>2, <2>3 DEF ControlInv, Fresh
    <2>5. Single'
      BY <1>1, <1>2, <2>1, <2>3 DEF ControlInv, Single
    <2>6. InStep'
      <3>1. \A k : Working(k)' => Working(k) /\ peer'[k] = peer[k]
        BY <1>1, <2>1, <2>3 DEF ControlInv, Typed, Working
      <3> QED
        BY <1>1, <3>1, AllStay DEF ControlInv
    <2> QED
      BY <1>5, <2>2, <2>4, <2>5, <2>6 DEF ControlInv
  <1> QED
    BY <1>6, <1>7 DEF ClientTimeout, Unused

\* The network.
LEMMA BreakStep ==
    ASSUME ControlInv, NEW i \in Conns, Reset(i) \/ Die(i)
    PROVE  ControlInv'
  <1>1. /\ link[i] = "up" /\ \E l \in {"reset", "dead"} : link' = [link EXCEPT ![i] = l]
        /\ UNCHANGED <<sStatus, sRate, inMap, type, cStatus, cRate, booted, peer, open, confirmed,
                       held, asked, missed>>
        /\ \/ UNCHANGED <<up, down>>
           \/ up' = [up EXCEPT ![i] = <<>>] /\ down' = [down EXCEPT ![i] = <<>>]
    BY DEF Reset, Die, server, client, history
  <1>2. up' \in [Conns -> Seq(ToServer)] /\ down' \in [Conns -> Seq(ToClient)]
    <2>1. <<>> \in Seq(ToServer) /\ <<>> \in Seq(ToClient)
      OBVIOUS
    <2> QED
      BY <1>1, <2>1 DEF ControlInv, Typed
  <1>3. Typed'
    <2>1. link' \in [Conns -> {"none", "up", "reset", "dead"}]
      BY <1>1 DEF ControlInv, Typed
    <2> QED
      BY <1>1, <1>2, <2>1 DEF ControlInv, Typed
  <1>4. Fresh' /\ Single' /\ Accepted'
    BY <1>1 DEF ControlInv, Typed, Fresh, Single, Accepted
  <1>5. InStep'
    <2>1. \A j : Working(j)' => Working(j) /\ down'[j] = down[j]
      BY <1>1 DEF ControlInv, Typed, Working
    <2> QED
      BY <1>1, <2>1, AllStay DEF ControlInv
  <1> QED
    BY <1>3, <1>4, <1>5 DEF ControlInv

-----------------------------------------------------------------------------
(* The invariant holds.                                                    *)

LEMMA InitControlInv == Init => ControlInv
  <1> SUFFICES ASSUME Init PROVE ControlInv
    OBVIOUS
  <1>1. <<>> \in Seq(ToServer) /\ <<>> \in Seq(ToClient)
    OBVIOUS
  <1>2. Typed
    <2>1. /\ held \in [Conns -> Seq(ToServer)] /\ up \in [Conns -> Seq(ToServer)]
          /\ down \in [Conns -> Seq(ToClient)]
      BY <1>1 DEF Init
    <2> QED
      BY <2>1, DefaultRateIn DEF Init, Typed, Statuses
  <1>3. Fresh /\ Single /\ Accepted
    BY DEF Init, Fresh, Single, Accepted
  <1>4. InStep
    BY DEF Init, InStep
  <1> QED
    BY <1>2, <1>3, <1>4 DEF ControlInv

LEMMA NextControlInv == ControlInv /\ [Next]_vars => ControlInv'
  <1> SUFFICES ASSUME ControlInv, [Next]_vars PROVE ControlInv'
    OBVIOUS
  <1>1. ASSUME NEW s \in Orders, Order(s) PROVE ControlInv'
    BY <1>1, OrderStep
  <1>2. ASSUME NEW r \in Rates, Adjust(r) PROVE ControlInv'
    BY <1>2, AdjustStep
  <1>3. ASSUME NEW c \in Clients, Boot(c) PROVE ControlInv'
    BY <1>3, BootStep
  <1>4. ASSUME NEW i \in Conns, ServerStep(i) PROVE ControlInv'
    BY <1>4, AcceptStep, ServerRecvStep, ServerBeatStep, ServerCloseStep DEF ServerStep
  <1>5. ASSUME NEW i \in Conns, ClientStep(i) PROVE ControlInv'
    BY <1>5, ConfirmStep, ClientRecvStep, ClientClosedStep, ClientTimeoutStep DEF ClientStep
  <1>6. ASSUME NEW i \in Conns, Reset(i) \/ Die(i) PROVE ControlInv'
    BY <1>6, BreakStep
  <1>7. ASSUME NEW i \in Conns, Done(i) PROVE ControlInv'
    BY <1>7, DoneStep
  <1>8. CASE UNCHANGED vars
    <2>1. UNCHANGED <<sStatus, sRate, inMap, type, cStatus, cRate, booted, peer, open, confirmed,
                      held, up, down, link, asked, missed>>
      BY <1>8 DEF vars, server, client, net, history
    <2>2. Typed'
      BY <2>1 DEF ControlInv, Typed
    <2>3. Fresh' /\ Single' /\ Accepted'
      BY <2>1 DEF ControlInv, Fresh, Single, Accepted
    <2>4. InStep'
      BY <2>1, AllStay DEF ControlInv, Working
    <2> QED
      BY <2>2, <2>3, <2>4 DEF ControlInv
  <1> QED
    BY <1>1, <1>2, <1>3, <1>4, <1>5, <1>6, <1>7, <1>8 DEF Next

\* A client whose status request was answered stays in step with the server
\* over that connection, whatever orders, answers and registrations overtake
\* each other and however many clients there are (servConn.cpp:47-56,
\* 252-266, clientConn.cpp:94-101).
THEOREM InStepCorrect == Spec => []InStep
  <1>1. ControlInv => InStep
    BY DEF ControlInv
  <1> QED
    BY InitControlInv, NextControlInv, <1>1, PTL DEF Spec
=============================================================================
