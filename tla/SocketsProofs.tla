---------------------------- MODULE SocketsProofs ---------------------------
(***************************************************************************)
(* Proofs about Sockets, for any number of connections and descriptors.    *)
(***************************************************************************)
EXTENDS Sockets, FiniteSetTheorems, WellFoundedInduction, TLAPS

\* The kernel finds a descriptor where there is one.
LEMMA NewFdIsFree ==
    ASSUME FreeFds # {}
    PROVE  NewFd \in FreeFds
  <1>1. FreeFds \subseteq Nat
    BY SocketNames DEF FreeFds, FdsOf
  <1>2. \E fd \in FreeFds : \A f \in FreeFds : <<f, fd>> \notin OpToRel(<, Nat)
    BY <1>1, NatLessThanWellFounded, WFMin
  <1>3. \A fd, f \in FreeFds : f < fd => <<f, fd>> \in OpToRel(<, Nat)
    BY <1>1 DEF OpToRel
  <1>4. \A fd, f \in FreeFds : ~(f < fd) => fd <= f
    BY <1>1
  <1>5. \E fd \in FreeFds : \A f \in FreeFds : fd <= f
    BY <1>2, <1>3, <1>4
  <1> QED
    BY <1>5 DEF NewFd
-----------------------------------------------------------------------------
(* The invariant.                                                          *)

\* A connection that is in the maps is one of these.
Open == {"connecting", "refused", "up", "fin", "reset", "dead"}

In(map, p) == IF \E fd \in Fds : map[fd] = p THEN 1 ELSE 0

\* The maps agree with each other and, for its sockets, with the kernel.
Maps ==
    /\ sockets = conns
    /\ \A fd \in Fds : \A p \in Peers : owner[fd] = p <=> conns[fd] = p
    /\ \A f, g \in Fds : conns[f] \in Peers /\ conns[f] = conns[g] => f = g
    /\ \A fd \in Fds : conns[fd] \in Peers => link[conns[fd]] \in Open
    /\ \A fd \in ready \cap Fds : conns[fd] \in Peers
    /\ \E fd \in Fds : owner[fd] # Other

\* Who waits to be accepted waits once, and nothing was made for it yet.
Queue ==
    /\ \A i, j \in 1..Len(backlog) : backlog[i] = backlog[j] => i = j
    /\ \A i \in 1..Len(backlog) :
        /\ link[backlog[i]] \in Open
        /\ backlog[i] # event.socket
        /\ \A fd \in Fds : conns[fd] # backlog[i]

Counts ==
    \A p \in Peers :
        /\ sref[p] = In(sockets, p) + IF event.socket = p THEN 1 ELSE 0
        /\ cref[p] = In(conns, p) + (IF InCallback /\ held = p THEN 1 ELSE 0)
                                  + IF link[p] = "failed" THEN 1 ELSE 0

\* Events that epoll_wait has returned are about what the descriptor is still
\* open for, each about another, and not about the one that is handled.
Batch ==
    /\ \A e \in batch : e.fd \in Fds => e.of \in Peers /\ conns[e.fd] = e.of
    /\ \A e, d \in batch : e.fd = d.fd => e = d
    /\ \A e \in batch : e.fd # event.fd
    /\ \A e \in batch : e.fd # NoFd
    /\ batch # {} => pc \in {"dispatch", "accept", "in", "out", "hup", "release", "leave"}

\* While an event is handled its socket and its connection are the ones it
\* happened to, or the connection is closed.
Handled ==
    IF pc \in {"in", "out", "hup", "release", "leave"}
    THEN /\ event.fd \in Fds /\ event.socket \in Peers /\ event.of = event.socket
         /\ conns[event.fd] \in {event.socket, NoPeer}
         /\ \A fd \in Fds \ {event.fd} : conns[fd] # event.socket
         /\ link[event.socket] \in Open \cup {"closed"}
         /\ IF InCallback THEN held = event.socket /\ after # "" ELSE held = NoPeer
    ELSE event = NoEvent

\* The timer's iterator stands on another connection than the one OnTimer is
\* called for.
Iterator ==
    /\ pc \notin {"loop", "onTimer"} => it = NoFd /\ (pc # "connect" => seen = {})
    /\ it # NoFd => conns[it] \in Peers /\ it \notin seen
    /\ pc = "onTimer" => held \in Peers /\ \E fd \in seen : conns[fd] = held
    /\ pc # "onTimer" /\ ~InCallback => held = NoPeer
    /\ pc = "connect" => \A fd \in Fds : conns[fd] = NoPeer

SocketInv == TypeOK /\ Maps /\ Queue /\ Counts /\ Batch /\ Handled /\ Iterator

LEMMA InitSocketInv == Init => SocketInv
  <1> SUFFICES ASSUME Init PROVE SocketInv
    OBVIOUS
  <1> USE SocketNames
  <1>1. event = NoEvent /\ NoEvent.fd = NoFd /\ NoEvent.of = NoPeer /\ NoEvent.socket = NoPeer
    BY DEF Init, NoEvent
  <1>2. NoEvent \in Events
    BY DEF NoEvent, Events
  <1>3. PICK taken \in (SUBSET Fds) \ {Fds} :
            owner = [fd \in Fds |-> IF fd \in taken THEN Other ELSE NoPeer]
    BY DEF Init
  <1>4. TypeOK
    <2>1. owner \in [Fds -> Peers \cup {NoPeer, Other}]
      BY <1>3
    <2>2. link \in [Peers -> {"none", "connecting", "refused", "failed", "up",
                             "fin", "reset", "dead", "closed"}]
      BY DEF Init
    <2>3. backlog \in Seq(Peers) /\ ready = {}
      <3>1. <<>> \in Seq(Peers)
        OBVIOUS
      <3> QED
        BY <3>1 DEF Init
    <2>4. rx \in [Peers -> Seq(Pdus)]
      <3>1. <<>> \in Seq(Pdus)
        OBVIOUS
      <3>2. rx = [p \in Peers |-> <<>>]
        BY DEF Init
      <3> QED
        BY <3>1, <3>2
    <2>6. sockets \in [Fds -> Peers \cup {NoPeer}]
      BY DEF Init
    <2>7. conns \in [Fds -> Peers \cup {NoPeer}]
      BY DEF Init
    <2>8. sref \in [Peers -> 0..2]
      <3>1. sref = [p \in Peers |-> 0]
        BY DEF Init
      <3>2. 0 \in 0..2
        OBVIOUS
      <3> QED
        BY <3>1, <3>2
    <2>9. cref \in [Peers -> 0..2]
      <3>1. cref = [p \in Peers |-> 0]
        BY DEF Init
      <3>2. 0 \in 0..2
        OBVIOUS
      <3> QED
        BY <3>1, <3>2
    <2>10. state \in [Peers -> {"IDLE", "CONNECTING", "CONNECTED", "CLOSING"}]
      BY DEF Init
    <2>11. type \in [Peers -> {"none", "CPP", "PHP"}]
      BY DEF Init
    <2>5. /\ role \in {"server", "client"} /\ pc \in {"connect", "wait"}
          /\ batch = {} /\ held = NoPeer /\ after = "" /\ it = NoFd /\ seen = {}
          /\ starved \in BOOLEAN
      BY DEF Init
    <2> QED
      BY <1>1, <1>2, <2>1, <2>2, <2>3, <2>4, <2>5, <2>6, <2>7, <2>8, <2>9, <2>10, <2>11 DEF TypeOK
  <1>5. \A fd \in Fds : sockets[fd] = NoPeer /\ conns[fd] = NoPeer /\ owner[fd] \in {NoPeer, Other}
    BY <1>3 DEF Init
  <1>6. Maps
    BY <1>3, <1>5 DEF Init, Maps
  <1>7. Queue
    <2>1. Len(backlog) = 0
      BY DEF Init
    <2> QED
      BY <2>1 DEF Queue
  <1>8. Counts
    <2>1. ~InCallback /\ \A p \in Peers : sref[p] = 0 /\ cref[p] = 0 /\ link[p] = "none" /\ event.socket # p
      BY <1>1 DEF Init, InCallback
    <2>2. \A p \in Peers : In(sockets, p) = 0 /\ In(conns, p) = 0
      BY <1>5 DEF In
    <2> QED
      BY <2>1, <2>2 DEF Counts
  <1>9. Batch /\ Handled /\ Iterator
    BY <1>1, <1>5 DEF Init, Batch, Handled, Iterator, InCallback
  <1> QED
    BY <1>4, <1>6, <1>7, <1>8, <1>9 DEF SocketInv
-----------------------------------------------------------------------------
(* What the steps have in common.                                          *)

LEMMA InOpens ==
    ASSUME NEW map, DOMAIN map = Fds, map = [fd \in Fds |-> map[fd]],
           NEW fd \in Fds, map[fd] = NoPeer, NEW p \in Peers, NEW q \in Peers
    PROVE  In([map EXCEPT ![fd] = p], q) = IF q = p THEN 1 ELSE In(map, q)
  BY SocketNames DEF In

LEMMA InCloses ==
    ASSUME NEW map, map = [fd \in Fds |-> map[fd]],
           \A f, g \in Fds : map[f] \in Peers /\ map[f] = map[g] => f = g,
           NEW fd \in Fds, map[fd] \in Peers, NEW q \in Peers
    PROVE  In([map EXCEPT ![fd] = NoPeer], q) = IF q = map[fd] THEN 0 ELSE In(map, q)
  BY SocketNames DEF In

\* Where the maps and the kernel's table stay, and connections only go on.
LEMMA MapsStay ==
    ASSUME Maps, UNCHANGED <<owner, sockets, conns>>,
           \A p \in Peers : link[p] \in Open => link'[p] \in Open,
           \A fd \in Fds \cap ready' : fd \in ready \/ conns[fd] \in Peers
    PROVE  Maps'
  BY DEF Maps

\* FdOf finds the descriptor of a connection.
LEMMA FdOfConn ==
    ASSUME Maps, NEW fd \in Fds, conns[fd] \in Peers
    PROVE  FdOf(conns[fd]) = fd
  BY DEF Maps, FdOf

CloseDoes(fd, p, n) ==
    /\ owner' = [owner EXCEPT ![fd] = NoPeer] /\ ready' = ready \ {fd}
    /\ sockets' = [sockets EXCEPT ![fd] = NoPeer] /\ conns' = [conns EXCEPT ![fd] = NoPeer]
    /\ sref' = [sref EXCEPT ![p] = @ - 1] /\ cref' = [cref EXCEPT ![p] = @ + n - 1]
    /\ type' = [type EXCEPT ![p] = "none"] /\ link' = [link EXCEPT ![p] = "closed"]
    /\ rx' = [rx EXCEPT ![p] = <<>>]

LEMMA CloseIs ==
    ASSUME Maps, NEW fd \in Fds, conns[fd] \in Peers, NEW n, Close(conns[fd], n)
    PROVE  CloseDoes(fd, conns[fd], n)
  <1>1. FdOf(conns[fd]) = fd /\ sockets[fd] = conns[fd]
    BY FdOfConn DEF Maps
  <1> QED
    BY <1>1 DEF Close, CloseDoes

\* A connection that is closed is in no map, and its descriptor is free.
LEMMA CloseKeeps ==
    ASSUME TypeOK, Maps, NEW fd \in Fds, NEW p \in Peers, conns[fd] = p, NEW n, CloseDoes(fd, p, n)
    PROVE  /\ Maps'
           /\ owner' \in [Fds -> Peers \cup {NoPeer, Other}]
           /\ ready' \subseteq Fds \cup {Listening}
           /\ sockets' \in [Fds -> Peers \cup {NoPeer}] /\ conns' \in [Fds -> Peers \cup {NoPeer}]
           /\ link' \in [Peers -> {"none", "connecting", "refused", "failed", "up",
                                  "fin", "reset", "dead", "closed"}]
           /\ type' \in [Peers -> {"none", "CPP", "PHP"}]
           /\ rx' \in [Peers -> Seq(Pdus)]
           /\ conns'[fd] = NoPeer /\ \A f \in Fds \ {fd} : conns'[f] = conns[f] /\ conns[f] # p
           /\ link'[p] = "closed" /\ link[p] \in Open /\ \A q \in Peers \ {p} : link'[q] = link[q]
           /\ \A q \in Peers :
                /\ In(conns', q) = IF q = p THEN 0 ELSE In(conns, q)
                /\ In(sockets', q) = IF q = p THEN 0 ELSE In(sockets, q)
           /\ In(conns, p) = 1 /\ In(sockets, p) = 1
  <1> USE SocketNames DEF CloseDoes
  <1>1. /\ owner' \in [Fds -> Peers \cup {NoPeer, Other}]
        /\ ready' \subseteq Fds \cup {Listening}
        /\ sockets' \in [Fds -> Peers \cup {NoPeer}] /\ conns' \in [Fds -> Peers \cup {NoPeer}]
    BY DEF TypeOK
  <1>2. link' \in [Peers -> {"none", "connecting", "refused", "failed", "up",
                             "fin", "reset", "dead", "closed"}]
    BY DEF TypeOK
  <1>3. type' \in [Peers -> {"none", "CPP", "PHP"}]
    BY DEF TypeOK
  <1>4. rx' \in [Peers -> Seq(Pdus)]
    <2>1. <<>> \in Seq(Pdus)
      OBVIOUS
    <2> QED
      BY <2>1 DEF TypeOK
  <1>5. conns'[fd] = NoPeer /\ \A f \in Fds \ {fd} : conns'[f] = conns[f] /\ conns[f] # p
    <2>1. conns \in [Fds -> Peers \cup {NoPeer}]
      BY DEF TypeOK
    <2>2. \A f \in Fds \ {fd} : conns[f] # p
      BY DEF Maps
    <2> QED
      BY <2>1, <2>2
  <1>6. link'[p] = "closed" /\ link[p] \in Open /\ \A q \in Peers \ {p} : link'[q] = link[q]
    <2>1. link[p] \in Open
      BY DEF Maps
    <2>2. link \in [Peers -> {"none", "connecting", "refused", "failed", "up",
                             "fin", "reset", "dead", "closed"}]
      BY DEF TypeOK
    <2> QED
      BY <2>1, <2>2
  <1>7. sockets' = conns'
    BY DEF Maps
  <1>8. Maps'
    <2>1. owner'[fd] = NoPeer /\ \A f \in Fds \ {fd} : owner'[f] = owner[f]
      BY DEF TypeOK
    <2>2. \A f \in Fds : \A q \in Peers : owner'[f] = q <=> conns'[f] = q
      BY <1>5, <2>1 DEF Maps
    <2>3. \A f, g \in Fds : conns'[f] \in Peers /\ conns'[f] = conns'[g] => f = g
      BY <1>5 DEF Maps
    <2>4. \A f \in Fds : conns'[f] \in Peers => link'[conns'[f]] \in Open
      BY <1>5, <1>6 DEF Maps
    <2>5. \A f \in ready' \cap Fds : conns'[f] \in Peers
      BY <1>5 DEF Maps
    <2>6. \E f \in Fds : owner'[f] # Other
      BY <2>1
    <2> QED
      BY <1>7, <2>2, <2>3, <2>4, <2>5, <2>6 DEF Maps
  <1>9. ASSUME NEW q \in Peers
        PROVE  In(conns', q) = IF q = p THEN 0 ELSE In(conns, q)
    <2>1. conns = [f \in Fds |-> conns[f]]
      BY DEF TypeOK
    <2>2. \A f, g \in Fds : conns[f] \in Peers /\ conns[f] = conns[g] => f = g
      BY DEF Maps
    <2>3. In([conns EXCEPT ![fd] = NoPeer], q) = IF q = conns[fd] THEN 0 ELSE In(conns, q)
      BY <2>1, <2>2, InCloses
    <2> QED
      BY <2>3
  <1>10. In(conns, p) = 1
    BY DEF In
  <1>11. In(sockets, p) = 1 /\ \A q \in Peers : In(sockets', q) = IF q = p THEN 0 ELSE In(sockets, q)
    BY <1>7, <1>9, <1>10 DEF Maps
  <1> QED
    BY <1>1, <1>2, <1>3, <1>4, <1>5, <1>6, <1>8, <1>9, <1>10, <1>11

Links == {"none", "connecting", "refused", "failed", "up", "fin", "reset", "dead", "closed"}

\* Connections that are there go on, others stay what they are.
Onward ==
    /\ link' \in [Peers -> Links]
    /\ \A q \in Peers : link'[q] = link[q] \/ (link[q] \in Open /\ link'[q] \in Open)

LEMMA SendKeeps ==
    ASSUME TypeOK, Maps, NEW p \in Peers, SendTo(p), UNCHANGED <<owner, sockets, conns>>
    PROVE  Onward /\ Maps' /\ ready' \subseteq Fds \cup {Listening}
  <1>1. CASE UNCHANGED <<link, ready>>
    BY <1>1 DEF TypeOK, Onward, Links, Maps
  <1>2. CASE /\ link[p] = "fin" /\ link' = [link EXCEPT ![p] = "reset"]
             /\ ready' = ready \cup FdsOf(p)
    <2>1. Onward
      BY <1>2 DEF TypeOK, Onward, Links, Open
    <2>2. \A fd \in FdsOf(p) : fd \in Fds /\ conns[fd] \in Peers
      BY DEF FdsOf, Maps
    <2>3. ready' \subseteq Fds \cup {Listening}
      BY <1>2, <2>2 DEF TypeOK
    <2>4. Maps'
      BY <1>2, <2>1, <2>2, MapsStay DEF Onward
    <2> QED
      BY <2>1, <2>3, <2>4
  <1> QED
    BY <1>1, <1>2 DEF SendTo

LEMMA CountsStay ==
    ASSUME Counts, Onward, UNCHANGED <<sockets, conns, sref, cref, event>>,
           \A q \in Peers : (InCallback /\ held = q) <=> (InCallback' /\ held' = q)
    PROVE  Counts'
  <1>1. \A q \in Peers : link'[q] = "failed" <=> link[q] = "failed"
    BY DEF Onward, Open
  <1> QED
    BY <1>1 DEF Counts, In

LEMMA QueueStays ==
    ASSUME TypeOK, Queue, Onward, UNCHANGED <<backlog, conns>>,
           \A i \in 1..Len(backlog) : backlog[i] # event'.socket
    PROVE  Queue'
  <1>1. \A i \in 1..Len(backlog) : backlog[i] \in Peers
    <2>1. backlog \in Seq(Peers)
      BY DEF TypeOK
    <2> QED
      BY <2>1
  <1>2. \A i \in 1..Len(backlog) : link'[backlog[i]] \in Open
    BY <1>1 DEF Queue, Onward
  <1> QED
    BY <1>2 DEF Queue

\* What a handler of the event's connection can do.
LEMMA CallbackDoes ==
    ASSUME SocketInv, pc \in {"in", "out", "hup"}, NEW back, NEW msg \in {"CLOSE", "READ", "CONFIRM"},
           Callback(msg, back)
    PROVE  \/ NoCallback(back)
           \/ /\ conns[event.fd] = event.socket
              /\ held' = event.socket /\ after' = back /\ pc' = "leave"
              /\ \/ CloseDoes(event.fd, event.socket, 1)
                 \/ /\ SendTo(event.socket) \/ UNCHANGED <<link, ready>>
                    /\ rx' \in {rx, [rx EXCEPT ![event.socket] = <<>>]}
                    /\ cref' = [cref EXCEPT ![event.socket] = @ + 1]
                    /\ UNCHANGED <<owner, sockets, conns, sref, type>>
  <1> DEFINE p == conns[event.fd]
  <1>1. /\ event.fd \in Fds /\ event.socket \in Peers /\ p \in {event.socket, NoPeer}
        /\ Maps /\ NoPeer \notin Peers
    BY SocketNames DEF SocketInv, Handled
  <1>2. CASE p = NoPeer
    BY <1>2 DEF Callback, NoCallback
  <1>3. CASE p = event.socket
    <2>1. p # NoPeer
      BY <1>1, <1>3
    <2>2. /\ held' = p /\ after' = back /\ pc' = "leave"
          /\ Close(p, 1) \/ Read(p) \/ Confirm(p)
      BY <2>1 DEF Callback
    <2>3. Close(p, 1) => CloseDoes(event.fd, p, 1)
      BY <1>1, <1>3, CloseIs
    <2>4. Read(p) => \/ Close(p, 1)
                     \/ /\ SendTo(p) \/ UNCHANGED <<link, ready>>
                        /\ rx' \in {rx, [rx EXCEPT ![p] = <<>>]}
                        /\ cref' = [cref EXCEPT ![p] = @ + 1]
                        /\ UNCHANGED <<owner, sockets, conns, sref, type>>
      BY DEF Read
    <2>5. Confirm(p) => /\ SendTo(p)
                        /\ rx' \in {rx, [rx EXCEPT ![p] = <<>>]}
                        /\ cref' = [cref EXCEPT ![p] = @ + 1]
                        /\ UNCHANGED <<owner, sockets, conns, sref, type>>
      BY DEF Confirm
    <2> HIDE DEF p
    <2>6. p = event.socket
      BY <1>3
    <2> QED
      BY <2>2, <2>3, <2>4, <2>5, <2>6 DEF p
  <1> QED
    BY <1>1, <1>2, <1>3

States == {"IDLE", "CONNECTING", "CONNECTED", "CLOSING"}

LEMMA HandlerStep ==
    ASSUME SocketInv, pc \in {"in", "out", "hup"}, NEW back \in {"out", "hup", "release"},
           UNCHANGED <<role, backlog, batch, event, it, seen, starved>>,
           state' \in [Peers -> States],
           NoCallback(back) \/ \E msg \in {"CLOSE", "READ", "CONFIRM"} : Callback(msg, back)
    PROVE  SocketInv'
  <1> USE SocketNames DEF SocketInv
  <1> DEFINE fd == event.fd
             p == event.socket
  <1>1. /\ fd \in Fds /\ p \in Peers /\ event.of = p /\ held = NoPeer /\ ~InCallback
        /\ \A f \in Fds \ {fd} : conns[f] # p
        /\ conns[fd] \in {p, NoPeer} /\ link[p] \in Open \cup {"closed"}
    BY DEF Handled, InCallback
  <1>2. event.fd = fd /\ event.socket = p
    OBVIOUS
  <1>3. \A i \in 1..Len(backlog) : backlog[i] # event'.socket
    BY DEF Queue
  <1>4. /\ it = NoFd /\ seen = {}
    BY DEF Iterator
  <1>5. Pdus' = Pdus
    BY DEF Pdus
  <1>6. CASE NoCallback(back)
    <2>1. pc' = back /\ UNCHANGED <<owner, link, rx, ready, sockets, conns, sref, cref, type, held, after>>
      BY <1>6 DEF NoCallback
    <2>2. Onward
      BY <2>1 DEF Onward, TypeOK, Links
    <2>3. ~InCallback'
      BY <2>1 DEF InCallback
    <2>4. TypeOK'
      BY <1>5, <2>1 DEF TypeOK, States
    <2>5. Maps'
      BY <2>1 DEF Maps
    <2>6. Queue'
      BY <1>3, <2>1, <2>2, QueueStays
    <2>7. Counts'
      BY <1>1, <2>1, <2>2, <2>3, CountsStay
    <2>8. Batch'
      BY <2>1 DEF Batch
    <2>9. Handled'
      BY <1>1, <2>1, <2>3 DEF Handled
    <2>10. Iterator'
      BY <1>1, <1>4, <2>1, <2>3 DEF Iterator
    <2> QED
      BY <2>4, <2>5, <2>6, <2>7, <2>8, <2>9, <2>10
  <1> HIDE DEF fd, p
  <1>7. CASE /\ conns[fd] = p /\ held' = p /\ after' = back /\ pc' = "leave"
             /\ CloseDoes(fd, p, 1)
    <2>1. /\ Maps'
          /\ owner' \in [Fds -> Peers \cup {NoPeer, Other}]
          /\ ready' \subseteq Fds \cup {Listening}
          /\ sockets' \in [Fds -> Peers \cup {NoPeer}] /\ conns' \in [Fds -> Peers \cup {NoPeer}]
          /\ link' \in [Peers -> Links]
          /\ type' \in [Peers -> {"none", "CPP", "PHP"}]
          /\ rx' \in [Peers -> Seq(Pdus)]
          /\ conns'[fd] = NoPeer /\ \A f \in Fds \ {fd} : conns'[f] = conns[f] /\ conns[f] # p
          /\ link'[p] = "closed" /\ link[p] \in Open /\ \A q \in Peers \ {p} : link'[q] = link[q]
          /\ \A q \in Peers :
                /\ In(conns', q) = IF q = p THEN 0 ELSE In(conns, q)
                /\ In(sockets', q) = IF q = p THEN 0 ELSE In(sockets, q)
          /\ In(conns, p) = 1 /\ In(sockets, p) = 1
      BY <1>1, <1>7, CloseKeeps DEF Links
    <2>2. /\ sref[p] = 2 /\ cref[p] = 1
      BY <1>1, <1>2, <2>1 DEF Counts, Open
    <2>3. /\ sref' = [sref EXCEPT ![p] = 1] /\ cref' = [cref EXCEPT ![p] = 1]
      BY <1>7, <2>2 DEF CloseDoes
    <2>4. sref' \in [Peers -> 0..2] /\ cref' \in [Peers -> 0..2]
      <3>1. 1 \in 0..2
        OBVIOUS
      <3>2. sref \in [Peers -> 0..2] /\ cref \in [Peers -> 0..2]
        BY DEF TypeOK
      <3> QED
        BY <2>3, <3>1, <3>2
    <2>5. TypeOK'
      BY <1>1, <1>5, <1>7, <2>1, <2>4 DEF TypeOK, Links, States
    <2>6. Queue'
      <3>1. \A i \in 1..Len(backlog) : backlog[i] \in Peers \ {p}
        <4>1. backlog \in Seq(Peers)
          BY DEF TypeOK
        <4> QED
          BY <1>2, <4>1 DEF Queue
      <3>2. \A f \in Fds : conns'[f] = conns[f] \/ conns'[f] = NoPeer
        BY <2>1
      <3>3. ASSUME NEW i \in 1..Len(backlog)
            PROVE  /\ link'[backlog[i]] \in Open
                   /\ backlog[i] # event.socket
                   /\ \A f \in Fds : conns'[f] # backlog[i]
        <4> DEFINE b == backlog[i]
        <4>1. b \in Peers \ {p} /\ link[b] \in Open /\ b # event.socket /\ \A f \in Fds : conns[f] # b
          BY <3>1 DEF Queue
        <4> HIDE DEF b
        <4>2. /\ link'[b] \in Open /\ b # event.socket /\ \A f \in Fds : conns'[f] # b
          BY <2>1, <3>2, <4>1
        <4> QED
          BY <4>2 DEF b
      <3> QED
        BY <3>3 DEF Queue
    <2>7. Counts'
      <3>1. InCallback' /\ held' = p /\ event'.socket = p
        BY <1>2, <1>7 DEF InCallback
      <3>2. sref'[p] = 1 /\ cref'[p] = 1 /\ \A q \in Peers \ {p} : sref'[q] = sref[q] /\ cref'[q] = cref[q]
        BY <1>1, <2>3 DEF TypeOK
      <3>3. ASSUME NEW q \in Peers
            PROVE  /\ sref'[q] = In(sockets', q) + IF event'.socket = q THEN 1 ELSE 0
                   /\ cref'[q] = In(conns', q) + (IF InCallback' /\ held' = q THEN 1 ELSE 0)
                                              + IF link'[q] = "failed" THEN 1 ELSE 0
        <4>1. CASE q = p
          BY <1>1, <2>1, <3>1, <3>2, <4>1
        <4>2. CASE q # p
          BY <1>1, <1>2, <2>1, <3>1, <3>2, <4>2 DEF Counts
        <4> QED
          BY <4>1, <4>2
      <3> QED
        BY <3>3 DEF Counts
    <2>8. Batch'
      <3>1. \A e \in batch : e.fd # fd
        BY <1>2 DEF Batch
      <3> QED
        BY <1>7, <2>1, <3>1 DEF Batch
    <2>9. Handled'
      <3>1. event' = event /\ event.fd = fd /\ event.socket = p /\ back # ""
        BY <1>2
      <3>2. /\ pc' = "leave" /\ InCallback' /\ held' = p /\ after' = back
            /\ conns'[fd] = NoPeer /\ \A f \in Fds \ {fd} : conns'[f] # p
            /\ link'[p] = "closed"
        BY <1>7, <2>1 DEF InCallback
      <3> QED
        BY <1>1, <3>1, <3>2 DEF Handled
    <2>10. Iterator'
      BY <1>4, <1>7 DEF Iterator, InCallback
    <2> QED
      BY <2>1, <2>5, <2>6, <2>7, <2>8, <2>9, <2>10
  <1>8. CASE /\ conns[fd] = p /\ held' = p /\ after' = back /\ pc' = "leave"
             /\ SendTo(p) \/ UNCHANGED <<link, ready>>
             /\ rx' \in {rx, [rx EXCEPT ![p] = <<>>]}
             /\ cref' = [cref EXCEPT ![p] = @ + 1]
             /\ UNCHANGED <<owner, sockets, conns, sref, type>>
    <2>1. Onward /\ Maps' /\ ready' \subseteq Fds \cup {Listening}
      <3>1. CASE SendTo(p)
        BY <1>1, <1>8, <3>1, SendKeeps
      <3>2. CASE UNCHANGED <<link, ready>>
        BY <1>8, <3>2 DEF Onward, Maps, TypeOK, Links
      <3> QED
        BY <1>8, <3>1, <3>2
    <2>2. rx' \in [Peers -> Seq(Pdus)]
      <3>1. <<>> \in Seq(Pdus)
        OBVIOUS
      <3> QED
        BY <1>1, <1>8, <3>1 DEF TypeOK
    <2>3. link[p] \in Open
      BY <1>1, <1>8 DEF Maps
    <2>4. cref[p] = 1 /\ In(conns, p) = 1
      <3>1. In(conns, p) = 1
        BY <1>1, <1>8 DEF In
      <3>2. link[p] # "failed"
        BY <2>3 DEF Open
      <3> QED
        BY <1>1, <3>1, <3>2 DEF Counts
    <2>5. /\ cref' = [cref EXCEPT ![p] = 2] /\ cref' \in [Peers -> 0..2]
      <3>1. 2 \in 0..2
        OBVIOUS
      <3>3. cref \in [Peers -> 0..2]
        BY DEF TypeOK
      <3>2. cref' = [cref EXCEPT ![p] = 2]
        BY <1>8, <2>4
      <3> QED
        BY <3>1, <3>2, <3>3
    <2>6. TypeOK'
      BY <1>1, <1>5, <1>8, <2>1, <2>2, <2>5 DEF TypeOK, Onward, Links, States
    <2>7. Queue'
      BY <1>3, <1>8, <2>1, QueueStays
    <2>8. Counts'
      <3>1. InCallback' /\ held' = p
        BY <1>8 DEF InCallback
      <3>2. /\ cref'[p] = 2 /\ \A q \in Peers \ {p} : cref'[q] = cref[q]
            /\ \A q \in Peers : link'[q] = "failed" <=> link[q] = "failed"
        BY <1>1, <2>1, <2>5 DEF TypeOK, Onward, Open
      <3>3. ASSUME NEW q \in Peers
            PROVE  /\ sref'[q] = In(sockets', q) + IF event'.socket = q THEN 1 ELSE 0
                   /\ cref'[q] = In(conns', q) + (IF InCallback' /\ held' = q THEN 1 ELSE 0)
                                              + IF link'[q] = "failed" THEN 1 ELSE 0
        <4>1. CASE q = p
          BY <1>1, <1>8, <2>3, <2>4, <3>1, <3>2, <4>1 DEF Counts, Open
        <4>2. CASE q # p
          BY <1>1, <1>8, <3>1, <3>2, <4>2 DEF Counts
        <4> QED
          BY <4>1, <4>2
      <3> QED
        BY <3>3 DEF Counts
    <2>9. Batch'
      BY <1>8 DEF Batch
    <2>10. Handled'
      <3>1. link'[p] \in Open
        BY <1>1, <2>1, <2>3 DEF Onward
      <3> QED
        BY <1>1, <1>2, <1>8, <3>1 DEF Handled, InCallback
    <2>11. Iterator'
      BY <1>4, <1>8 DEF Iterator, InCallback
    <2> QED
      BY <2>1, <2>6, <2>7, <2>8, <2>9, <2>10, <2>11
  <1> QED
    BY <1>6, <1>7, <1>8, CallbackDoes DEF fd, p
-----------------------------------------------------------------------------
(* The steps.                                                              *)

\* The peers of connections that are there.
LEMMA PeerStep ==
    ASSUME SocketInv, UNCHANGED <<role, owner, backlog, objects, loop, starved>>,
           Onward, rx' \in [Peers -> Seq(Pdus)], NEW p \in Peers, ready' \subseteq ready \cup FdsOf(p)
    PROVE  SocketInv'
  <1> USE SocketNames DEF SocketInv
  <1>1. /\ UNCHANGED <<sockets, conns, sref, cref, state, type>>
        /\ UNCHANGED <<pc, batch, event, held, after, it, seen>>
    BY DEF objects, loop
  <1>2. \A fd \in FdsOf(p) : fd \in Fds /\ conns[fd] \in Peers
    BY DEF FdsOf, Maps
  <1>3. Pdus' = Pdus /\ (InCallback' <=> InCallback)
    BY <1>1 DEF Pdus, InCallback
  <1>4. ready' \subseteq Fds \cup {Listening}
    BY <1>2 DEF TypeOK
  <1>5. TypeOK'
    BY <1>1, <1>3, <1>4 DEF TypeOK, Onward, Links
  <1>6. Maps'
    BY <1>1, <1>2, MapsStay DEF Onward
  <1>7. Queue'
    BY <1>1, QueueStays DEF Queue
  <1>8. Counts'
    BY <1>1, <1>3, CountsStay
  <1>9. Batch'
    BY <1>1 DEF Batch
  <1>10. Handled'
    BY <1>1, <1>3 DEF Handled, Onward
  <1>11. Iterator'
    BY <1>1, <1>3 DEF Iterator
  <1> QED
    BY <1>5, <1>6, <1>7, <1>8, <1>9, <1>10, <1>11

LEMMA DialStep ==
    ASSUME SocketInv, NEW p \in Peers, Dial(p)
    PROVE  SocketInv'
  <1> USE SocketNames DEF SocketInv
  <1>1. /\ UNCHANGED <<sockets, conns, sref, cref, state, type>>
        /\ UNCHANGED <<pc, batch, event, held, after, it, seen>>
        /\ UNCHANGED <<role, owner, rx, starved>>
        /\ link[p] = "none" /\ link' = [link EXCEPT ![p] = "up"]
        /\ backlog' = Append(backlog, p) /\ ready' = ready \cup {Listening}
    BY DEF Dial, Unused, objects, loop
  <1>2. Pdus' = Pdus /\ (InCallback' <=> InCallback)
    BY <1>1 DEF Pdus, InCallback
  <1>3. /\ link' \in [Peers -> Links] /\ link'[p] = "up"
        /\ \A q \in Peers \ {p} : link'[q] = link[q]
    BY <1>1 DEF TypeOK, Links
  <1>4. backlog \in Seq(Peers) /\ backlog' \in Seq(Peers)
    <2>1. backlog \in Seq(Peers)
      BY DEF TypeOK
    <2>2. Append(backlog, p) \in Seq(Peers)
      BY <2>1
    <2> QED
      BY <1>1, <2>1, <2>2
  <1>5. TypeOK'
    <2>1. ready' \subseteq Fds \cup {Listening}
      BY <1>1 DEF TypeOK
    <2>2. rx' \in [Peers -> Seq(Pdus')] /\ Events' = Events
      BY <1>1, <1>2 DEF TypeOK, Events
    <2> QED
      BY <1>1, <1>3, <1>4, <2>1, <2>2, Zenon DEF TypeOK, Links
  <1>6. \A fd \in Fds : conns[fd] # p
    <2>1. "none" \notin Open
      BY DEF Open
    <2>2. \A fd \in Fds : conns[fd] \in Peers => link[conns[fd]] \in Open
      BY Zenon DEF SocketInv, Maps
    <2> QED
      BY <1>1, <2>1, <2>2, Zenon
  <1>7. Maps'
    <2>1. \A fd \in Fds : conns[fd] \in Peers => link'[conns[fd]] \in Open
      BY <1>3, <1>6 DEF Maps
    <2> QED
      BY <1>1, <2>1 DEF Maps
  <1>8. event.socket # p
    <2>1. "none" \notin Open \cup {"closed"}
      BY DEF Open
    <2>2. NoEvent.socket = NoPeer
      BY DEF NoEvent
    <2> QED
      BY <1>1, <2>1, <2>2 DEF Handled
  <1>9. Queue'
    <2>1. /\ Len(backlog') = Len(backlog) + 1 /\ Len(backlog) \in Nat
          /\ \A i \in 1..Len(backlog) : backlog'[i] = backlog[i]
          /\ backlog'[Len(backlog) + 1] = p
      BY <1>1, <1>4
    <2>2. \A i \in 1..Len(backlog) : backlog[i] \in Peers /\ backlog[i] # p
      BY <1>1, <1>4 DEF Queue, Open
    <2>3. \A i, j \in 1..Len(backlog') : backlog'[i] = backlog'[j] => i = j
      BY <2>1, <2>2 DEF Queue
    <2>4. "up" \in Open
      BY DEF Open
    <2>5. \A i \in 1..Len(backlog) : link[backlog[i]] \in Open /\ backlog[i] # event.socket
                                    /\ \A fd \in Fds : conns[fd] # backlog[i]
      BY DEF Queue
    <2>6. ASSUME NEW i \in 1..Len(backlog')
          PROVE  /\ link'[backlog'[i]] \in Open
                 /\ backlog'[i] # event.socket
                 /\ \A fd \in Fds : conns[fd] # backlog'[i]
      <3>1. CASE i = Len(backlog) + 1
        BY <1>3, <1>6, <1>8, <2>1, <2>4, <3>1
      <3>2. CASE i # Len(backlog) + 1
        <4>1. i \in 1..Len(backlog)
          BY <2>1, <3>2
        <4>2. link'[backlog[i]] = link[backlog[i]] /\ backlog'[i] = backlog[i]
          BY <1>3, <2>1, <2>2, <4>1
        <4> QED
          BY <2>5, <4>1, <4>2
      <3> QED
        BY <3>1, <3>2
    <2> QED
      BY <1>1, <2>3, <2>6 DEF Queue
  <1>10. Counts'
    <2>1. \A q \in Peers : link'[q] = "failed" <=> link[q] = "failed"
      BY <1>1, <1>3
    <2> QED
      BY <1>1, <1>2, <2>1 DEF Counts, In
  <1>11. Batch'
    BY <1>1 DEF Batch
  <1>12. Handled'
    <2>1. event.socket \in Peers => link'[event.socket] = link[event.socket]
      BY <1>3, <1>8
    <2> QED
      BY <1>1, <1>2, <2>1 DEF Handled
  <1>13. Iterator'
    BY <1>1, <1>2 DEF Iterator
  <1> QED
    BY <1>5, <1>7, <1>9, <1>10, <1>11, <1>12, <1>13

LEMMA WorldStep ==
    ASSUME SocketInv, World
    PROVE  SocketInv'
  <1>1. PICK p \in Peers : Dial(p) \/ Answered(p) \/ PeerSends(p) \/ PeerGoes(p)
    BY DEF World
  <1>2. link \in [Peers -> Links] /\ rx \in [Peers -> Seq(Pdus)]
    BY DEF SocketInv, TypeOK, Links
  <1>3. CASE Answered(p)
    <2>1. /\ UNCHANGED <<role, owner, backlog, rx, objects, loop, starved>>
          /\ ready' \subseteq ready \cup FdsOf(p)
      BY <1>3 DEF Answered
    <2>2. Onward
      BY <1>2, <1>3 DEF Answered, Onward, Links, Open
    <2> QED
      BY <1>2, <2>1, <2>2, PeerStep
  <1>4. CASE PeerSends(p)
    <2>1. /\ UNCHANGED <<role, owner, backlog, link, objects, loop, starved>>
          /\ ready' \subseteq ready \cup FdsOf(p)
      BY <1>4 DEF PeerSends
    <2>2. rx' \in [Peers -> Seq(Pdus)]
      <3>1. PICK pdu \in Pdus : rx' = [rx EXCEPT ![p] = Append(@, pdu)]
        BY <1>4 DEF PeerSends
      <3>2. rx[p] \in Seq(Pdus)
        BY <1>2
      <3>3. Append(rx[p], pdu) \in Seq(Pdus)
        BY <3>2
      <3> QED
        BY <1>2, <3>1, <3>3
    <2>3. Onward
      BY <1>2, <2>1 DEF Onward
    <2> QED
      BY <2>1, <2>2, <2>3, PeerStep
  <1>5. CASE PeerGoes(p)
    <2>1. /\ UNCHANGED <<role, owner, backlog, rx, objects, loop, starved>>
          /\ ready' \subseteq ready \cup FdsOf(p)
      BY <1>5 DEF PeerGoes
    <2>2. Onward
      BY <1>2, <1>5 DEF PeerGoes, Onward, Links, Open
    <2> QED
      BY <1>2, <2>1, <2>2, PeerStep
  <1> QED
    BY <1>1, <1>3, <1>4, <1>5, DialStep

\* Where only the place of the loop changes.
LEMMA PlaceStep ==
    ASSUME SocketInv, UNCHANGED <<kernel, objects, batch, event, after>>,
           {pc, pc'} \cap {"in", "out", "hup", "release", "leave"} = {},
           pc' \in {"connect", "wait", "dispatch", "accept", "timer", "loop", "onTimer"},
           batch # {} => pc' \in {"dispatch", "accept"},
           held' \in Peers \cup {NoPeer}, it' \in Fds \cup {NoFd}, seen' \subseteq Fds,
           starved' \in BOOLEAN, Iterator'
    PROVE  SocketInv'
  <1> USE DEF SocketInv
  <1>1. /\ UNCHANGED <<role, owner, link, backlog, rx, ready>>
        /\ UNCHANGED <<sockets, conns, sref, cref, state, type>>
    BY DEF kernel, objects
  <1>2. Pdus' = Pdus /\ ~InCallback /\ ~InCallback'
    BY <1>1 DEF Pdus, InCallback
  <1>3. TypeOK'
    BY <1>1, <1>2 DEF TypeOK
  <1>4. Onward
    BY <1>1 DEF Onward, TypeOK, Links
  <1>5. Maps'
    BY <1>1 DEF Maps
  <1>6. Queue'
    BY <1>1 DEF Queue
  <1>7. Counts'
    BY <1>1, <1>2, <1>4, CountsStay
  <1>8. Batch'
    BY <1>1 DEF Batch
  <1>9. Handled'
    BY <1>1, <1>2 DEF Handled
  <1> QED
    BY <1>3, <1>5, <1>6, <1>7, <1>8, <1>9

LEMMA LoopStep ==
    ASSUME SocketInv,
           \/ AcceptEnds \/ DispatchEnds \/ TimerNotDue \/ TimerDue
           \/ TimerVisit \/ TimerEnds \/ TimerQuiet \/ ConnectServerFails
    PROVE  SocketInv'
  <1> USE SocketNames DEF SocketInv
  <1>1. /\ UNCHANGED <<kernel, objects, batch, event, after>> /\ UNCHANGED conns
        /\ {pc, pc'} \cap {"in", "out", "hup", "release", "leave"} = {}
        /\ pc' \in {"connect", "wait", "dispatch", "accept", "timer", "loop", "onTimer"}
    BY DEF AcceptEnds, DispatchEnds, TimerNotDue, TimerDue, TimerVisit, TimerEnds, TimerQuiet,
           ConnectServerFails, objects
  <1>2. batch # {} => pc' \in {"dispatch", "accept"}
    BY DEF Batch, AcceptEnds, DispatchEnds, TimerNotDue, TimerDue, TimerVisit, TimerEnds, TimerQuiet,
           ConnectServerFails
  <1>3. /\ conns \in [Fds -> Peers \cup {NoPeer}] /\ starved \in BOOLEAN
        /\ it \in Fds \cup {NoFd} /\ seen \subseteq Fds
    BY DEF TypeOK
  <1>4. Handles = {fd \in Fds : conns[fd] \in Peers}
    BY <1>3 DEF Handles
  <1>5. ~InCallback /\ ~InCallback'
    BY <1>1 DEF InCallback
  <1>6. starved' \in BOOLEAN
    <2>1. CASE AcceptEnds
      BY <2>1 DEF AcceptEnds
    <2>2. CASE UNCHANGED starved
      BY <1>3, <2>2
    <2> QED
      BY <2>1, <2>2 DEF DispatchEnds, TimerNotDue, TimerDue, TimerVisit, TimerEnds, TimerQuiet,
           ConnectServerFails
  <1>7. CASE TimerDue
    <2>1. pc = "timer" /\ pc' = "loop" /\ it' \in First(Handles) /\ UNCHANGED <<held, seen>>
      BY <1>7 DEF TimerDue
    <2>2. it' \in Handles \cup {NoFd} /\ seen = {} /\ held = NoPeer
      BY <1>5, <2>1 DEF First, Iterator
    <2>3. Iterator'
      BY <1>1, <1>4, <1>5, <2>1, <2>2 DEF Iterator
    <2> QED
      BY <1>1, <1>2, <1>3, <1>4, <1>6, <2>1, <2>2, <2>3, PlaceStep
  <1>8. CASE TimerVisit
    <2>1. /\ pc = "loop" /\ it # NoFd /\ it \in Fds /\ conns[it] \in Peers /\ held = NoPeer
          /\ seen' = seen \cup {it} /\ it' \in (Handles \ seen') \cup {NoFd}
          /\ \/ UNCHANGED <<pc, held>>
             \/ held' = conns[it] /\ pc' = "onTimer"
      BY <1>3, <1>5, <1>8 DEF TimerVisit, First, Iterator
    <2>2. Iterator'
      BY <1>1, <1>4, <1>5, <2>1 DEF Iterator
    <2>3. held' \in Peers \cup {NoPeer} /\ it' \in Fds \cup {NoFd} /\ seen' \subseteq Fds
      BY <1>3, <1>4, <2>1
    <2> QED
      BY <1>1, <1>2, <1>6, <2>2, <2>3, PlaceStep
  <1>9. CASE AcceptEnds \/ DispatchEnds \/ TimerNotDue \/ TimerEnds \/ TimerQuiet \/ ConnectServerFails
    <2>1. /\ it' = it /\ seen' \in {seen, {}} /\ held' \in {held, NoPeer}
          /\ pc # "onTimer" => held = NoPeer
          /\ pc' # "onTimer" /\ (pc # "loop" /\ pc # "onTimer" => it = NoFd)
          /\ pc' = "connect" => pc = "connect"
      BY <1>5, <1>9 DEF AcceptEnds, DispatchEnds, TimerNotDue, TimerEnds, TimerQuiet, ConnectServerFails, Iterator
    <2>2. /\ held' = NoPeer
          /\ pc' # "loop" => it = NoFd /\ seen' = {}
          /\ it # NoFd => seen' = seen
      BY <1>5, <1>9, <2>1 DEF AcceptEnds, DispatchEnds, TimerNotDue, TimerEnds, TimerQuiet, ConnectServerFails, Iterator
    <2>3. Iterator'
      BY <1>1, <1>5, <2>1, <2>2 DEF Iterator
    <2> QED
      BY <1>1, <1>2, <1>3, <1>6, <2>1, <2>2, <2>3, PlaceStep
  <1> QED
    BY <1>7, <1>8, <1>9

LEMMA EpollWaitStep ==
    ASSUME SocketInv, EpollWait
    PROVE  SocketInv'
  <1> USE SocketNames DEF SocketInv
  <1>1. /\ UNCHANGED <<role, owner, link, backlog, rx>> /\ ready' = {}
        /\ UNCHANGED <<sockets, conns, sref, cref, state, type>>
        /\ UNCHANGED <<event, held, after, it, seen, starved>>
        /\ pc = "wait" /\ pc' = "dispatch"
    BY DEF EpollWait, objects
  <1>2. Pdus' = Pdus /\ ~InCallback /\ ~InCallback'
    BY <1>1 DEF Pdus, InCallback
  <1>3. event = NoEvent /\ NoEvent.fd = NoFd
    BY <1>1 DEF Handled, NoEvent
  <1>4. /\ \A fd \in ready \ {Listening} : fd \in Fds /\ conns[fd] \in Peers /\ owner[fd] = conns[fd]
        /\ ready \subseteq Fds \cup {Listening}
    BY DEF TypeOK, Maps
  <1>5. \A p \in Peers : Mask(p) \subseteq {"EPOLLIN", "EPOLLOUT", "EPOLLHUP"}
    BY DEF Mask
  <1>6. ASSUME NEW e \in batch'
        PROVE  /\ e \in Events /\ e.fd \in ready
               /\ e.fd \in Fds => e.of \in Peers /\ conns[e.fd] = e.of
               /\ e.fd \in Fds => e = [NoEvent EXCEPT !.fd = e.fd, !.of = owner[e.fd], !.mask = Mask(owner[e.fd])]
               /\ e.fd \notin Fds => e = [NoEvent EXCEPT !.fd = e.fd]
    <2>1. CASE \E fd \in ready \ {Listening} :
                   e = [NoEvent EXCEPT !.fd = fd, !.of = owner[fd], !.mask = Mask(owner[fd])]
      <3>1. PICK fd \in ready \ {Listening} :
                   e = [NoEvent EXCEPT !.fd = fd, !.of = owner[fd], !.mask = Mask(owner[fd])]
        BY <2>1
      <3>2. e.fd = fd /\ e.of = owner[fd] /\ e.mask = Mask(owner[fd]) /\ e.socket = NoPeer
        BY <3>1 DEF NoEvent
      <3>3. e = [fd |-> fd, of |-> owner[fd], mask |-> Mask(owner[fd]), socket |-> NoPeer]
        BY <3>1 DEF NoEvent
      <3>4. e \in Events
        BY <1>4, <1>5, <3>3 DEF Events
      <3> QED
        BY <1>4, <3>1, <3>2, <3>4
    <2>2. CASE \E fd \in ready \cap {Listening} : e = [NoEvent EXCEPT !.fd = fd]
      <3>1. e = [NoEvent EXCEPT !.fd = Listening] /\ Listening \in ready
        BY <2>2
      <3>2. e.fd = Listening
        BY <3>1 DEF NoEvent
      <3>3. e = [fd |-> Listening, of |-> NoPeer, mask |-> {}, socket |-> NoPeer]
        BY <3>1 DEF NoEvent
      <3>4. e \in Events
        BY <3>3 DEF Events
      <3> QED
        BY <3>1, <3>2, <3>4
    <2> QED
      BY <2>1, <2>2 DEF EpollWait
  <1>7. TypeOK'
    BY <1>1, <1>2, <1>6 DEF TypeOK
  <1>8. Onward
    BY <1>1 DEF Onward, TypeOK, Links
  <1>9. Maps'
    BY <1>1 DEF Maps
  <1>10. Queue'
    BY <1>1 DEF Queue
  <1>11. Counts'
    BY <1>1, <1>2, <1>8, CountsStay
  <1>12. Batch'
    <2>1. \A e \in batch' : e.fd # NoFd
      BY <1>4, <1>6
    <2>2. \A e, d \in batch' : e.fd = d.fd => e = d
      BY <1>6
    <2> QED
      BY <1>1, <1>3, <1>6, <2>1, <2>2 DEF Batch
  <1>13. Handled'
    BY <1>1, <1>2, <1>3 DEF Handled
  <1>14. Iterator'
    BY <1>1, <1>2 DEF Iterator
  <1> QED
    BY <1>7, <1>9, <1>10, <1>11, <1>12, <1>13, <1>14

LEMMA DispatchStep ==
    ASSUME SocketInv, NEW e \in batch, Dispatch(e)
    PROVE  SocketInv'
  <1> USE SocketNames DEF SocketInv
  <1>1. /\ UNCHANGED <<role, owner, link, backlog, rx, ready>>
        /\ UNCHANGED <<sockets, conns, cref, state, type, held, after, it, seen, starved>>
        /\ pc = "dispatch" /\ batch' = batch \ {e}
    BY DEF Dispatch, kernel
  <1>2. e \in Events /\ batch' \subseteq Events
    BY <1>1 DEF TypeOK
  <1>3. event = NoEvent /\ NoEvent.socket = NoPeer /\ NoEvent.fd = NoFd /\ held = NoPeer
    BY <1>1 DEF Handled, NoEvent, Iterator, InCallback
  <1>4. Onward /\ Pdus' = Pdus /\ ~InCallback
    BY <1>1 DEF Onward, TypeOK, Links, Pdus, InCallback
  <1>5. Maps'
    BY <1>1 DEF Maps
  <1>6. CASE UNCHANGED <<event, sref>> /\ pc' \in {"accept", "dispatch"}
    <2>1. TypeOK'
      BY <1>1, <1>2, <1>4, <1>6 DEF TypeOK
    <2>2. ~InCallback'
      BY <1>6 DEF InCallback
    <2>3. Queue'
      BY <1>1, <1>6 DEF Queue
    <2>4. Counts'
      BY <1>1, <1>4, <1>6, <2>2, CountsStay
    <2>5. Batch'
      BY <1>1, <1>6 DEF Batch
    <2>6. Handled'
      BY <1>1, <1>3, <1>6 DEF Handled
    <2>7. Iterator'
      BY <1>1, <1>6, <2>2, <1>4 DEF Iterator
    <2> QED
      BY <1>5, <2>1, <2>3, <2>4, <2>5, <2>6, <2>7
  <1> DEFINE s == sockets[e.fd]
  <1>7. CASE /\ e.fd # Listening /\ s # NoPeer
             /\ sref' = [sref EXCEPT ![s] = @ + 1] /\ event' = [e EXCEPT !.socket = s] /\ pc' = "in"
    <2>1. e.fd \in Fds /\ e.of = s /\ s \in Peers /\ conns[e.fd] = s
      BY <1>2, <1>7 DEF Events, Batch, Maps
    <2> HIDE DEF s
    <2>2. event' \in Events /\ event'.fd = e.fd /\ event'.of = s /\ event'.socket = s
      BY <1>2, <1>7, <2>1 DEF Events
    <2>3. link[s] \in Open /\ \A fd \in Fds \ {e.fd} : conns[fd] # s
      <3> DEFINE g == e.fd
      <3>1. g \in Fds /\ conns[g] = s
        BY <2>1
      <3> HIDE DEF g
      <3>2. link[s] \in Open /\ \A fd \in Fds \ {g} : conns[fd] # s
        BY <2>1, <3>1 DEF Maps
      <3> QED
        BY <3>2 DEF g
    <2>4. In(sockets, s) = 1
      BY <2>1 DEF In, Maps
    <2>5. sref[s] = 1
      BY <1>3, <2>1, <2>4 DEF Counts
    <2>6. sref' \in [Peers -> 0..2] /\ sref'[s] = 2 /\ \A q \in Peers \ {s} : sref'[q] = sref[q]
      <3>1. sref' = [sref EXCEPT ![s] = sref[s] + 1] /\ sref[s] + 1 = 2
        BY <1>7, <2>5
      <3>2. sref' = [sref EXCEPT ![s] = 2]
        BY <3>1
      <3>3. 2 \in 0..2
        OBVIOUS
      <3>4. sref \in [Peers -> 0..2]
        BY DEF TypeOK
      <3> QED
        BY <2>1, <3>2, <3>3, <3>4
    <2>7. TypeOK'
      BY <1>1, <1>2, <1>4, <1>7, <2>2, <2>6 DEF TypeOK
    <2>8. ~InCallback'
      BY <1>7 DEF InCallback
    <2>9. Queue'
      BY <1>1, <2>1, <2>2 DEF Queue
    <2>10. Counts'
      <3>1. \A q \in Peers : In(sockets', q) = In(sockets, q) /\ In(conns', q) = In(conns, q)
        BY <1>1 DEF In
      <3>2. ASSUME NEW q \in Peers
            PROVE  /\ sref'[q] = In(sockets', q) + IF event'.socket = q THEN 1 ELSE 0
                   /\ cref'[q] = In(conns', q) + (IF InCallback' /\ held' = q THEN 1 ELSE 0)
                                              + IF link'[q] = "failed" THEN 1 ELSE 0
        <4>1. cref'[q] = In(conns', q) + (IF InCallback' /\ held' = q THEN 1 ELSE 0)
                                              + IF link'[q] = "failed" THEN 1 ELSE 0
          BY <1>1, <1>4, <2>8, <3>1 DEF Counts
        <4>2. sref'[q] = In(sockets', q) + IF event'.socket = q THEN 1 ELSE 0
          <5>1. CASE q = s
            BY <2>2, <2>4, <2>6, <3>1, <5>1
          <5>2. CASE q # s
            <6>1. sref[q] = In(sockets, q) + IF event.socket = q THEN 1 ELSE 0
              BY DEF Counts
            <6>2. event.socket # q /\ event'.socket # q
              BY <1>3, <2>2, <5>2
            <6> QED
              BY <2>6, <3>1, <5>2, <6>1, <6>2
          <5> QED
            BY <5>1, <5>2
        <4> QED
          BY <4>1, <4>2
      <3> QED
        BY <3>2 DEF Counts
    <2>11. Batch'
      BY <1>1, <1>7, <2>2 DEF Batch
    <2>12. Handled'
      BY <1>1, <1>3, <1>7, <2>1, <2>2, <2>3, <2>8 DEF Handled
    <2>13. Iterator'
      BY <1>1, <1>4, <1>7, <2>8 DEF Iterator
    <2> QED
      BY <1>5, <2>7, <2>9, <2>10, <2>11, <2>12, <2>13
  <1> QED
    BY <1>1, <1>6, <1>7 DEF Dispatch

\* The end of imconn_callback.
LEMMA LeaveStep ==
    ASSUME SocketInv, Leave
    PROVE  SocketInv'
  <1> USE SocketNames DEF SocketInv
  <1> DEFINE p == event.socket
  <1>1. /\ UNCHANGED <<role, owner, link, backlog, rx, ready>>
        /\ UNCHANGED <<sockets, conns, sref, state, type, batch, event, it, seen, starved>>
        /\ InCallback /\ pc = "leave" /\ pc' = after /\ held' = NoPeer /\ after' = ""
        /\ cref' = [cref EXCEPT ![held] = @ - 1]
    BY DEF Leave, InCallback, kernel
  <1>2. held = p /\ p \in Peers /\ link[p] # "failed" /\ after \in {"out", "hup", "release"}
    BY <1>1 DEF Handled, TypeOK, Open
  <1> HIDE DEF p
  <1>3. Onward /\ Pdus' = Pdus /\ ~InCallback' /\ NoPeer \notin Peers
    BY <1>1, <1>2 DEF Onward, TypeOK, Links, Pdus, InCallback
  <1>4. \A q \in Peers : In(conns, q) \in {0, 1}
    BY DEF In
  <1>5. cref[p] = In(conns, p) + 1
    <2>1. cref[p] = In(conns, p) + (IF InCallback /\ held = p THEN 1 ELSE 0)
                                 + IF link[p] = "failed" THEN 1 ELSE 0
      BY <1>2 DEF Counts
    <2>2. In(conns, p) \in {0, 1}
      BY <1>2, <1>4
    <2>3. cref[p] = In(conns, p) + 1 + 0
      BY <1>1, <1>2, <2>1
    <2> QED
      BY <2>2, <2>3
  <1>6. cref' \in [Peers -> 0..2] /\ cref'[p] = In(conns, p) /\ \A q \in Peers \ {p} : cref'[q] = cref[q]
    <2>1. cref[p] - 1 = In(conns, p) /\ In(conns, p) \in 0..2
      <3>1. In(conns, p) \in {0, 1}
        BY <1>2, <1>4
      <3> QED
        BY <1>5, <3>1
    <2>2. cref' = [cref EXCEPT ![p] = cref[p] - 1]
      BY <1>1, <1>2
    <2>3. cref' = [cref EXCEPT ![p] = In(conns, p)]
      BY <2>1, <2>2
    <2>4. cref \in [Peers -> 0..2]
      BY DEF TypeOK
    <2> QED
      BY <1>2, <2>1, <2>3, <2>4
  <1>8. TypeOK'
    BY <1>1, <1>2, <1>3, <1>6 DEF TypeOK
  <1>9. Maps' /\ Queue'
    BY <1>1 DEF Maps, Queue
  <1>10. Counts'
    <2>1. \A q \in Peers : In(sockets', q) = In(sockets, q) /\ In(conns', q) = In(conns, q)
      BY <1>1 DEF In
    <2>2. ASSUME NEW q \in Peers
          PROVE  /\ sref'[q] = In(sockets', q) + IF event'.socket = q THEN 1 ELSE 0
                 /\ cref'[q] = In(conns', q) + (IF InCallback' /\ held' = q THEN 1 ELSE 0)
                                            + IF link'[q] = "failed" THEN 1 ELSE 0
      <3>1. sref'[q] = In(sockets', q) + IF event'.socket = q THEN 1 ELSE 0
        BY <1>1, <2>1 DEF Counts
      <3>2. CASE q = p
        <4>1. In(conns, p) \in {0, 1} /\ In(conns', p) = In(conns, p)
          BY <1>2, <1>4, <2>1
        <4>2. ~InCallback' /\ link'[p] # "failed" /\ cref'[p] = In(conns, p)
          BY <1>1, <1>2, <1>3, <1>6
        <4>3. cref'[p] = In(conns', p) + 0 + 0
          BY <4>1, <4>2
        <4> QED
          BY <3>1, <3>2, <4>2, <4>3
      <3>3. CASE q # p
        <4>1. cref[q] = In(conns, q) + IF link[q] = "failed" THEN 1 ELSE 0
          <5>1. In(conns, q) \in Nat
            BY <1>4
          <5>2. ~(InCallback /\ held = q)
            BY <1>2, <3>3
          <5>3. cref[q] = In(conns, q) + (IF InCallback /\ held = q THEN 1 ELSE 0)
                                       + IF link[q] = "failed" THEN 1 ELSE 0
            BY DEF Counts
          <5>4. cref[q] = In(conns, q) + 0 + IF link[q] = "failed" THEN 1 ELSE 0
            BY <5>2, <5>3
          <5> QED
            BY <5>1, <5>4
        <4>2. ~InCallback' /\ In(conns', q) \in Nat
          BY <1>3, <1>4, <2>1
        <4>3. cref'[q] = In(conns', q) + IF link'[q] = "failed" THEN 1 ELSE 0
          BY <1>1, <1>6, <2>1, <3>3, <4>1
        <4>4. cref'[q] = In(conns', q) + 0 + IF link'[q] = "failed" THEN 1 ELSE 0
          BY <4>2, <4>3
        <4> QED
          BY <3>1, <4>2, <4>4
      <3> QED
        BY <3>2, <3>3
    <2> QED
      BY <2>2 DEF Counts
  <1>11. Batch'
    BY <1>1, <1>2 DEF Batch
  <1>12. Handled'
    BY <1>1, <1>2, <1>3 DEF Handled
  <1>13. Iterator'
    BY <1>1, <1>2, <1>3 DEF Iterator
  <1> QED
    BY <1>8, <1>9, <1>10, <1>11, <1>12, <1>13

LEMMA ReleaseStep ==
    ASSUME SocketInv, Release
    PROVE  SocketInv'
  <1> USE SocketNames DEF SocketInv
  <1> DEFINE p == event.socket
  <1>1. /\ UNCHANGED <<role, owner, link, backlog, rx, ready>>
        /\ UNCHANGED <<sockets, conns, cref, type, batch, held, after, it, seen, starved>>
        /\ pc = "release" /\ pc' = "dispatch" /\ event' = NoEvent
        /\ sref' = [sref EXCEPT ![p] = @ - 1]
        /\ state' \in {state, [state EXCEPT ![p] = "IDLE"]}
    BY DEF Release, kernel
  <1>2. /\ p \in Peers /\ held = NoPeer /\ ~InCallback /\ ~InCallback'
        /\ NoEvent.socket = NoPeer /\ NoEvent.fd = NoFd
    BY <1>1 DEF Handled, InCallback, NoEvent
  <1> HIDE DEF p
  <1>3. Onward /\ Pdus' = Pdus /\ NoPeer \notin Peers
    BY <1>1 DEF Onward, TypeOK, Links, Pdus
  <1>4. \A q \in Peers : In(sockets, q) \in {0, 1}
    BY DEF In
  <1>5. sref[p] = In(sockets, p) + 1
    BY <1>2 DEF Counts, p
  <1>6. sref' \in [Peers -> 0..2] /\ sref'[p] = In(sockets, p) /\ \A q \in Peers \ {p} : sref'[q] = sref[q]
    <2>1. sref[p] - 1 = In(sockets, p) /\ In(sockets, p) \in 0..2
      <3>1. In(sockets, p) \in {0, 1}
        BY <1>2, <1>4
      <3> QED
        BY <1>5, <3>1
    <2>2. sref' = [sref EXCEPT ![p] = sref[p] - 1]
      BY <1>1, <1>2
    <2>3. sref' = [sref EXCEPT ![p] = In(sockets, p)]
      BY <2>1, <2>2
    <2>4. sref \in [Peers -> 0..2]
      BY DEF TypeOK
    <2> QED
      BY <1>2, <2>1, <2>3, <2>4
  <1>8. TypeOK'
    <2>1. NoEvent \in Events
      BY DEF NoEvent, Events
    <2>2. state' \in [Peers -> States]
      BY <1>1, <1>2 DEF TypeOK, States
    <2> QED
      BY <1>1, <1>2, <1>3, <1>6, <2>1, <2>2 DEF TypeOK, States
  <1>9. Maps'
    BY <1>1 DEF Maps
  <1>10. Queue'
    <2>1. \A i \in 1..Len(backlog) : backlog[i] \in Peers
      <3>1. backlog \in Seq(Peers)
        BY DEF TypeOK
      <3> QED
        BY <3>1
    <2> QED
      BY <1>1, <1>2, <1>3, <2>1 DEF Queue
  <1>11. Counts'
    <2>1. \A q \in Peers : In(sockets', q) = In(sockets, q) /\ In(conns', q) = In(conns, q)
      BY <1>1 DEF In
    <2>2. ASSUME NEW q \in Peers
          PROVE  /\ sref'[q] = In(sockets', q) + IF event'.socket = q THEN 1 ELSE 0
                 /\ cref'[q] = In(conns', q) + (IF InCallback' /\ held' = q THEN 1 ELSE 0)
                                            + IF link'[q] = "failed" THEN 1 ELSE 0
      <3>1. cref'[q] = In(conns', q) + (IF InCallback' /\ held' = q THEN 1 ELSE 0)
                                            + IF link'[q] = "failed" THEN 1 ELSE 0
        BY <1>1, <1>2, <2>1 DEF Counts
      <3>2. event'.socket # q
        BY <1>1, <1>2, <1>3
      <3>3. CASE q = p
        BY <1>2, <1>4, <1>6, <2>1, <3>1, <3>2, <3>3
      <3>4. CASE q # p
        BY <1>6, <2>1, <3>1, <3>2, <3>4 DEF Counts, p
      <3> QED
        BY <3>3, <3>4
    <2> QED
      BY <2>2 DEF Counts
  <1>12. Batch'
    BY <1>1, <1>2 DEF Batch
  <1>13. Handled'
    BY <1>1 DEF Handled
  <1>14. Iterator'
    BY <1>1, <1>2 DEF Iterator
  <1> QED
    BY <1>8, <1>9, <1>10, <1>11, <1>12, <1>13, <1>14

LEMMA TimerBeatStep ==
    ASSUME SocketInv, TimerBeat
    PROVE  SocketInv'
  <1> USE SocketNames DEF SocketInv
  <1>1. /\ UNCHANGED <<role, owner, backlog, rx, starved>>
        /\ UNCHANGED <<sockets, conns, sref, cref, state, type>>
        /\ UNCHANGED <<batch, event, after, it, seen>>
        /\ pc = "onTimer" /\ pc' = "loop" /\ held' = NoPeer /\ SendTo(held)
    BY DEF TimerBeat, objects
  <1>2. held \in Peers /\ event = NoEvent /\ batch = {}
    BY <1>1 DEF Iterator, Handled, Batch
  <1>3. Onward /\ Maps' /\ ready' \subseteq Fds \cup {Listening}
    BY <1>1, <1>2, SendKeeps
  <1>4. Pdus' = Pdus /\ ~InCallback /\ ~InCallback'
    BY <1>1 DEF Pdus, InCallback
  <1>5. TypeOK'
    BY <1>1, <1>3, <1>4 DEF TypeOK, Onward, Links
  <1>6. Queue'
    BY <1>1, <1>3, QueueStays DEF Queue
  <1>7. Counts'
    BY <1>1, <1>3, <1>4, CountsStay
  <1>8. Batch'
    BY <1>1, <1>2 DEF Batch
  <1>9. Handled'
    BY <1>1, <1>2 DEF Handled
  <1>10. Iterator'
    BY <1>1, <1>4 DEF Iterator
  <1> QED
    BY <1>3, <1>5, <1>6, <1>7, <1>8, <1>9, <1>10

LEMMA TimerOutStep ==
    ASSUME SocketInv, TimerOut
    PROVE  SocketInv'
  <1> USE SocketNames DEF SocketInv
  <1>1. /\ UNCHANGED <<role, backlog, batch, event, after, it, seen, starved>>
        /\ pc = "onTimer" /\ held' = NoPeer /\ Close(held, 0)
        /\ state' = [state EXCEPT ![held] = "IDLE"]
        /\ pc' = "loop" \/ (pc' = "connect" /\ Handles' = {})
    BY DEF TimerOut
  <1>2. held \in Peers /\ event = NoEvent /\ batch = {} /\ NoEvent.socket = NoPeer /\ NoEvent.fd = NoFd
    BY <1>1 DEF Iterator, Handled, Batch, NoEvent
  <1>3. PICK fd \in seen : conns[fd] = held
    BY <1>1 DEF Iterator
  <1>4. fd \in Fds /\ ~InCallback /\ ~InCallback' /\ Pdus' = Pdus
    BY <1>1 DEF TypeOK, InCallback, Pdus
  <1> DEFINE p == held
  <1>5. p \in Peers /\ conns[fd] = p /\ state' = [state EXCEPT ![p] = "IDLE"]
    BY <1>1, <1>2, <1>3
  <1>6. CloseDoes(fd, p, 0)
    BY <1>1, <1>4, <1>5, CloseIs
  <1> HIDE DEF p
  <1>7. /\ Maps'
        /\ owner' \in [Fds -> Peers \cup {NoPeer, Other}]
        /\ ready' \subseteq Fds \cup {Listening}
        /\ sockets' \in [Fds -> Peers \cup {NoPeer}] /\ conns' \in [Fds -> Peers \cup {NoPeer}]
        /\ link' \in [Peers -> Links]
        /\ type' \in [Peers -> {"none", "CPP", "PHP"}]
        /\ rx' \in [Peers -> Seq(Pdus)]
        /\ conns'[fd] = NoPeer /\ \A f \in Fds \ {fd} : conns'[f] = conns[f] /\ conns[f] # p
        /\ link'[p] = "closed" /\ link[p] \in Open /\ \A q \in Peers \ {p} : link'[q] = link[q]
        /\ \A q \in Peers :
              /\ In(conns', q) = IF q = p THEN 0 ELSE In(conns, q)
              /\ In(sockets', q) = IF q = p THEN 0 ELSE In(sockets, q)
        /\ In(conns, p) = 1 /\ In(sockets, p) = 1
    BY <1>4, <1>5, <1>6, CloseKeeps DEF Links
  <1>8. sref[p] = 1 /\ cref[p] = 1
    <2>1. link[p] # "failed" /\ event.socket # p
      BY <1>2, <1>5, <1>7 DEF Open
    <2>2. /\ sref[p] = In(sockets, p) + IF event.socket = p THEN 1 ELSE 0
          /\ cref[p] = In(conns, p) + (IF InCallback /\ held = p THEN 1 ELSE 0)
                                   + IF link[p] = "failed" THEN 1 ELSE 0
      BY <1>5 DEF Counts
    <2>3. sref[p] = 1 + 0 /\ cref[p] = 1 + 0 + 0
      BY <1>4, <1>7, <2>1, <2>2
    <2> QED
      BY <2>3
  <1>9. sref' = [sref EXCEPT ![p] = 0] /\ cref' = [cref EXCEPT ![p] = 0]
    BY <1>6, <1>8 DEF CloseDoes
  <1>10. /\ sref' \in [Peers -> 0..2] /\ cref' \in [Peers -> 0..2]
         /\ sref'[p] = 0 /\ cref'[p] = 0
         /\ \A q \in Peers \ {p} : sref'[q] = sref[q] /\ cref'[q] = cref[q]
    <2>1. 0 \in 0..2
      OBVIOUS
    <2>2. sref \in [Peers -> 0..2] /\ cref \in [Peers -> 0..2]
      BY DEF TypeOK
    <2> QED
      BY <1>5, <1>9, <2>1, <2>2
  <1>11. TypeOK'
    <2>1. state' \in [Peers -> States]
      BY <1>5 DEF TypeOK, States
    <2> QED
      BY <1>1, <1>4, <1>7, <1>10, <2>1 DEF TypeOK, Links, States
  <1>12. Queue'
    <2>1. \A i \in 1..Len(backlog) : backlog[i] \in Peers
      <3>1. backlog \in Seq(Peers)
        BY DEF TypeOK
      <3> QED
        BY <3>1
    <2>2. ASSUME NEW i \in 1..Len(backlog)
          PROVE  /\ link'[backlog[i]] \in Open
                 /\ backlog[i] # event.socket
                 /\ \A f \in Fds : conns'[f] # backlog[i]
      <3> DEFINE b == backlog[i]
      <3>1. b \in Peers /\ link[b] \in Open /\ b # event.socket /\ \A f \in Fds : conns[f] # b
        BY <2>1 DEF Queue
      <3> HIDE DEF b
      <3>2. b # p
        BY <1>4, <1>5, <3>1
      <3>3. /\ link'[b] \in Open /\ b # event.socket /\ \A f \in Fds : conns'[f] # b
        BY <1>7, <3>1, <3>2
      <3> QED
        BY <3>3 DEF b
    <2> QED
      BY <1>1, <2>2 DEF Queue
  <1>13. Counts'
    <2>1. ASSUME NEW q \in Peers
          PROVE  /\ sref'[q] = In(sockets', q) + IF event'.socket = q THEN 1 ELSE 0
                 /\ cref'[q] = In(conns', q) + (IF InCallback' /\ held' = q THEN 1 ELSE 0)
                                            + IF link'[q] = "failed" THEN 1 ELSE 0
      <3>1. event'.socket # q /\ event.socket # q
        BY <1>1, <1>2
      <3>2. CASE q = p
        <4>1. sref'[q] = In(sockets', q) + 0 /\ cref'[q] = In(conns', q) + 0 + 0
          BY <1>7, <1>10, <3>2
        <4> QED
          BY <1>4, <1>7, <3>1, <3>2, <4>1
      <3>3. CASE q # p
        <4>1. /\ sref[q] = In(sockets, q) + IF event.socket = q THEN 1 ELSE 0
              /\ cref[q] = In(conns, q) + (IF InCallback /\ held = q THEN 1 ELSE 0)
                                       + IF link[q] = "failed" THEN 1 ELSE 0
          BY DEF Counts
        <4>2. /\ sref[q] = In(sockets, q) + 0
              /\ cref[q] = In(conns, q) + 0 + IF link[q] = "failed" THEN 1 ELSE 0
          BY <1>4, <3>1, <4>1
        <4>3. /\ sref'[q] = In(sockets', q) + 0
              /\ cref'[q] = In(conns', q) + 0 + IF link'[q] = "failed" THEN 1 ELSE 0
          BY <1>7, <1>10, <3>3, <4>2
        <4> QED
          BY <1>4, <3>1, <4>3
      <3> QED
        BY <3>2, <3>3
    <2> QED
      BY <2>1 DEF Counts
  <1>14. Batch'
    BY <1>1, <1>2 DEF Batch
  <1>15. Handled'
    BY <1>1, <1>2 DEF Handled
  <1>16. Iterator'
    <2>1. it # NoFd => it \in Fds \ {fd} /\ conns[it] \in Peers /\ it \notin seen
      BY <1>3 DEF Iterator, TypeOK
    <2>2. it # NoFd => conns'[it] \in Peers
      BY <1>7, <2>1
    <2>3. pc' = "connect" => it = NoFd /\ \A f \in Fds : conns'[f] = NoPeer
      <3>1. Handles' = {f \in Fds : conns'[f] # NoPeer}
        BY DEF Handles
      <3> QED
        BY <1>1, <2>1, <2>2, <3>1
    <2> QED
      BY <1>1, <1>4, <2>1, <2>2, <2>3 DEF Iterator
  <1> QED
    BY <1>7, <1>11, <1>12, <1>13, <1>14, <1>15, <1>16

\* A connection gets a descriptor, its objects, and one reference each.
Opens(fd, p) ==
    /\ \A f \in Fds : conns[f] # p
    /\ event = NoEvent /\ UNCHANGED event /\ ~InCallback /\ ~InCallback'
    /\ link' \in [Peers -> Links] /\ link'[p] \in Open
    /\ \A q \in Peers \ {p} : link'[q] = link[q]
    /\ owner' = [owner EXCEPT ![fd] = p]
    /\ sockets' = [sockets EXCEPT ![fd] = IF @ = NoPeer THEN p ELSE @]
    /\ conns' = [conns EXCEPT ![fd] = p]
    /\ sref' = [sref EXCEPT ![p] = 1] /\ cref' = [cref EXCEPT ![p] = 1]
    /\ ready' \subseteq ready \cup {fd}
Opened(fd, p) ==
    /\ Maps' /\ Counts'
    /\ owner' \in [Fds -> Peers \cup {NoPeer, Other}]
    /\ ready' \subseteq Fds \cup {Listening}
    /\ sockets' \in [Fds -> Peers \cup {NoPeer}] /\ conns' \in [Fds -> Peers \cup {NoPeer}]
    /\ sref' \in [Peers -> 0..2] /\ cref' \in [Peers -> 0..2]
    /\ fd \in Fds /\ conns[fd] = NoPeer
    /\ conns'[fd] = p /\ \A f \in Fds \ {fd} : conns'[f] = conns[f]

LEMMA OpenKeeps ==
    ASSUME TypeOK, Maps, Counts, NEW fd \in FreeFds, NEW p \in Peers, Opens(fd, p)
    PROVE  Opened(fd, p)
  <1> USE SocketNames DEF Opens
  <1>1. fd \in Fds /\ owner[fd] = NoPeer
    BY DEF FreeFds, FdsOf
  <1>2. conns[fd] = NoPeer /\ sockets = conns
    <2>1. /\ sockets = conns
          /\ \A q \in Peers : owner[fd] = q <=> conns[fd] = q
      BY <1>1, Zenon DEF Maps
    <2>2. conns[fd] \in Peers \cup {NoPeer}
      BY <1>1, Zenon DEF TypeOK
    <2>3. owner[fd] \notin Peers
      BY <1>1
    <2> QED
      BY <2>1, <2>2, <2>3, Zenon
  <1>3. sockets' = conns'
    <2>1. sockets[fd] = NoPeer
      BY <1>2, Zenon
    <2>2. sockets' = [sockets EXCEPT ![fd] = p]
      BY <2>1
    <2> QED
      BY <1>2, <2>2, Zenon
  <1>4. owner \in [Fds -> Peers \cup {NoPeer, Other}] /\ conns \in [Fds -> Peers \cup {NoPeer}]
    BY DEF TypeOK
  <1>5. /\ owner' \in [Fds -> Peers \cup {NoPeer, Other}] /\ conns' \in [Fds -> Peers \cup {NoPeer}]
        /\ owner'[fd] = p /\ \A f \in Fds \ {fd} : owner'[f] = owner[f]
        /\ conns'[fd] = p /\ \A f \in Fds \ {fd} : conns'[f] = conns[f]
    BY <1>1, <1>4
  <1>6. Maps'
    <2>1. \A f \in Fds : \A q \in Peers : owner'[f] = q <=> conns'[f] = q
      BY <1>5 DEF Maps
    <2>2. \A f, g \in Fds : conns'[f] \in Peers /\ conns'[f] = conns'[g] => f = g
      BY <1>5 DEF Maps
    <2>3. \A f \in Fds : conns'[f] \in Peers => link'[conns'[f]] \in Open
      <3>1. ASSUME NEW f \in Fds \ {fd}, conns[f] \in Peers
            PROVE  link'[conns[f]] \in Open
        <4>1. link[conns[f]] \in Open /\ conns[f] # p
          BY <3>1 DEF Maps
        <4> QED
          BY <3>1, <4>1
      <3> QED
        BY <1>5, <3>1
    <2>4. \A f \in ready' \cap Fds : conns'[f] \in Peers
      BY <1>5 DEF Maps
    <2>5. owner'[fd] # Other
      BY <1>5
    <2> QED
      BY <1>1, <1>3, <2>1, <2>2, <2>3, <2>4, <2>5 DEF Maps
  <1>7. ready' \subseteq Fds \cup {Listening}
    BY <1>1 DEF TypeOK
  <1>8. /\ sref' \in [Peers -> 0..2] /\ cref' \in [Peers -> 0..2]
        /\ sref'[p] = 1 /\ cref'[p] = 1
        /\ \A q \in Peers \ {p} : sref'[q] = sref[q] /\ cref'[q] = cref[q]
    <2>1. 1 \in 0..2
      OBVIOUS
    <2>2. sref \in [Peers -> 0..2] /\ cref \in [Peers -> 0..2]
      BY DEF TypeOK
    <2> QED
      BY <2>1, <2>2
  <1>9. ASSUME NEW q \in Peers
        PROVE  In(conns', q) = IF q = p THEN 1 ELSE In(conns, q)
    <2>1. conns = [f \in Fds |-> conns[f]] /\ DOMAIN conns = Fds
      BY <1>4
    <2>2. In([conns EXCEPT ![fd] = p], q) = IF q = p THEN 1 ELSE In(conns, q)
      BY <1>1, <1>2, <2>1, InOpens
    <2> QED
      BY <2>2
  <1>10. Counts'
    <2>1. ASSUME NEW q \in Peers
          PROVE  /\ sref'[q] = In(sockets', q) + IF event'.socket = q THEN 1 ELSE 0
                 /\ cref'[q] = In(conns', q) + (IF InCallback' /\ held' = q THEN 1 ELSE 0)
                                            + IF link'[q] = "failed" THEN 1 ELSE 0
      <3>1. event'.socket # q /\ event.socket # q
        BY DEF NoEvent
      <3>2. In(sockets', q) = In(conns', q) /\ In(sockets, q) = In(conns, q)
        BY <1>2, <1>3
      <3>3. CASE q = p
        <4>1. link'[q] # "failed" /\ In(conns', q) = 1
          BY <1>9, <3>3 DEF Open
        <4>2. sref'[q] = In(sockets', q) + 0 /\ cref'[q] = In(conns', q) + 0 + 0
          BY <1>8, <3>2, <3>3, <4>1
        <4> QED
          BY <3>1, <4>1, <4>2
      <3>4. CASE q # p
        <4>1. /\ sref[q] = In(sockets, q) + IF event.socket = q THEN 1 ELSE 0
              /\ cref[q] = In(conns, q) + (IF InCallback /\ held = q THEN 1 ELSE 0)
                                       + IF link[q] = "failed" THEN 1 ELSE 0
          BY DEF Counts
        <4>2. /\ sref[q] = In(sockets, q) + 0
              /\ cref[q] = In(conns, q) + 0 + IF link[q] = "failed" THEN 1 ELSE 0
          BY <3>1, <4>1
        <4>3. /\ sref'[q] = In(sockets', q) + 0
              /\ cref'[q] = In(conns', q) + 0 + IF link'[q] = "failed" THEN 1 ELSE 0
          BY <1>8, <1>9, <3>2, <3>4, <4>2
        <4> QED
          BY <3>1, <4>3
      <3> QED
        BY <3>3, <3>4
    <2> QED
      BY <2>1 DEF Counts
  <1> QED
    BY <1>1, <1>2, <1>3, <1>5, <1>6, <1>7, <1>8, <1>10, Zenon DEF Opened

LEMMA AcceptStep ==
    ASSUME SocketInv, Accept
    PROVE  SocketInv'
  <1> USE SocketNames DEF SocketInv
  <1> DEFINE fd == NewFd
             p == Head(backlog)
  <1>1. /\ UNCHANGED <<role, link, rx, pc, batch, event, held, after, it, seen, starved>>
        /\ pc = "accept" /\ backlog # <<>> /\ fd \in FreeFds
        /\ backlog' = Tail(backlog)
        /\ owner' = [owner EXCEPT ![fd] = p]
        /\ sockets' = [sockets EXCEPT ![fd] = IF @ = NoPeer THEN p ELSE @]
        /\ conns' = [conns EXCEPT ![fd] = p]
        /\ sref' = [sref EXCEPT ![p] = 1] /\ cref' = [cref EXCEPT ![p] = 1]
        /\ state' = [state EXCEPT ![p] = "CONNECTED"]
        /\ ready' = ready \cup {fd}
        /\ \E t \in {"CPP", "PHP"} : type' = [type EXCEPT ![p] = t]
    BY NewFdIsFree DEF Accept, loop
  <1>2. /\ backlog \in Seq(Peers) /\ Len(backlog) \in Nat \ {0} /\ p = backlog[1] /\ p \in Peers
        /\ Tail(backlog) \in Seq(Peers) /\ Len(Tail(backlog)) = Len(backlog) - 1
        /\ \A i \in 1..Len(Tail(backlog)) : i + 1 \in 1..Len(backlog) /\ Tail(backlog)[i] = backlog[i + 1]
    <2>1. backlog \in Seq(Peers) /\ backlog # <<>>
      BY <1>1 DEF TypeOK
    <2> QED
      BY <2>1
  <1> HIDE DEF fd, p
  <1>3. 1 \in 1..Len(backlog)
    BY <1>2
  <1>4. link[p] \in Open /\ \A f \in Fds : conns[f] # p
    BY <1>2, <1>3 DEF Queue
  <1>5. event = NoEvent /\ ~InCallback /\ ~InCallback' /\ Pdus' = Pdus /\ link \in [Peers -> Links]
    BY <1>1 DEF Handled, InCallback, Pdus, TypeOK, Links
  <1>6. /\ Maps' /\ Counts'
        /\ owner' \in [Fds -> Peers \cup {NoPeer, Other}]
        /\ ready' \subseteq Fds \cup {Listening}
        /\ sockets' \in [Fds -> Peers \cup {NoPeer}] /\ conns' \in [Fds -> Peers \cup {NoPeer}]
        /\ sref' \in [Peers -> 0..2] /\ cref' \in [Peers -> 0..2]
        /\ fd \in Fds /\ conns[fd] = NoPeer
        /\ conns'[fd] = p /\ \A f \in Fds \ {fd} : conns'[f] = conns[f]
    <2>1. /\ link' \in [Peers -> Links] /\ link'[p] \in Open
          /\ \A q \in Peers \ {p} : link'[q] = link[q]
          /\ ready' \subseteq ready \cup {fd} /\ UNCHANGED event
      BY <1>1, <1>4, <1>5, Zenon
    <2>2. Opens(fd, p)
      BY <1>1, <1>4, <1>5, <2>1, Zenon DEF Opens
    <2>3. fd \in FreeFds
      BY <1>1, Zenon
    <2>4. Opened(fd, p)
      BY <1>2, <2>2, <2>3, OpenKeeps, Zenon DEF SocketInv
    <2> QED
      BY <2>4, Zenon DEF Opened
  <1>7. TypeOK'
    <2>1. state' \in [Peers -> States]
      BY <1>1, <1>2 DEF TypeOK, States
    <2>2. type' \in [Peers -> {"none", "CPP", "PHP"}]
      BY <1>1, <1>2 DEF TypeOK
    <2> QED
      BY <1>1, <1>2, <1>5, <1>6, <2>1, <2>2 DEF TypeOK, States
  <1>8. Queue'
    <2>1. ASSUME NEW i \in 1..Len(backlog')
          PROVE  i + 1 \in 1..Len(backlog) /\ backlog'[i] = backlog[i + 1] /\ i \in Int
      BY <1>1, <1>2
    <2>2. \A i, j \in 1..Len(backlog') : backlog'[i] = backlog'[j] => i = j
      <3>1. ASSUME NEW i \in 1..Len(backlog'), NEW j \in 1..Len(backlog'), backlog'[i] = backlog'[j]
            PROVE  i = j
        <4>1. i + 1 = j + 1
          BY <2>1, <3>1 DEF Queue
        <4> QED
          BY <2>1, <4>1
      <3> QED
        BY <3>1
    <2>3. ASSUME NEW i \in 1..Len(backlog')
          PROVE  /\ link'[backlog'[i]] \in Open
                 /\ backlog'[i] # event'.socket
                 /\ \A f \in Fds : conns'[f] # backlog'[i]
      <3> DEFINE k == i + 1
      <3>1. k \in 1..Len(backlog) /\ backlog'[i] = backlog[k] /\ k # 1
        BY <2>1
      <3> HIDE DEF k
      <3>2. link[backlog[k]] \in Open /\ backlog[k] # event.socket /\ backlog[k] # p
            /\ \A f \in Fds : conns[f] # backlog[k]
        BY <1>2, <1>3, <3>1 DEF Queue
      <3> QED
        BY <1>1, <1>6, <3>1, <3>2
    <2> QED
      BY <2>2, <2>3 DEF Queue
  <1>9. Batch'
    <2>1. \A e \in batch : e.fd \in Fds => e.fd # fd
      BY <1>6 DEF Batch
    <2> QED
      BY <1>1, <1>6, <2>1 DEF Batch
  <1>10. Handled'
    BY <1>1, <1>5 DEF Handled
  <1>11. Iterator'
    BY <1>1, <1>5 DEF Iterator
  <1> QED
    BY <1>6, <1>7, <1>8, <1>9, <1>10, <1>11

LEMMA ConnectServerStep ==
    ASSUME SocketInv, NEW p \in Peers, ConnectServer(p)
    PROVE  SocketInv'
  <1> USE SocketNames DEF SocketInv
  <1>1. /\ UNCHANGED <<role, backlog, rx, ready, type, batch, event, held, after, it, starved>>
        /\ pc = "connect" /\ pc' = "wait" /\ seen' = {}
        /\ link[p] = "none" /\ cref' = [cref EXCEPT ![p] = 1]
    BY DEF ConnectServer, Unused
  <1>2. /\ event = NoEvent /\ batch = {} /\ held = NoPeer /\ it = NoFd
        /\ ~InCallback /\ ~InCallback' /\ Pdus' = Pdus /\ NoEvent.socket = NoPeer
        /\ \A f \in Fds : conns[f] = NoPeer
    BY <1>1 DEF Handled, Batch, Iterator, InCallback, Pdus, NoEvent
  <1>3. NoPeer \notin Peers /\ \A f \in Fds : conns[f] # p
    BY <1>2
  <1>4. Batch' /\ Handled'
    BY <1>1, <1>2 DEF Batch, Handled
  <1>5. Iterator'
    BY <1>1, <1>2 DEF Iterator
  <1>6. \A i \in 1..Len(backlog) : backlog[i] \in Peers /\ backlog[i] # p
    <2>1. backlog \in Seq(Peers) /\ "none" \notin Open
      BY DEF TypeOK, Open
    <2> QED
      BY <1>1, <2>1 DEF Queue
  <1>7. CASE /\ link' = [link EXCEPT ![p] = "failed"]
             /\ UNCHANGED <<owner, sockets, conns, sref, state>>
    <2>1. /\ link' \in [Peers -> Links] /\ link'[p] = "failed"
          /\ \A q \in Peers \ {p} : link'[q] = link[q]
      BY <1>7 DEF TypeOK, Links
    <2>2. cref' \in [Peers -> 0..2] /\ cref'[p] = 1 /\ \A q \in Peers \ {p} : cref'[q] = cref[q]
      <3>1. 1 \in 0..2
        OBVIOUS
      <3>2. cref \in [Peers -> 0..2]
        BY DEF TypeOK
      <3> QED
        BY <1>1, <3>1, <3>2
    <2>3. TypeOK'
      BY <1>1, <1>2, <1>7, <2>1, <2>2 DEF TypeOK, Links
    <2>4. Maps'
      BY <1>1, <1>2, <1>7 DEF Maps
    <2>5. Queue'
      <3>1. \A i \in 1..Len(backlog) : link'[backlog[i]] = link[backlog[i]]
        BY <1>6, <2>1
      <3> QED
        BY <1>1, <1>7, <3>1 DEF Queue
    <2>6. Counts'
      <3>1. ASSUME NEW q \in Peers
            PROVE  /\ sref'[q] = In(sockets', q) + IF event'.socket = q THEN 1 ELSE 0
                   /\ cref'[q] = In(conns', q) + (IF InCallback' /\ held' = q THEN 1 ELSE 0)
                                              + IF link'[q] = "failed" THEN 1 ELSE 0
        <4>1. In(sockets', q) = In(sockets, q) /\ In(conns', q) = In(conns, q)
          BY <1>7 DEF In
        <4>2. sref'[q] = In(sockets', q) + IF event'.socket = q THEN 1 ELSE 0
          BY <1>1, <1>7, <4>1 DEF Counts
        <4>3. CASE q = p
          <5>1. In(conns, q) = 0
            BY <1>3, <4>3 DEF In
          <5>2. cref'[q] = In(conns', q) + 0 + 1
            BY <2>2, <4>1, <4>3, <5>1
          <5> QED
            BY <1>2, <2>1, <4>2, <4>3, <5>2
        <4>4. CASE q # p
          <5>1. cref[q] = In(conns, q) + (IF InCallback /\ held = q THEN 1 ELSE 0)
                                       + IF link[q] = "failed" THEN 1 ELSE 0
            BY DEF Counts
          <5>2. cref[q] = In(conns, q) + 0 + IF link[q] = "failed" THEN 1 ELSE 0
            BY <1>2, <5>1
          <5>3. cref'[q] = In(conns', q) + 0 + IF link'[q] = "failed" THEN 1 ELSE 0
            BY <2>1, <2>2, <4>1, <4>4, <5>2
          <5> QED
            BY <1>2, <4>2, <5>3
        <4> QED
          BY <4>3, <4>4
      <3> QED
        BY <3>1 DEF Counts
    <2> QED
      BY <1>4, <1>5, <2>3, <2>4, <2>5, <2>6
  <1> DEFINE fd == NewFd
  <1>8. CASE /\ link' = [link EXCEPT ![p] = "connecting"]
             /\ owner' = [owner EXCEPT ![fd] = p]
             /\ sockets' = [sockets EXCEPT ![fd] = IF @ = NoPeer THEN p ELSE @]
             /\ conns' = [conns EXCEPT ![fd] = p]
             /\ sref' = [sref EXCEPT ![p] = 1]
             /\ state' = [state EXCEPT ![p] = "CONNECTING"]
    <2>1. fd \in FreeFds
      <3>1. PICK f \in Fds : owner[f] # Other
        BY DEF Maps
      <3>2. owner[f] \in Peers \cup {NoPeer, Other}
        BY DEF TypeOK
      <3>3. owner[f] = NoPeer
        BY <1>2, <1>3, <3>1, <3>2 DEF Maps
      <3> QED
        BY <3>3, NewFdIsFree DEF FreeFds, FdsOf
    <2> HIDE DEF fd
    <2>2. /\ link' \in [Peers -> Links] /\ link'[p] = "connecting" /\ link'[p] \in Open
          /\ \A q \in Peers \ {p} : link'[q] = link[q]
      BY <1>8 DEF TypeOK, Links, Open
    <2>3. /\ Maps' /\ Counts'
          /\ owner' \in [Fds -> Peers \cup {NoPeer, Other}]
          /\ ready' \subseteq Fds \cup {Listening}
          /\ sockets' \in [Fds -> Peers \cup {NoPeer}] /\ conns' \in [Fds -> Peers \cup {NoPeer}]
          /\ sref' \in [Peers -> 0..2] /\ cref' \in [Peers -> 0..2]
          /\ fd \in Fds /\ conns[fd] = NoPeer
          /\ conns'[fd] = p /\ \A f \in Fds \ {fd} : conns'[f] = conns[f]
      <3>1. ready' \subseteq ready \cup {fd} /\ UNCHANGED event
        BY <1>1, Zenon
      <3>2. Opens(fd, p)
        BY <1>1, <1>2, <1>3, <1>8, <2>2, <3>1, Zenon DEF Opens
      <3>3. Opened(fd, p)
        BY <2>1, <3>2, OpenKeeps, Zenon DEF SocketInv
      <3> QED
        BY <3>3, Zenon DEF Opened
    <2>4. state' \in [Peers -> States]
      BY <1>8 DEF TypeOK, States
    <2>5. TypeOK'
      BY <1>1, <1>2, <2>2, <2>3, <2>4 DEF TypeOK, Links, States
    <2>6. Queue'
      <3>1. ASSUME NEW i \in 1..Len(backlog)
            PROVE  link'[backlog[i]] = link[backlog[i]] /\ \A f \in Fds : conns'[f] # backlog[i]
        <4> DEFINE b == backlog[i]
        <4>1. b \in Peers \ {p}
          BY <1>6
        <4> HIDE DEF b
        <4>2. link'[b] = link[b]
          BY <2>2, <4>1
        <4>3. \A f \in Fds : conns'[f] \in {p, NoPeer}
          BY <1>2, <2>3
        <4> QED
          BY <1>3, <4>1, <4>2, <4>3 DEF b
      <3> QED
        BY <1>1, <3>1 DEF Queue
    <2> QED
      BY <1>4, <1>5, <2>3, <2>5, <2>6
  <1> QED
    BY <1>7, <1>8 DEF ConnectServer

LEMMA NextSocketInv == SocketInv /\ [Next]_vars => SocketInv'
  <1> SUFFICES ASSUME SocketInv, [Next]_vars PROVE SocketInv'
    OBVIOUS
  <1>1. state \in [Peers -> States]
    BY DEF SocketInv, TypeOK, States
  <1>2. CASE OnRead
    <2>1. /\ pc \in {"in", "out", "hup"} /\ UNCHANGED <<role, backlog, batch, event, it, seen, starved>>
          /\ UNCHANGED state
          /\ NoCallback("out") \/ \E msg \in {"CLOSE", "READ", "CONFIRM"} : Callback(msg, "out")
      BY <1>2 DEF OnRead
    <2> QED
      BY <1>1, <2>1, HandlerStep
  <1>3. CASE OnWrite
    <2>1. /\ pc \in {"in", "out", "hup"} /\ UNCHANGED <<role, backlog, batch, event, it, seen, starved>>
          /\ state' = state \/ state' = [state EXCEPT ![event.socket] = "CONNECTED"]
          /\ \E back \in {"hup", "release"} :
                NoCallback(back) \/ \E msg \in {"CLOSE", "READ", "CONFIRM"} : Callback(msg, back)
      BY <1>3 DEF OnWrite
    <2>2. state' \in [Peers -> States]
      BY <1>1, <2>1 DEF States
    <2> QED
      BY <2>1, <2>2, HandlerStep
  <1>4. CASE OnClose
    <2>1. /\ pc \in {"in", "out", "hup"} /\ UNCHANGED <<role, backlog, batch, event, it, seen, starved>>
          /\ state' = [state EXCEPT ![event.socket] = "CLOSING"]
          /\ Callback("CLOSE", "release")
      BY <1>4 DEF OnClose
    <2>2. state' \in [Peers -> States]
      BY <1>1, <2>1 DEF States
    <2> QED
      BY <2>1, <2>2, HandlerStep
  <1>5. CASE UNCHANGED vars
    <2>1. UNCHANGED <<role, owner, backlog, objects, loop, starved>> /\ UNCHANGED <<link, rx, ready>>
      BY <1>5 DEF vars, kernel
    <2>2. Onward /\ rx' \in [Peers -> Seq(Pdus)]
      BY <2>1 DEF Onward, SocketInv, TypeOK, Links
    <2>3. TypeOK'
      <3>1. /\ UNCHANGED <<sockets, conns, sref, cref, state, type>>
            /\ UNCHANGED <<pc, batch, event, held, after, it, seen>>
        BY <2>1 DEF objects, loop
      <3>2. Pdus' = Pdus
        BY <2>1 DEF Pdus
      <3> QED
        BY <2>1, <3>1, <3>2 DEF SocketInv, TypeOK
    <2>4. Maps' /\ Queue'
      BY <2>1 DEF SocketInv, Maps, Queue, objects, loop
    <2>5. Counts'
      BY <2>1 DEF SocketInv, Counts, In, InCallback, objects, loop
    <2>6. Batch' /\ Handled' /\ Iterator'
      BY <2>1 DEF SocketInv, Batch, Handled, Iterator, InCallback, objects, loop
    <2> QED
      BY <2>3, <2>4, <2>5, <2>6 DEF SocketInv
  <1>6. CASE StartDispatch
    BY <1>2, <1>3, <1>4, <1>6, EpollWaitStep, DispatchStep, AcceptStep, LeaveStep, ReleaseStep,
       LoopStep, TimerBeatStep, TimerOutStep, ConnectServerStep DEF StartDispatch
  <1> QED
    BY <1>5, <1>6, WorldStep DEF Next
-----------------------------------------------------------------------------
(* The theorems.                                                           *)

\* What the maps' counts say, the sets' cardinalities say.
LEMMA InIsCardinality ==
    ASSUME NEW map, NEW p \in Peers, \A f, g \in Fds : map[f] = p /\ map[g] = p => f = g
    PROVE  Cardinality({fd \in Fds : map[fd] = p}) = In(map, p)
  <1>1. CASE \E fd \in Fds : map[fd] = p
    <2>1. PICK fd \in Fds : map[fd] = p
      BY <1>1
    <2>2. {f \in Fds : map[f] = p} = {fd}
      BY <2>1
    <2> QED
      BY <1>1, <2>2, FS_Singleton DEF In
  <1>2. CASE ~ \E fd \in Fds : map[fd] = p
    <2>1. {f \in Fds : map[f] = p} = {}
      BY <1>2
    <2> QED
      BY <1>2, <2>1, FS_EmptySet DEF In
  <1> QED
    BY <1>1, <1>2

\* Type correctness: among it, that no object ever has more than two references
\* (ref_object.h, EventDispatch.cpp, imconn.cpp).
THEOREM TypeCorrect == Spec => []TypeOK
  <1>1. SocketInv => TypeOK
    BY DEF SocketInv
  <1> QED
    BY InitSocketInv, NextSocketInv, <1>1, PTL DEF Spec

\* The reference counts are exact: each object is deleted with its last use,
\* whatever closes the connection and whoever is inside it (imconn.cpp:16-59,
\* BaseSocket.cpp, EventDispatch.cpp).
THEOREM RefsExactCorrect == Spec => []RefsExact
  <1>1. SocketInv => RefsExact
    <2> SUFFICES ASSUME SocketInv, NEW p \in Peers
                 PROVE  /\ sref[p] = Cardinality({fd \in Fds : sockets[fd] = p})
                                     + IF event.socket = p THEN 1 ELSE 0
                        /\ cref[p] = Cardinality({fd \in Fds : conns[fd] = p})
                                     + (IF InCallback /\ held = p THEN 1 ELSE 0)
                                     + IF link[p] = "failed" THEN 1 ELSE 0
      BY DEF RefsExact
    <2>1. sockets = conns /\ \A f, g \in Fds : conns[f] = p /\ conns[g] = p => f = g
      BY DEF SocketInv, Maps
    <2>2. /\ Cardinality({fd \in Fds : sockets[fd] = p}) = In(sockets, p)
          /\ Cardinality({fd \in Fds : conns[fd] = p}) = In(conns, p)
      BY <2>1, InIsCardinality
    <2> QED
      BY <2>2 DEF SocketInv, Counts
  <1> QED
    BY InitSocketInv, NextSocketInv, <1>1, PTL DEF Spec

\* Nothing that was deleted or erased is touched: the socket of the event, the
\* connection a callback returns through, the one OnTimer is called for, and
\* the node the timer's iterator stands on (imconn.cpp:16-59,
\* EventDispatch.cpp, servConn.cpp, clientConn.cpp:16-26).
THEOREM NothingDanglingCorrect == Spec => []NothingDangling
  <1>1. SocketInv => NothingDangling
    <2> SUFFICES ASSUME SocketInv PROVE NothingDangling
      OBVIOUS
    <2> USE SocketNames DEF SocketInv
    <2>1. \A p \in Peers : In(sockets, p) \in {0, 1} /\ In(conns, p) \in {0, 1}
      BY DEF In
    <2>2. event.socket # NoPeer => sref[event.socket] > 0
      <3>1. SUFFICES ASSUME event.socket # NoPeer PROVE sref[event.socket] > 0
        OBVIOUS
      <3> DEFINE p == event.socket
      <3>2. p \in Peers
        BY <3>1 DEF TypeOK, Events
      <3>3. sref[p] = In(sockets, p) + 1
        BY <3>2 DEF Counts
      <3>4. In(sockets, p) \in {0, 1}
        BY <2>1, <3>2
      <3> QED
        BY <3>3, <3>4
    <2>3. held # NoPeer => cref[held] > 0
      <3>1. SUFFICES ASSUME held # NoPeer PROVE cref[held] > 0
        OBVIOUS
      <3>2. held \in Peers
        BY <3>1 DEF TypeOK
      <3>3. cref[held] = In(conns, held) + (IF InCallback /\ held = held THEN 1 ELSE 0)
                                         + IF link[held] = "failed" THEN 1 ELSE 0
        BY <3>2 DEF Counts
      <3>4. CASE InCallback
        <4>1. cref[held] = In(conns, held) + 1 + IF link[held] = "failed" THEN 1 ELSE 0
          BY <3>3, <3>4
        <4> QED
          BY <2>1, <3>2, <4>1
      <3>5. CASE pc = "onTimer"
        <4>1. PICK fd \in seen : conns[fd] = held
          BY <3>5 DEF Iterator
        <4>2. In(conns, held) = 1 /\ ~InCallback
          BY <3>5, <4>1 DEF In, TypeOK, InCallback
        <4>3. cref[held] = 1 + 0 + IF link[held] = "failed" THEN 1 ELSE 0
          BY <3>3, <4>2
        <4> QED
          BY <4>3
      <3> QED
        BY <3>1, <3>4, <3>5 DEF Iterator
    <2>4. pc = "loop" /\ it # NoFd => conns[it] # NoPeer
      BY DEF Iterator
    <2> QED
      BY <2>2, <2>3, <2>4 DEF NothingDangling
  <1> QED
    BY InitSocketInv, NextSocketInv, <1>1, PTL DEF Spec

\* An event reaches the socket and the connection it happened to, although
\* handlers before it close descriptors and the kernel gives them away again
\* (EventDispatch.cpp, imconn.cpp:16-59).
THEOREM RightfulCorrect == Spec => []Rightful
  <1>1. SocketInv => Rightful
    <2> SUFFICES ASSUME SocketInv PROVE Rightful
      OBVIOUS
    <2>1. NoEvent.socket = NoPeer
      BY DEF NoEvent
    <2> QED
      BY <2>1 DEF SocketInv, Handled, Rightful, InCallback
  <1> QED
    BY InitSocketInv, NextSocketInv, <1>1, PTL DEF Spec
=============================================================================
