-------------------------- MODULE ManagementProofs --------------------------
(***************************************************************************)
(* Proofs about Management, for any number of connections, hosts, calls of *)
(* the page and faults.                                                    *)
(***************************************************************************)
EXTENDS Management, FiniteSetTheorems, TLAPS

-----------------------------------------------------------------------------
(* The invariant.                                                          *)

\* Who asks for nothing is sent nothing.
Quiet(c) == c.request = "none" /\ c.first = "none" /\ c.handled = 0

ClientShape(c) ==
    /\ Quiet(c)
    /\ Len(c.up) \in {0, 1}
    /\ Len(c.up) = 1 => c.up[1] \in {"reg", "report", "done"}

\* The server forgets a page only after the page has gone, and knows it for one
\* when it has read the registration, before the request.  While the page waits,
\* either its request was not read, or it was carried out and answered.
PageShape(c) ==
    /\ c.near = "open" /\ ~c.cut
    /\ IF c.request = "none" THEN Quiet(c) /\ c.far = "gone" ELSE c.far = "open"
    /\ Len(c.up) \in {0, 1, 2}
    /\ Len(c.up) = 2 => c.up[1] = "reg" /\ c.up[2] \in Requests
    /\ Len(c.up) = 1 => c.up[1] \in Requests
    /\ Len(c.up) # 2 => c.ctype = "PHP"
    /\ c.request # "none" =>
        IF Len(c.up) = 0 THEN c.handled = 1 /\ c.first \in {Answer[c.request], "notice"}
        ELSE c.handled = 0 /\ c.first \in {"none", "notice"} /\ c.up[Len(c.up)] = c.request

Shape(c) ==
    /\ c \in Connection
    /\ CASE c.peer = "none" -> c = Free
         [] c.peer = "client" -> ClientShape(c)
         [] c.peer = "page" -> PageShape(c)

ServerTyped ==
    /\ way \in Ways /\ client \in [Hosts -> Clients]
    /\ serving \in BOOLEAN /\ listed \subseteq Ips /\ online \in 0..Cardinality(Conns)
    /\ pages \in 0..MaxPages /\ faults \in 0..MaxFaults

Shapes == conn \in [Conns -> Connection] /\ \A k \in Conns : Shape(conn[k])

ManagementInv == ServerTyped /\ Shapes /\ NoGhosts
-----------------------------------------------------------------------------
(* What becomes of a connection.                                           *)

LEMMA FreeShape ==
    /\ Free \in Connection /\ Free.peer = "none" /\ Free.near = "none" /\ Free.request = "none"
    /\ Free.first = "none" /\ Free.handled = 0 /\ Shape(Free)
  <1>1. (CHOOSE h \in Hosts : TRUE) \in Hosts
    BY ManagementConstants
  <1>2. <<>> \in Seq({"reg", "report", "done"} \cup Requests)
    OBVIOUS
  <1>3. Free \in Connection /\ Free.peer = "none"
    BY <1>1, <1>2 DEF Free, Connection, Requests
  <1>4. Free.near = "none" /\ Free.request = "none" /\ Free.first = "none" /\ Free.handled = 0
    BY DEF Free
  <1> QED
    BY <1>3, <1>4 DEF Shape

\* The server's side of a client's connection stays as it is.
Stays(c, x) ==
    c.peer = "client" /\ c.near = "open" => x.peer = "client" /\ x.near = "open" /\ x.host = c.host

LEMMA LeavesShape ==
    ASSUME NEW c, Shape(c), c.peer = "client"
    PROVE  Shape(Leaves(c)) /\ Stays(c, Leaves(c))
  <1> DEFINE x == [c EXCEPT !.far = "gone"]
  <1>1. c \in Connection /\ ClientShape(c)
    BY DEF Shape
  <1>2. /\ x \in Connection /\ x.peer = "client" /\ x.host = c.host /\ x.near = c.near /\ x.far = "gone"
        /\ x.up = c.up /\ x.request = c.request /\ x.first = c.first /\ x.handled = c.handled
    BY <1>1 DEF Connection
  <1>3. Leaves(c) = Kept(x)
    BY DEF Leaves
  <1> HIDE DEF x
  <1>4. Shape(x)
    BY <1>1, <1>2 DEF Shape, ClientShape, Quiet
  <1> QED
    BY <1>2, <1>3, <1>4, FreeShape DEF Kept, Stays

\* The server closes a connection.
LEMMA ClosedShape ==
    ASSUME NEW c, Shape(c), c.near = "open", c.peer = "page" => c.far = "gone"
    PROVE  Shape(Closed(c))
  <1> DEFINE x == [c EXCEPT !.near = "closed", !.up = <<>>, !.ctype = "none"]
  <1>1. c \in Connection
    BY DEF Shape
  <1>2. /\ x \in Connection /\ x.peer = c.peer /\ x.near = "closed" /\ x.far = c.far
        /\ x.up = <<>> /\ x.request = c.request /\ x.first = c.first /\ x.handled = c.handled
    <2>1. <<>> \in Seq({"reg", "report", "done"} \cup Requests)
      OBVIOUS
    <2> QED
      BY <1>1, <2>1 DEF Connection
  <1>3. Closed(c) = Kept(x)
    BY DEF Closed
  <1> HIDE DEF x
  <1>4. CASE x.far = "gone"
    BY <1>2, <1>3, <1>4, FreeShape DEF Kept
  <1>5. CASE c.peer = "client" /\ x.far # "gone"
    <2>1. Shape(x)
      BY <1>2, <1>5 DEF Shape, ClientShape, Quiet
    <2> QED
      BY <1>3, <1>5, <2>1 DEF Kept
  <1>6. c.peer # "none"
    BY FreeShape DEF Shape
  <1> QED
    BY <1>1, <1>2, <1>4, <1>5, <1>6 DEF Connection

\* Something meant for clients is sent, also to who is not known for a page.
LEMMA NoticeShape ==
    ASSUME NEW c, Shape(c), c.ctype # "PHP"
    PROVE  Shape(Told(c, "notice")) /\ Stays(c, Told(c, "notice"))
  <1>1. CASE c.request # "none" /\ c.first = "none"
    <2> DEFINE x == [c EXCEPT !.first = "notice"]
    <2>1. c \in Connection /\ c.peer = "page" /\ PageShape(c)
      BY <1>1, FreeShape DEF Shape, Connection, ClientShape, Quiet
    <2>2. /\ x \in Connection /\ x.peer = c.peer /\ x.near = c.near /\ x.far = c.far /\ x.cut = c.cut
          /\ x.up = c.up /\ x.request = c.request /\ x.first = "notice" /\ x.handled = c.handled
          /\ x.ctype = c.ctype
      BY <2>1 DEF Connection
    <2>3. Told(c, "notice") = x
      BY <1>1 DEF Told
    <2> HIDE DEF x
    <2>4. Len(c.up) = 2
      BY <2>1 DEF PageShape
    <2>5. PageShape(x)
      BY <1>1, <2>1, <2>2, <2>4 DEF PageShape
    <2> QED
      BY <2>1, <2>2, <2>3, <2>5 DEF Shape, Stays
  <1>2. CASE ~(c.request # "none" /\ c.first = "none")
    BY <1>2 DEF Told, Stays
  <1> QED
    BY <1>1, <1>2

\* The page ends, whether it has read something or not.
LEMMA PageEndsShape ==
    ASSUME NEW c, Shape(c), c.request # "none"
    PROVE  LET x == Leaves([c EXCEPT !.request = "none", !.first = "none", !.handled = 0])
           IN  Shape(x) /\ Stays(c, x) /\ x.first = "none"
  <1> DEFINE y == [c EXCEPT !.request = "none", !.first = "none", !.handled = 0]
             x == [y EXCEPT !.far = "gone"]
  <1>1. c \in Connection /\ c.peer = "page" /\ PageShape(c)
    <2>1. c \in Connection
      BY Zenon DEF Shape
    <2>2. c # Free
      BY FreeShape DEF Free
    <2>3. c.peer # "client"
      BY DEF Shape, ClientShape, Quiet
    <2> QED
      BY <2>1, <2>2, <2>3 DEF Shape, Connection
  <1>2. /\ y \in Connection /\ y.peer = c.peer /\ y.near = c.near /\ y.cut = c.cut
        /\ y.up = c.up /\ y.request = "none" /\ y.first = "none" /\ y.handled = 0
        /\ y.ctype = c.ctype
    BY <1>1 DEF Connection
  <1>3. /\ x \in Connection /\ x.peer = c.peer /\ x.near = c.near /\ x.far = "gone" /\ x.cut = c.cut
        /\ x.up = c.up /\ x.request = "none" /\ x.first = "none" /\ x.handled = 0
        /\ x.ctype = c.ctype
    <2> HIDE DEF y
    <2>1. /\ x \in Connection /\ x.peer = y.peer /\ x.near = y.near /\ x.far = "gone"
          /\ x.cut = y.cut /\ x.up = y.up /\ x.request = y.request /\ x.first = y.first
          /\ x.handled = y.handled /\ x.ctype = y.ctype
      BY <1>2 DEF Connection
    <2> QED
      BY <1>2, <2>1, Zenon
  <1>4. Leaves(y) = Kept(x)
    BY DEF Leaves
  <1> HIDE DEF x, y
  <1>5. PageShape(x)
    BY <1>1, <1>3 DEF PageShape, Quiet
  <1>6. Shape(x) /\ Kept(x) = x
    BY <1>1, <1>3, <1>5 DEF Shape, Kept, PageShape
  <1> QED
    BY <1>1, <1>3, <1>4, <1>6 DEF Stays, y

\* The first of what is under way, and the rest.
LEMMA TakenNext ==
    ASSUME NEW c, Shape(c), c.up # <<>>
    PROVE  /\ c \in Connection /\ c.peer \in {"client", "page"} /\ Len(c.up) \in {1, 2}
           /\ Head(c.up) = c.up[1]
           /\ Tail(c.up) \in Seq({"reg", "report", "done"} \cup Requests)
           /\ Len(Tail(c.up)) = Len(c.up) - 1
           /\ Len(c.up) = 2 => Tail(c.up)[1] = c.up[2]
  <1> DEFINE S == {"reg", "report", "done"} \cup Requests
  <1>1. c \in Connection /\ c.up \in Seq(S)
    BY DEF Shape, Connection
  <1>2. c.peer \in {"client", "page"}
    <2>1. Free.up = <<>>
      BY DEF Free
    <2> QED
      BY <1>1, <2>1 DEF Shape, Connection
  <1> HIDE DEF S
  <1>3. Len(c.up) \in Nat /\ Len(c.up) # 0
    BY <1>1
  <1>4. Len(c.up) \in {0, 1, 2}
    BY <1>2 DEF Shape, ClientShape, PageShape
  <1>5. /\ Head(c.up) = c.up[1] /\ Tail(c.up) \in Seq(S)
        /\ Len(Tail(c.up)) = Len(c.up) - 1
    BY <1>1
  <1>6. Len(c.up) = 2 => Tail(c.up)[1] = c.up[2]
    BY <1>1
  <1> QED
    BY <1>1, <1>2, <1>3, <1>4, <1>5, <1>6 DEF S

\* A request comes from a page that the server knows for one.
LEMMA RequestNext ==
    ASSUME NEW c, Shape(c), c.up # <<>>, Head(c.up) \in Requests
    PROVE  /\ c.peer = "page" /\ PageShape(c) /\ Len(c.up) = 1 /\ c.ctype = "PHP"
           /\ Len(Tail(c.up)) = 0
           /\ c.request # "none" => Head(c.up) = c.request
  <1>1. /\ c.peer \in {"client", "page"} /\ Len(c.up) \in {1, 2} /\ Head(c.up) = c.up[1]
        /\ Len(Tail(c.up)) = Len(c.up) - 1
    BY TakenNext
  <1>2. c.up[1] \notin {"reg", "report", "done"}
    BY <1>1 DEF Requests
  <1>3. c.peer = "page"
    <2>1. SUFFICES ASSUME c.peer = "client" PROVE FALSE
      BY <1>1
    <2>2. ClientShape(c)
      BY <2>1 DEF Shape
    <2>3. Len(c.up) = 1
      BY <1>1, <2>2 DEF ClientShape
    <2> QED
      BY <1>2, <2>2, <2>3 DEF ClientShape
  <1>4. PageShape(c)
    BY <1>3 DEF Shape
  <1>5. Len(c.up) = 1
    BY <1>1, <1>2, <1>4 DEF PageShape
  <1> QED
    BY <1>1, <1>3, <1>4, <1>5 DEF PageShape

\* A request is carried out and answered.
LEMMA AnsweredShape ==
    ASSUME NEW k, NEW c, c = conn[k], Shape(c), c.up # <<>>, Head(c.up) \in Requests
    PROVE  LET x == Told(Executed(k), Answer[Head(c.up)])
           IN  Shape(x) /\ Stays(c, x)
  <1> DEFINE n == IF c.request # "none" THEN c.handled + 1 ELSE c.handled
             y == [c EXCEPT !.up = Tail(@), !.handled = n]
             x == Told(y, Answer[Head(c.up)])
             z == [y EXCEPT !.first = Answer[Head(c.up)]]
  <1>1. /\ c \in Connection /\ c.handled \in Nat /\ Len(Tail(c.up)) = 0
        /\ Tail(c.up) \in Seq({"reg", "report", "done"} \cup Requests)
    BY TakenNext, RequestNext DEF Connection
  <1>2. /\ c.peer = "page" /\ PageShape(c) /\ Len(c.up) = 1 /\ c.ctype = "PHP"
        /\ c.request # "none" => Head(c.up) = c.request
    BY RequestNext
  <1>3. Executed(k) = y
    BY <1>1 DEF Executed, Taken, Waiting, Connection
  <1>4. n \in Nat /\ (c.request # "none" => n = 1) /\ (c.request = "none" => n = 0)
    BY <1>1, <1>2 DEF PageShape, Quiet
  <1>5. Answer[Head(c.up)] \in {"response", "status_info", "client_list"}
    BY DEF Answer, Requests
  <1> HIDE DEF n
  <1>6. /\ y \in Connection /\ y.peer = "page" /\ y.near = c.near /\ y.far = c.far /\ y.cut = c.cut
        /\ Len(y.up) = 0 /\ y.request = c.request /\ y.first = c.first /\ y.handled = n
        /\ y.ctype = c.ctype /\ y.host = c.host
    BY <1>1, <1>2, <1>4 DEF Connection
  <1> HIDE DEF y
  <1>7. /\ z \in Connection /\ z.peer = "page" /\ z.near = c.near /\ z.far = c.far /\ z.cut = c.cut
        /\ Len(z.up) = 0 /\ z.request = c.request /\ z.first = Answer[Head(c.up)]
        /\ z.handled = n /\ z.ctype = c.ctype /\ z.host = c.host
    BY <1>5, <1>6 DEF Connection
  <1> HIDE DEF z
  <1>8. CASE c.request # "none" /\ c.first = "none"
    <2>1. x = z
      BY <1>6, <1>8 DEF Told, z
    <2>2. PageShape(z)
      BY <1>2, <1>4, <1>7, <1>8 DEF PageShape
    <2> QED
      BY <1>2, <1>3, <1>7, <2>1, <2>2 DEF Shape, Stays
  <1>9. CASE c.request # "none" /\ c.first # "none"
    <2>1. x = y
      BY <1>6, <1>9 DEF Told
    <2>2. c.first = "notice"
      BY <1>2, <1>9 DEF PageShape
    <2>3. PageShape(y)
      BY <1>2, <1>4, <1>6, <1>9, <2>2 DEF PageShape
    <2> QED
      BY <1>2, <1>3, <1>6, <2>1, <2>3 DEF Shape, Stays
  <1>10. CASE c.request = "none"
    <2>1. x = y
      BY <1>6, <1>10 DEF Told
    <2>2. PageShape(y)
      BY <1>2, <1>4, <1>6, <1>10 DEF PageShape, Quiet
    <2> QED
      BY <1>2, <1>3, <1>6, <2>1, <2>2 DEF Shape, Stays
  <1> QED
    BY <1>8, <1>9, <1>10

\* A registration is read, or what is taken for one.
LEMMA RegisteredShape ==
    ASSUME NEW k, NEW c, c = conn[k], Shape(c), c.up # <<>>, Head(c.up) \in {"reg", "done"},
           NEW t \in {"CPP", "PHP"},
           Head(c.up) = "reg" => t = IF c.peer = "page" THEN "PHP" ELSE "CPP"
    PROVE  LET x == [Taken(k) EXCEPT !.ctype = t]
           IN  Shape(x) /\ Stays(c, x) /\ x.first = c.first
  <1> DEFINE y == [c EXCEPT !.up = Tail(@)]
             x == [y EXCEPT !.ctype = t]
             u == Tail(c.up)
  <1>1. /\ c \in Connection /\ c.peer \in {"client", "page"} /\ Len(c.up) \in {1, 2}
        /\ Head(c.up) = c.up[1] /\ u \in Seq({"reg", "report", "done"} \cup Requests)
    BY TakenNext
  <1>2. /\ Len(c.up) = 1 => Len(u) = 0
        /\ Len(c.up) = 2 => Len(u) = 1 /\ u[1] = c.up[2]
    BY TakenNext
  <1>3. Taken(k) = y
    BY DEF Taken
  <1> HIDE DEF u
  <1>4. /\ y \in Connection /\ y.peer = c.peer /\ y.near = c.near /\ y.far = c.far /\ y.cut = c.cut
        /\ y.up = u /\ y.request = c.request /\ y.first = c.first /\ y.handled = c.handled
        /\ y.host = c.host
    BY <1>1 DEF Connection, u
  <1> HIDE DEF y
  <1>5. /\ x \in Connection /\ x.peer = c.peer /\ x.near = c.near /\ x.far = c.far /\ x.cut = c.cut
        /\ x.up = u /\ x.request = c.request /\ x.first = c.first /\ x.handled = c.handled
        /\ x.ctype = t /\ x.host = c.host
    BY <1>4 DEF Connection
  <1>6. x = [Taken(k) EXCEPT !.ctype = t]
    BY <1>3
  <1> HIDE DEF x
  <1>7. CASE c.peer = "client"
    <2>1. ClientShape(c)
      BY <1>7 DEF Shape
    <2>2. Len(u) = 0
      BY <1>1, <1>2, <2>1 DEF ClientShape
    <2>3. ClientShape(x)
      BY <1>5, <2>1, <2>2 DEF ClientShape, Quiet
    <2> QED
      BY <1>5, <1>6, <1>7, <2>3 DEF Shape, Stays
  <1>8. CASE c.peer = "page"
    <2>1. PageShape(c)
      BY <1>8 DEF Shape
    <2>2. Len(c.up) = 2 /\ t = "PHP"
      BY <1>1, <1>8, <2>1 DEF PageShape, Requests
    <2>3. Len(u) = 1 /\ u[1] = c.up[2] /\ c.up[2] \in Requests
      BY <1>2, <2>1, <2>2 DEF PageShape
    <2>4. PageShape(x)
      BY <1>5, <2>1, <2>2, <2>3 DEF PageShape, Quiet
    <2> QED
      BY <1>5, <1>6, <1>8, <2>4 DEF Shape, Stays
  <1> QED
    BY <1>1, <1>7, <1>8

\* A report is read: it comes from a client.
LEMMA ReportedShape ==
    ASSUME NEW k, NEW c, c = conn[k], Shape(c), c.up # <<>>, Head(c.up) = "report"
    PROVE  c.peer = "client" /\ Shape(Taken(k)) /\ Stays(c, Taken(k)) /\ Taken(k).first = c.first
  <1> DEFINE x == [c EXCEPT !.up = Tail(@)]
             u == Tail(c.up)
  <1>1. /\ c \in Connection /\ c.peer \in {"client", "page"} /\ Len(c.up) \in {1, 2}
        /\ Head(c.up) = c.up[1] /\ u \in Seq({"reg", "report", "done"} \cup Requests)
    BY TakenNext
  <1>2. Len(c.up) = 1 => Len(u) = 0
    BY TakenNext
  <1> HIDE DEF u
  <1>3. /\ x \in Connection /\ x.peer = c.peer /\ x.near = c.near
        /\ x.up = u /\ x.request = c.request /\ x.first = c.first /\ x.handled = c.handled
        /\ x.host = c.host
    BY <1>1 DEF Connection, u
  <1>4. Taken(k) = x
    BY DEF Taken
  <1> HIDE DEF x
  <1>5. c.peer = "client"
    <2>1. SUFFICES ASSUME c.peer = "page" PROVE FALSE
      BY <1>1
    <2>2. PageShape(c)
      BY <2>1 DEF Shape
    <2> QED
      BY <1>1, <2>2 DEF PageShape, Requests
  <1>6. ClientShape(c)
    BY <1>5 DEF Shape
  <1>7. Len(u) = 0
    BY <1>1, <1>2, <1>6 DEF ClientShape
  <1>8. ClientShape(x)
    BY <1>3, <1>6, <1>7 DEF ClientShape, Quiet
  <1> QED
    BY <1>3, <1>4, <1>5, <1>8 DEF Shape, Stays

-----------------------------------------------------------------------------
(* The steps.                                                              *)

\* A client that reports i, and comes from there, has this connection.
Vouches(c, i) == c.peer = "client" /\ Local(c.host) = i /\ Direct(i)

\* Connections keep their shape, and whoever is listed after the step was
\* listed before, or has a connection, that the step leaves to the server.
LEMMA Stepwise ==
    ASSUME ManagementInv, conn' = [j \in Conns |-> conn'[j]], UNCHANGED <<way, serving>>,
           \A j \in Conns : Shape(conn'[j]),
           \A i \in listed' : \A j \in Conns : Vouches(conn[j], i) => Stays(conn[j], conn'[j]),
           \A i \in listed' : Direct(i) => i \in listed \/ \E j \in Open : Vouches(conn[j], i)
    PROVE  Shapes' /\ NoGhosts'
  <1>1. \A j \in Conns : conn'[j] \in Connection
    BY DEF Shape
  <1>2. Shapes'
    BY <1>1 DEF Shapes
  <1>3. ASSUME serving', NEW i \in listed', Direct(i)'
        PROVE  (\E j \in Open : conn[j].peer = "client" /\ Local(conn[j].host) = i)'
    <2>1. Direct(i)
      BY <1>3 DEF Direct, Local, Remote
    <2>2. PICK j \in Open : Vouches(conn[j], i)
      BY <1>3, <2>1 DEF ManagementInv, NoGhosts, Vouches
    <2>3. j \in Conns /\ conn[j].near = "open"
      BY DEF Open
    <2>4. Stays(conn[j], conn'[j])
      BY <1>3, <2>2, <2>3
    <2>5. conn'[j].peer = "client" /\ conn'[j].near = "open" /\ way'[conn'[j].host].local = i
      BY <2>2, <2>3, <2>4 DEF Stays, Vouches, Local
    <2> QED
      BY <2>3, <2>5 DEF Open, Local
  <1> QED
    BY <1>2, <1>3 DEF NoGhosts

\* A step changes one connection.
LEMMA OneStep ==
    ASSUME ManagementInv, NEW k \in Conns, NEW x, conn' = [conn EXCEPT ![k] = x],
           Shape(x), Stays(conn[k], x), UNCHANGED <<way, serving, listed>>
    PROVE  Shapes' /\ NoGhosts'
  <1>1. /\ conn \in [Conns -> Connection] /\ \A j \in Conns : Shape(conn[j])
    BY DEF ManagementInv, Shapes
  <1>2. /\ conn' = [j \in Conns |-> conn'[j]]
        /\ \A j \in Conns : conn'[j] = IF j = k THEN x ELSE conn[j]
    BY <1>1
  <1>3. \A j \in Conns : Shape(conn'[j]) /\ Stays(conn[j], conn'[j])
    BY <1>1, <1>2 DEF Stays
  <1> QED
    BY <1>2, <1>3, Stepwise

\* A connection is made.
LEMMA MakesStep ==
    ASSUME ManagementInv, NEW k \in Conns, NEW c, Makes(k, c), UNCHANGED <<way, serving, listed>>,
           \A t \in {"CPP", "PHP"} :
                Shape([c EXCEPT !.far = "open", !.near = "open", !.ctype = t])
    PROVE  Shapes' /\ NoGhosts'
  <1>1. PICK t \in {"CPP", "PHP"} :
            conn' = [conn EXCEPT ![k] = [c EXCEPT !.far = "open", !.near = "open", !.ctype = t]]
    BY DEF Makes
  <1>2. conn[k] = Free
    BY DEF Makes, Unused
  <1>3. \A x : Stays(conn[k], x)
    BY <1>2, FreeShape DEF Stays
  <1> QED
    BY <1>1, <1>3, OneStep

\* ... by a client, or by a page.
LEMMA ConnectStep ==
    ASSUME ManagementInv, NEW k \in Conns, NEW h \in Hosts, Connect(h, k)
    PROVE  ManagementInv'
  <1> DEFINE c == [Free EXCEPT !.peer = "client", !.host = h, !.up = <<"reg">>]
  <1>1. ASSUME NEW t \in {"CPP", "PHP"}
        PROVE  Shape([c EXCEPT !.far = "open", !.near = "open", !.ctype = t])
    <2> DEFINE x == [c EXCEPT !.far = "open", !.near = "open", !.ctype = t]
    <2>1. <<"reg">> \in Seq({"reg", "report", "done"} \cup Requests)
      OBVIOUS
    <2>2. /\ c \in Connection /\ c.peer = "client" /\ c.up = <<"reg">>
          /\ c.request = "none" /\ c.first = "none" /\ c.handled = 0
      BY <2>1, FreeShape DEF Connection
    <2> HIDE DEF c
    <2>3. /\ x \in Connection /\ x.peer = "client" /\ x.up = <<"reg">>
          /\ x.request = "none" /\ x.first = "none" /\ x.handled = 0
      BY <2>2 DEF Connection
    <2> HIDE DEF x
    <2>4. ClientShape(x)
      BY <2>3 DEF ClientShape, Quiet
    <2> QED
      BY <2>3, <2>4 DEF Shape, x
  <1> HIDE DEF c
  <1>2. Makes(k, c) /\ UNCHANGED <<way, serving, listed, online, pages, faults>>
    BY DEF Connect, c, server, bounds
  <1>3. Shapes' /\ NoGhosts'
    BY <1>1, <1>2, MakesStep
  <1>4. client' \in [Hosts -> Clients]
    BY DEF Connect, ManagementInv, ServerTyped, Clients
  <1> QED
    BY <1>2, <1>3, <1>4 DEF ManagementInv, ServerTyped

LEMMA ConnectFailsStep ==
    ASSUME ManagementInv, NEW h \in Hosts, ConnectFails(h)
    PROVE  ManagementInv'
  <1>1. UNCHANGED <<way, conn, serving, listed, online, pages>>
    BY DEF ConnectFails, server
  <1>2. client' \in [Hosts -> Clients] /\ faults' \in 0..MaxFaults
    BY ManagementConstants DEF ConnectFails, ManagementInv, ServerTyped, Clients
  <1>3. Shapes' /\ NoGhosts'
    BY <1>1 DEF ManagementInv, Shapes, NoGhosts, Open, Direct, Local, Remote
  <1> QED
    BY <1>1, <1>2, <1>3 DEF ManagementInv, ServerTyped

LEMMA AskStep ==
    ASSUME ManagementInv, NEW k \in Conns, NEW h \in Hosts, NEW r \in Requests, Ask(k, h, r)
    PROVE  ManagementInv'
  <1> DEFINE c == [Free EXCEPT !.peer = "page", !.host = h, !.up = <<"reg", r>>, !.request = r]
  <1>1. ASSUME NEW t \in {"CPP", "PHP"}
        PROVE  Shape([c EXCEPT !.far = "open", !.near = "open", !.ctype = t])
    <2> DEFINE x == [c EXCEPT !.far = "open", !.near = "open", !.ctype = t]
    <2>1. /\ <<"reg", r>> \in Seq({"reg", "report", "done"} \cup Requests)
          /\ Len(<<"reg", r>>) = 2 /\ <<"reg", r>>[1] = "reg" /\ <<"reg", r>>[2] = r
      OBVIOUS
    <2>2. Free.cut = FALSE
      BY DEF Free
    <2>3. /\ c \in Connection /\ c.peer = "page" /\ c.up = <<"reg", r>> /\ ~c.cut
          /\ c.request = r /\ c.first = "none" /\ c.handled = 0
      BY <2>1, <2>2, FreeShape DEF Connection
    <2> HIDE DEF c
    <2>4. /\ x \in Connection /\ x.peer = "page" /\ x.up = <<"reg", r>> /\ ~x.cut
          /\ x.request = r /\ x.first = "none" /\ x.handled = 0
          /\ x.far = "open" /\ x.near = "open"
      BY <2>3 DEF Connection
    <2> HIDE DEF x
    <2>5. r # "none"
      BY DEF Requests
    <2>6. PageShape(x)
      BY <2>1, <2>4, <2>5 DEF PageShape
    <2> QED
      BY <2>4, <2>6 DEF Shape, x
  <1> HIDE DEF c
  <1>2. Makes(k, c) /\ UNCHANGED <<way, client, serving, listed, online, faults>>
    BY DEF Ask, c, server
  <1>3. Shapes' /\ NoGhosts'
    BY <1>1, <1>2, MakesStep
  <1>4. pages' \in 0..MaxPages
    BY ManagementConstants DEF Ask, ManagementInv, ServerTyped
  <1> QED
    BY <1>2, <1>3, <1>4 DEF ManagementInv, ServerTyped

\* A client sends something.
LEMMA SendsStep ==
    ASSUME ManagementInv, NEW h, NEW k, NEW pdu \in {"report", "done"}, Sends(h, k, pdu),
           UNCHANGED <<way, serving, listed>>
    PROVE  Shapes' /\ NoGhosts'
  <1> DEFINE u == IF conn[k].cut \/ k \notin Open THEN <<>> ELSE <<pdu>>
             x == [conn[k] EXCEPT !.up = u]
  <1>1. /\ k \in Conns /\ conn[k].peer = "client"
        /\ conn' = [conn EXCEPT ![k].up = u]
    BY DEF Sends, Of
  <1>2. /\ conn \in [Conns -> Connection] /\ conn[k] \in Connection /\ ClientShape(conn[k])
    BY <1>1 DEF ManagementInv, Shapes, Shape
  <1>3. /\ u \in Seq({"reg", "report", "done"} \cup Requests)
        /\ Len(u) \in {0, 1} /\ (Len(u) = 1 => u[1] = pdu)
    <2>1. /\ <<>> \in Seq({"reg", "report", "done"} \cup Requests) /\ Len(<<>>) = 0
          /\ <<pdu>> \in Seq({"reg", "report", "done"} \cup Requests)
          /\ Len(<<pdu>>) = 1 /\ <<pdu>>[1] = pdu
      OBVIOUS
    <2>2. u = <<>> \/ u = <<pdu>>
      OBVIOUS
    <2> HIDE DEF u
    <2>3. CASE u = <<>>
      BY <2>1, <2>3
    <2>4. CASE u = <<pdu>>
      BY <2>1, <2>4
    <2> QED
      BY <2>2, <2>3, <2>4
  <1> HIDE DEF u
  <1>4. conn' = [conn EXCEPT ![k] = x]
    BY <1>1, <1>2
  <1>5. /\ x \in Connection /\ x.peer = "client" /\ x.near = conn[k].near /\ x.host = conn[k].host
        /\ x.up = u /\ x.request = conn[k].request /\ x.first = conn[k].first
        /\ x.handled = conn[k].handled
    BY <1>1, <1>2, <1>3 DEF Connection
  <1> HIDE DEF x
  <1>6. Shape(x)
    BY <1>2, <1>3, <1>5 DEF Shape, ClientShape, Quiet
  <1>7. Stays(conn[k], x)
    BY <1>5 DEF Stays
  <1> QED
    BY <1>1, <1>4, <1>6, <1>7, OneStep

LEMMA ReportStep ==
    ASSUME ManagementInv, NEW h, NEW k, Report(h, k) \/ Done(h, k)
    PROVE  ManagementInv'
  <1>1. PICK pdu \in {"report", "done"} :
            Sends(h, k, pdu) /\ UNCHANGED <<way, client, serving, listed, online, pages>>
    BY DEF Report, Done, server, bounds
  <1>2. Shapes' /\ NoGhosts'
    BY <1>1, SendsStep
  <1>3. faults' \in 0..MaxFaults
    BY ManagementConstants DEF Report, Done, bounds, ManagementInv, ServerTyped
  <1> QED
    BY <1>1, <1>2, <1>3 DEF ManagementInv, ServerTyped

\* A client gives its connection up, or ends.
LEMMA TimeoutStep ==
    ASSUME ManagementInv, NEW h \in Hosts, NEW k, ClientTimeout(h, k) \/ Reset(h, k)
    PROVE  ManagementInv'
  <1>1. k \in Conns /\ conn[k].peer = "client"
    BY DEF ClientTimeout, Reset, Of
  <1>2. /\ conn' = [conn EXCEPT ![k] = Leaves(conn[k])]
        /\ UNCHANGED <<way, serving, listed, online, pages>>
    BY DEF ClientTimeout, Reset, server, bounds
  <1>3. client' \in [Hosts -> Clients]
    BY DEF ClientTimeout, Reset, ManagementInv, ServerTyped, Clients
  <1>4. faults' \in 0..MaxFaults
    BY ManagementConstants DEF ClientTimeout, Reset, bounds, ManagementInv, ServerTyped
  <1>5. Shape(conn[k])
    BY <1>1 DEF ManagementInv, Shapes
  <1>6. Shape(Leaves(conn[k])) /\ Stays(conn[k], Leaves(conn[k]))
    BY <1>1, <1>5, LeavesShape
  <1>7. Shapes' /\ NoGhosts'
    BY <1>1, <1>2, <1>6, OneStep
  <1> QED
    BY <1>2, <1>3, <1>4, <1>7 DEF ManagementInv, ServerTyped

LEMMA LeaveStep ==
    ASSUME ManagementInv, NEW h \in Hosts, Leave(h)
    PROVE  ManagementInv'
  <1>1. /\ conn' = [k \in Conns |-> IF k \in Of(h) THEN Leaves(conn[k]) ELSE conn[k]]
        /\ UNCHANGED <<way, serving, listed, online, pages>>
    BY DEF Leave, server
  <1>2. /\ conn' = [k \in Conns |-> conn'[k]]
        /\ \A k \in Conns : conn'[k] = IF k \in Of(h) THEN Leaves(conn[k]) ELSE conn[k]
    BY <1>1
  <1>3. ASSUME NEW k \in Conns
        PROVE  Shape(conn'[k]) /\ Stays(conn[k], conn'[k])
    <2>1. Shape(conn[k])
      BY DEF ManagementInv, Shapes
    <2>2. CASE k \in Of(h)
      BY <1>2, <2>1, <2>2, LeavesShape DEF Of
    <2>3. CASE k \notin Of(h)
      BY <1>2, <2>1, <2>3 DEF Stays
    <2> QED
      BY <2>2, <2>3
  <1>4. Shapes' /\ NoGhosts'
    BY <1>1, <1>2, <1>3, Stepwise
  <1>5. client' \in [Hosts -> Clients] /\ faults' \in 0..MaxFaults
    BY ManagementConstants DEF Leave, ManagementInv, ServerTyped, Clients
  <1> QED
    BY <1>1, <1>4, <1>5 DEF ManagementInv, ServerTyped

\* A client's connection is cut.
LEMMA CutStep ==
    ASSUME ManagementInv, NEW k \in Conns, Cut(k)
    PROVE  ManagementInv'
  <1>1. PICK n \in 0..Len(conn[k].up) :
            conn' = [conn EXCEPT ![k].cut = TRUE, ![k].up = SubSeq(@, 1, n)]
    BY DEF Cut
  <1> DEFINE u == SubSeq(conn[k].up, 1, n)
             x == [conn[k] EXCEPT !.cut = TRUE, !.up = u]
  <1>2. /\ conn[k].peer = "client" /\ conn \in [Conns -> Connection] /\ conn[k] \in Connection
        /\ ClientShape(conn[k])
    BY DEF Cut, ManagementInv, Shapes, Shape
  <1>3. /\ u \in Seq({"reg", "report", "done"} \cup Requests)
        /\ Len(u) \in {0, 1} /\ (Len(u) = 1 => u[1] \in {"reg", "report", "done"})
    <2> DEFINE v == conn[k].up
    <2>1. v \in Seq({"reg", "report", "done"} \cup Requests)
      BY <1>2 DEF Connection
    <2>2. Len(v) \in {0, 1} /\ (Len(v) = 1 => v[1] \in {"reg", "report", "done"})
      BY <1>2 DEF ClientShape
    <2>3. n \in 0..Len(v)
      OBVIOUS
    <2> HIDE DEF v
    <2>4. CASE n = 0
      <3>1. SubSeq(v, 1, n) = <<>>
        BY <2>1, <2>4
      <3>2. u = <<>>
        BY <3>1 DEF u, v
      <3>3. <<>> \in Seq({"reg", "report", "done"} \cup Requests) /\ Len(<<>>) = 0
        OBVIOUS
      <3> HIDE DEF u
      <3> QED
        BY <3>2, <3>3
    <2>5. CASE n = 1
      <3>1. Len(v) = 1
        BY <2>2, <2>3, <2>5
      <3>2. /\ SubSeq(v, 1, n) \in Seq({"reg", "report", "done"} \cup Requests)
            /\ Len(SubSeq(v, 1, n)) = 1 /\ SubSeq(v, 1, n)[1] = v[1]
        BY <2>1, <2>5, <3>1
      <3>3. u = SubSeq(v, 1, n)
        BY DEF u, v
      <3> HIDE DEF u
      <3> QED
        BY <2>2, <3>1, <3>2, <3>3
    <2>6. n = 0 \/ n = 1
      <3>1. Len(v) = 0 \/ Len(v) = 1
        BY <2>2
      <3>2. n \in 0..0 \/ n \in 0..1
        BY <2>3, <3>1
      <3> QED
        BY <3>2
    <2> HIDE DEF u
    <2> QED
      BY <2>4, <2>5, <2>6
  <1> HIDE DEF u
  <1>4. conn' = [conn EXCEPT ![k] = x]
    BY <1>1, <1>2 DEF u
  <1>5. /\ x \in Connection /\ x.peer = "client" /\ x.near = conn[k].near /\ x.host = conn[k].host
        /\ x.up = u /\ x.request = conn[k].request /\ x.first = conn[k].first
        /\ x.handled = conn[k].handled
    BY <1>2, <1>3 DEF Connection
  <1> HIDE DEF x
  <1>6. Shape(x) /\ Stays(conn[k], x)
    BY <1>2, <1>3, <1>5 DEF Shape, ClientShape, Quiet, Stays
  <1>7. UNCHANGED <<way, client, serving, listed, online, pages>>
    BY DEF Cut, server
  <1>8. Shapes' /\ NoGhosts'
    BY <1>4, <1>6, <1>7, OneStep
  <1>9. faults' \in 0..MaxFaults
    BY ManagementConstants DEF Cut, ManagementInv, ServerTyped
  <1> QED
    BY <1>7, <1>8, <1>9 DEF ManagementInv, ServerTyped

\* The page ends.
LEMMA PageStep ==
    ASSUME ManagementInv, NEW k \in Conns, PageReads(k) \/ PageGivesUp(k)
    PROVE  ManagementInv' /\ conn'[k].first = "none"
  <1> DEFINE x == Leaves([conn[k] EXCEPT !.request = "none", !.first = "none", !.handled = 0])
  <1>1. /\ Waiting(k) /\ conn' = [conn EXCEPT ![k] = x]
        /\ UNCHANGED <<way, client, serving, listed, online, pages, faults>>
    BY DEF PageReads, PageGivesUp, PageEnds, server, bounds
  <1>2. conn \in [Conns -> Connection] /\ Shape(conn[k])
    BY DEF ManagementInv, Shapes
  <1>3. Shape(x) /\ Stays(conn[k], x) /\ x.first = "none"
    BY <1>1, <1>2, PageEndsShape DEF Waiting
  <1> HIDE DEF x
  <1>4. Shapes' /\ NoGhosts'
    BY <1>1, <1>3, OneStep
  <1> QED
    BY <1>1, <1>2, <1>3, <1>4 DEF ManagementInv, ServerTyped

\* The server closes connections that are gone or cut, and sends heartbeats.
LEMMA ClosesStep ==
    ASSUME ManagementInv, NEW closing, closing \subseteq Open, NEW beats, beats \subseteq NotPages,
           \A k \in closing : conn[k].cut \/ conn[k].far = "gone",
           Closes(closing, beats), UNCHANGED <<way, serving>>
    PROVE  Shapes' /\ NoGhosts' /\ listed' \subseteq Ips
  <1>1. /\ conn' = [k \in Conns |-> conn'[k]]
        /\ \A k \in Conns : conn'[k] = IF k \in closing THEN Closed(conn[k])
                                       ELSE IF k \in beats THEN Told(conn[k], "notice") ELSE conn[k]
    BY DEF Closes
  <1>2. listed' = listed \ {Remote(conn[k].host) : k \in closing}
    BY DEF Closes, removeClientStauts
  <1>3. ASSUME NEW k \in Conns
        PROVE  /\ Shape(conn'[k])
               /\ \A i \in listed' : Vouches(conn[k], i) => Stays(conn[k], conn'[k])
    <2>1. Shape(conn[k])
      BY DEF ManagementInv, Shapes
    <2>2. CASE k \in closing
      <3>1. conn[k].peer = "page" => conn[k].far = "gone"
        BY <2>1, <2>2 DEF Shape, PageShape
      <3>2. conn[k].near = "open"
        BY <2>2 DEF Open
      <3>3. conn[k].host \in Hosts
        BY <2>1 DEF Shape, Connection
      <3>4. ASSUME NEW i, Vouches(conn[k], i)
            PROVE  i = Remote(conn[k].host)
        BY <3>3, <3>4 DEF Vouches, Direct
      <3>5. ASSUME NEW i \in listed', Vouches(conn[k], i)
            PROVE  FALSE
        BY <1>2, <2>2, <3>4, <3>5
      <3> QED
        BY <1>1, <2>1, <2>2, <3>1, <3>2, <3>5, ClosedShape
    <2>3. CASE k \notin closing /\ k \in beats
      <3>1. conn[k].ctype # "PHP"
        BY <2>3 DEF NotPages
      <3> QED
        BY <1>1, <2>1, <2>3, <3>1, NoticeShape
    <2>4. CASE k \notin closing /\ k \notin beats
      BY <1>1, <2>1, <2>4 DEF Stays
    <2> QED
      BY <2>2, <2>3, <2>4
  <1>4. Shapes' /\ NoGhosts'
    BY <1>1, <1>2, <1>3, Stepwise
  <1> QED
    BY <1>2, <1>4 DEF ManagementInv, ServerTyped

LEMMA OnCloseStep ==
    ASSUME ManagementInv, NEW k \in Conns, OnClose(k)
    PROVE  ManagementInv'
  <1>1. /\ {k} \subseteq Open /\ conn[k].far = "gone" /\ Closes({k}, {})
        /\ UNCHANGED <<way, client, serving, online, pages, faults>>
    BY DEF OnClose, bounds
  <1>2. Shapes' /\ NoGhosts' /\ listed' \subseteq Ips
    BY <1>1, ClosesStep
  <1> QED
    BY <1>1, <1>2 DEF ManagementInv, ServerTyped

LEMMA TimerStep ==
    ASSUME ManagementInv, NEW late \in SUBSET Silent, NEW beats \in SUBSET Beaten, Timer(late, beats)
    PROVE  ManagementInv'
  <1>1. /\ Closes(late, beats) /\ online' = Cardinality(NotPages \ late)
        /\ UNCHANGED <<way, client, serving, pages, faults>>
    BY DEF Timer, bounds
  <1>2. /\ late \subseteq Open /\ beats \subseteq NotPages
        /\ \A k \in late : conn[k].cut \/ conn[k].far = "gone"
    BY DEF Silent, Beaten, NotPages
  <1>3. Shapes' /\ NoGhosts' /\ listed' \subseteq Ips
    BY <1>1, <1>2, ClosesStep
  <1>4. online' \in 0..Cardinality(Conns)
    <2>1. NotPages \ late \subseteq Conns /\ IsFiniteSet(Conns)
      BY ManagementConstants DEF NotPages, Open
    <2>2. /\ Cardinality(NotPages \ late) <= Cardinality(Conns)
          /\ Cardinality(NotPages \ late) \in Nat /\ Cardinality(Conns) \in Nat
      BY <2>1, FS_Subset, FS_CardinalityType
    <2> QED
      BY <1>1, <2>2
  <1> QED
    BY <1>1, <1>3, <1>4 DEF ManagementInv, ServerTyped

\* The server handles a PDU.
LEMMA HandleRegStep ==
    ASSUME ManagementInv, NEW k \in Conns, HandleReg(k)
    PROVE  ManagementInv' /\ conn'[k].first = conn[k].first
  <1>1. PICK t \in {"CPP", "PHP"} :
            /\ Head(conn[k].up) = "reg" => t = IF conn[k].peer = "page" THEN "PHP" ELSE "CPP"
            /\ conn' = [conn EXCEPT ![k] = [Taken(k) EXCEPT !.ctype = t]]
    BY DEF HandleReg
  <1> DEFINE x == [Taken(k) EXCEPT !.ctype = t]
  <1>2. conn[k].up # <<>> /\ Head(conn[k].up) \in {"reg", "done"}
    BY DEF HandleReg, NextIs
  <1>3. conn \in [Conns -> Connection] /\ Shape(conn[k])
    BY DEF ManagementInv, Shapes
  <1>4. Shape(x) /\ Stays(conn[k], x) /\ x.first = conn[k].first
    BY <1>1, <1>2, <1>3, RegisteredShape
  <1>5. conn' = [conn EXCEPT ![k] = x]
    BY <1>1
  <1> HIDE DEF x
  <1>6. UNCHANGED <<way, client, serving, listed, online, pages, faults>>
    BY DEF HandleReg, server, bounds
  <1>7. Shapes' /\ NoGhosts'
    BY <1>4, <1>5, <1>6, OneStep
  <1> QED
    BY <1>3, <1>4, <1>5, <1>6, <1>7 DEF ManagementInv, ServerTyped

LEMMA HandleReportStep ==
    ASSUME ManagementInv, NEW k \in Conns, HandleReport(k)
    PROVE  ManagementInv' /\ conn[k].peer = "client"
  <1>1. /\ conn' = [conn EXCEPT ![k] = Taken(k)] /\ listed' = listed \cup {Local(conn[k].host)}
        /\ UNCHANGED <<way, client, serving, online, pages, faults>>
    BY DEF HandleReport, UpdateClientStatus, bounds
  <1>2. k \in Open /\ conn[k].up # <<>> /\ Head(conn[k].up) = "report"
    BY DEF HandleReport, NextIs
  <1>3. conn \in [Conns -> Connection] /\ \A j \in Conns : Shape(conn[j])
    BY DEF ManagementInv, Shapes
  <1>4. conn[k].peer = "client" /\ Shape(Taken(k)) /\ Stays(conn[k], Taken(k))
    BY <1>2, <1>3, ReportedShape
  <1>5. /\ conn' = [j \in Conns |-> conn'[j]]
        /\ \A j \in Conns : conn'[j] = IF j = k THEN Taken(k) ELSE conn[j]
    BY <1>1, <1>3
  <1>6. \A j \in Conns : Shape(conn'[j]) /\ Stays(conn[j], conn'[j])
    BY <1>3, <1>4, <1>5 DEF Stays
  <1>7. \A i \in listed' : Direct(i) => i \in listed \/ \E j \in Open : Vouches(conn[j], i)
    BY <1>1, <1>2, <1>4 DEF Vouches
  <1>8. Shapes' /\ NoGhosts'
    BY <1>1, <1>5, <1>6, <1>7, Stepwise
  <1>9. Local(conn[k].host) \in Ips
    <2>1. conn[k].host \in Hosts /\ way \in [Hosts -> [local : Ips, remote : Ips]]
      BY <1>3, ManagementConstants DEF Connection, ManagementInv, ServerTyped
    <2> QED
      BY <2>1 DEF Local
  <1> QED
    BY <1>1, <1>4, <1>8, <1>9 DEF ManagementInv, ServerTyped

\* The one that asks is known for a page, and gets the response only.
LEMMA BroadcastEach ==
    ASSUME ManagementInv, NEW k \in Conns, NextIs(k, {"order"})
    PROVE  /\ Broadcast(k, Executed(k)) = [j \in Conns |-> Broadcast(k, Executed(k))[j]]
           /\ \A j \in Conns : Broadcast(k, Executed(k))[j] =
                IF j = k THEN Told(Executed(k), Answer[Head(conn[k].up)])
                ELSE IF j \in NotPages THEN Told(conn[j], "notice") ELSE conn[j]
  <1>1. conn[k].up # <<>> /\ Head(conn[k].up) \in {"order"}
    BY DEF NextIs
  <1>2. Head(conn[k].up) \in Requests /\ Answer[Head(conn[k].up)] = "response"
    BY <1>1 DEF Requests, Answer
  <1>3. Shape(conn[k])
    BY DEF ManagementInv, Shapes
  <1>4. k \notin NotPages
    BY <1>1, <1>2, <1>3, RequestNext DEF NotPages
  <1> QED
    BY <1>2, <1>4 DEF Broadcast

LEMMA HandleCommandStep ==
    ASSUME ManagementInv, NEW k \in Conns, HandleCommand(k)
    PROVE  ManagementInv'
  <1>1. UNCHANGED <<way, client, listed, online, pages, faults>>
    BY DEF HandleCommand, bounds
  <1>2. conn[k].up # <<>> /\ Head(conn[k].up) \in Requests
    BY DEF HandleCommand, NextIs, Requests
  <1>3. conn \in [Conns -> Connection] /\ \A j \in Conns : Shape(conn[j])
    BY DEF ManagementInv, Shapes
  <1>4. CASE conn' = Broadcast(k, Executed(k)) /\ UNCHANGED serving
    <2>1. /\ conn' = [j \in Conns |-> conn'[j]]
          /\ \A j \in Conns : conn'[j] =
                IF j = k THEN Told(Executed(k), Answer[Head(conn[k].up)])
                ELSE IF j \in NotPages THEN Told(conn[j], "notice") ELSE conn[j]
      BY <1>4, BroadcastEach DEF HandleCommand
    <2>2. ASSUME NEW j \in Conns
          PROVE  Shape(conn'[j]) /\ Stays(conn[j], conn'[j])
      <3>1. CASE j = k
        BY <1>2, <1>3, <2>1, <3>1, AnsweredShape
      <3>2. CASE j # k /\ j \in NotPages
        BY <1>3, <2>1, <3>2, NoticeShape DEF NotPages
      <3>3. CASE j # k /\ j \notin NotPages
        BY <1>3, <2>1, <3>3 DEF Stays
      <3> QED
        BY <3>1, <3>2, <3>3
    <2>3. Shapes' /\ NoGhosts'
      BY <1>1, <1>4, <2>1, <2>2, Stepwise
    <2> QED
      BY <1>1, <1>4, <2>3 DEF ManagementInv, ServerTyped
  <1>5. CASE Aborts
    <2>1. serving' = FALSE /\ conn' = [j \in Conns |-> Free]
      BY <1>5 DEF Aborts
    <2>2. Shapes' /\ NoGhosts'
      BY <2>1, FreeShape DEF Shapes, NoGhosts
    <2> QED
      BY <1>1, <2>1, <2>2 DEF ManagementInv, ServerTyped
  <1> QED
    BY <1>4, <1>5 DEF HandleCommand

LEMMA HandleQueryStep ==
    ASSUME ManagementInv, NEW k \in Conns, HandleQuery(k)
    PROVE  ManagementInv'
  <1> DEFINE x == Told(Executed(k), Answer[Head(conn[k].up)])
  <1>1. /\ conn' = [conn EXCEPT ![k] = x]
        /\ UNCHANGED <<way, client, serving, listed, online, pages, faults>>
    BY DEF HandleQuery, server, bounds
  <1>2. conn[k].up # <<>> /\ Head(conn[k].up) \in Requests
    BY DEF HandleQuery, NextIs, Requests
  <1>3. Shape(conn[k])
    BY DEF ManagementInv, Shapes
  <1>4. Shape(x) /\ Stays(conn[k], x)
    BY <1>2, <1>3, AnsweredShape
  <1> HIDE DEF x
  <1>5. Shapes' /\ NoGhosts'
    BY <1>1, <1>4, OneStep
  <1> QED
    BY <1>1, <1>5 DEF ManagementInv, ServerTyped

LEMMA HandlePduStep ==
    ASSUME ManagementInv, NEW k \in Conns, HandlePdu(k)
    PROVE  ManagementInv'
  BY HandleRegStep, HandleReportStep, HandleCommandStep, HandleQueryStep DEF HandlePdu

-----------------------------------------------------------------------------
(* The invariant holds.                                                    *)

LEMMA InitManagementInv == Init => ManagementInv
  <1> SUFFICES ASSUME Init PROVE ManagementInv
    OBVIOUS
  <1>1. Cardinality(Conns) \in Nat
    BY ManagementConstants, FS_CardinalityType
  <1>2. ServerTyped
    BY <1>1, ManagementConstants DEF Init, ServerTyped, Clients
  <1>3. Shapes
    BY FreeShape DEF Init, Shapes
  <1>4. NoGhosts
    BY DEF Init, NoGhosts
  <1> QED
    BY <1>2, <1>3, <1>4 DEF ManagementInv

LEMMA NextManagementInv == ManagementInv /\ [Next]_vars => ManagementInv'
  <1> SUFFICES ASSUME ManagementInv, [Next]_vars PROVE ManagementInv'
    OBVIOUS
  <1>1. ASSUME NEW k \in Conns, NEW h \in Hosts,
               \/ Connect(h, k) \/ Report(h, k) \/ Done(h, k)
               \/ ClientTimeout(h, k) \/ Reset(h, k)
        PROVE  ManagementInv'
    BY <1>1, ConnectStep, ReportStep, TimeoutStep
  <1>2. ASSUME NEW k \in Conns, NEW h \in Hosts, NEW r \in Requests, Ask(k, h, r)
        PROVE  ManagementInv'
    BY <1>2, AskStep
  <1>3. ASSUME NEW k \in Conns, Cut(k) \/ PageReads(k) \/ PageGivesUp(k)
        PROVE  ManagementInv'
    BY <1>3, CutStep, PageStep
  <1>4. ASSUME NEW k \in Conns, OnClose(k) \/ HandlePdu(k)
        PROVE  ManagementInv'
    BY <1>4, OnCloseStep, HandlePduStep
  <1>5. ASSUME NEW h \in Hosts, ConnectFails(h) \/ Leave(h)
        PROVE  ManagementInv'
    BY <1>5, ConnectFailsStep, LeaveStep
  <1>6. ASSUME NEW late \in SUBSET Silent, NEW beats \in SUBSET Beaten, Timer(late, beats)
        PROVE  ManagementInv'
    BY <1>6, TimerStep
  <1>7. CASE UNCHANGED vars
    BY <1>7 DEF vars, server, bounds, ManagementInv, ServerTyped, Shapes, NoGhosts, Open,
                Direct, Local, Remote
  <1> QED
    BY <1>1, <1>2, <1>3, <1>4, <1>5, <1>6, <1>7 DEF Next

LEMMA ManagementInvHolds == Spec => []ManagementInv
  BY InitManagementInv, NextManagementInv, PTL DEF Spec

LEMMA InvTypeOK == ManagementInv => TypeOK
  <1> SUFFICES ASSUME ManagementInv PROVE TypeOK
    OBVIOUS
  <1>1. ASSUME NEW k \in Conns
        PROVE  conn[k].handled <= 1
    <2>1. Shape(conn[k])
      BY DEF ManagementInv, Shapes
    <2>2. conn[k].handled = 0 \/ conn[k].handled = 1
      BY <2>1, FreeShape DEF Shape, Connection, ClientShape, PageShape, Quiet
    <2> QED
      BY <2>2
  <1> QED
    BY <1>1 DEF ManagementInv, ServerTyped, Shapes, TypeOK

LEMMA InvPageTruthful == ManagementInv => PageTruthful
  <1> SUFFICES ASSUME ManagementInv, NEW k \in Conns, Waiting(k), conn[k].first # "none"
               PROVE  LET said == Reports(conn[k].request, conn[k].first) IN
                      /\ "success" \in said =>
                            \/ conn[k].handled = 1
                            \/ conn[k].request = "list" /\ conn[k].first = "notice"
                      /\ "error" \in said => conn[k].first = "notice"
    BY DEF PageTruthful
  <1>1. Shape(conn[k])
    BY DEF ManagementInv, Shapes
  <1>2. conn[k].request \in Requests /\ PageShape(conn[k])
    BY <1>1, FreeShape DEF Waiting, Shape, Connection, ClientShape, Quiet
  <1>3. conn[k].first = Answer[conn[k].request] \/ conn[k].first = "notice"
    BY <1>2 DEF Waiting, PageShape
  <1>4. CASE conn[k].first = Answer[conn[k].request]
    <2>1. conn[k].first # "notice"
      BY <1>2, <1>4 DEF Answer, Requests
    <2>2. conn[k].handled = 1
      BY <1>2, <2>1 DEF Waiting, PageShape
    <2> QED
      BY <1>4, <2>2 DEF Reports
  <1>5. CASE conn[k].first = "notice" /\ conn[k].first # Answer[conn[k].request]
    BY <1>5 DEF Reports
  <1> QED
    BY <1>3, <1>4, <1>5

-----------------------------------------------------------------------------
(* What is sent to a page first.                                           *)

\* A page whose registration was read and to which nothing was sent.
Known(k) == Waiting(k) /\ Len(conn[k].up) < 2 /\ conn[k].first = "none"

LEMMA KnownShape ==
    ASSUME ManagementInv, NEW k \in Conns, Known(k)
    PROVE  /\ conn[k] \in Connection /\ conn[k].peer = "page" /\ conn[k].far = "open" /\ ~conn[k].cut
           /\ conn[k].ctype = "PHP" /\ k \notin NotPages /\ conn[k] # Free
           /\ conn[k].request \in Requests
  <1>1. Shape(conn[k])
    BY DEF ManagementInv, Shapes
  <1>2. /\ conn[k] \in Connection /\ conn[k].request \in Requests /\ PageShape(conn[k])
        /\ conn[k].peer = "page" /\ conn[k].request # "none" /\ conn[k] # Free
    BY <1>1, FreeShape DEF Known, Waiting, Shape, Connection, ClientShape, Quiet
  <1>3. Len(conn[k].up) # 2
    <2> DEFINE n == Len(conn[k].up)
    <2>1. n < 2
      BY DEF Known
    <2> HIDE DEF n
    <2>2. n # 2
      BY <2>1
    <2> QED
      BY <2>2 DEF n
  <1>4. conn[k].far = "open" /\ ~conn[k].cut /\ conn[k].ctype = "PHP"
    BY <1>2, <1>3 DEF PageShape
  <1> QED
    BY <1>2, <1>4 DEF NotPages

\* Whatever happens is about another connection, leaves it alone or ends it.
LEMMA OthersFirst ==
    ASSUME ManagementInv, NEW k \in Conns, Known(k), NEW j \in Conns, NEW h \in Hosts,
           \/ Connect(h, j) \/ Report(h, j) \/ Done(h, j) \/ ClientTimeout(h, j) \/ Reset(h, j)
           \/ Cut(j) \/ PageReads(j) \/ PageGivesUp(j) \/ HandleReg(j) \/ HandleReport(j)
           \/ \E r \in Requests : Ask(j, h, r)
    PROVE  conn'[k].first = "none"
  <1>1. conn[k].peer = "page" /\ conn[k] # Free /\ conn[k].first = "none"
    BY KnownShape DEF Known
  <1>2. conn \in [Conns -> Connection]
    BY DEF ManagementInv, Shapes
  <1>3. CASE j # k
    <2>1. \E x : conn' = [conn EXCEPT ![j] = x]
      <3>1. CASE Connect(h, j) \/ \E r \in Requests : Ask(j, h, r)
        BY <3>1 DEF Connect, Ask, Makes
      <3>2. CASE Report(h, j) \/ Done(h, j) \/ ClientTimeout(h, j) \/ Reset(h, j)
        BY <1>2, <3>2 DEF Report, Done, Sends, ClientTimeout, Reset
      <3>3. CASE Cut(j)
        BY <1>2, <3>3 DEF Cut
      <3>4. CASE PageReads(j) \/ PageGivesUp(j)
        BY <3>4 DEF PageReads, PageGivesUp, PageEnds
      <3>5. CASE HandleReg(j) \/ HandleReport(j)
        BY <3>5 DEF HandleReg, HandleReport
      <3> QED
        BY <3>1, <3>2, <3>3, <3>4, <3>5
    <2> QED
      BY <1>1, <1>2, <1>3, <2>1
  <1>4. CASE j = k
    <2>1. ~(Connect(h, k) \/ \E r \in Requests : Ask(k, h, r))
      BY <1>1 DEF Connect, Ask, Makes, Unused
    <2>2. ~(Report(h, k) \/ Done(h, k) \/ ClientTimeout(h, k) \/ Reset(h, k) \/ Cut(k))
      BY <1>1 DEF Report, Done, Sends, ClientTimeout, Reset, Cut, Of
    <2>3. ~HandleReport(k)
      BY <1>1, HandleReportStep
    <2> QED
      BY <1>1, <1>4, <2>1, <2>2, <2>3, PageStep, HandleRegStep
  <1> QED
    BY <1>3, <1>4

\* It is told what answers its own request, and nothing else.
LEMMA RequestFirst ==
    ASSUME ManagementInv, NEW k \in Conns, Known(k), NEW j \in Conns,
           HandleCommand(j) \/ HandleQuery(j)
    PROVE  conn'[k].first \in {"none", Answer[conn[k].request]}
  <1> DEFINE x == Told(Executed(j), Answer[Head(conn[j].up)])
  <1>1. /\ conn[k] \in Connection /\ conn[k].request \in Requests /\ k \notin NotPages
        /\ conn[k].first = "none"
    BY KnownShape DEF Known
  <1>2. conn \in [Conns -> Connection] /\ Shape(conn[j])
    BY DEF ManagementInv, Shapes
  <1>3. conn[j].up # <<>> /\ Head(conn[j].up) \in Requests
    BY DEF HandleCommand, HandleQuery, NextIs, Requests
  <1>4. j = k => x.first = Answer[conn[k].request]
    <2>1. SUFFICES ASSUME j = k PROVE x.first = Answer[conn[k].request]
      OBVIOUS
    <2> DEFINE n == IF conn[k].request # "none" THEN conn[k].handled + 1 ELSE conn[k].handled
               y == [conn[k] EXCEPT !.up = Tail(@), !.handled = n]
               a == Answer[conn[k].request]
    <2>2. conn[k].request # "none"
      BY <1>1 DEF Requests
    <2>3. Head(conn[k].up) = conn[k].request
      BY <1>2, <1>3, <2>1, <2>2, RequestNext
    <2>4. Executed(k) = y
      BY <1>1 DEF Executed, Taken, Waiting, Connection
    <2> HIDE DEF n
    <2>5. /\ y.request = conn[k].request /\ y.first = "none"
          /\ [y EXCEPT !.first = a].first = a
      BY <1>1 DEF Connection
    <2> HIDE DEF y
    <2>6. x = Told(y, a)
      BY <2>1, <2>3, <2>4
    <2>7. Told(y, a) = [y EXCEPT !.first = a]
      BY <2>2, <2>5 DEF Told
    <2> HIDE DEF x, a
    <2>8. x.first = a
      BY <2>5, <2>6, <2>7
    <2> QED
      BY <2>8 DEF a
  <1>5. CASE HandleQuery(j)
    <2>1. conn' = [conn EXCEPT ![j] = x]
      BY <1>5 DEF HandleQuery
    <2> HIDE DEF x
    <2>2. conn'[k] = IF j = k THEN x ELSE conn[k]
      BY <1>2, <2>1
    <2> QED
      BY <1>1, <1>4, <2>2
  <1>6. CASE HandleCommand(j)
    <2>1. CASE conn' = Broadcast(j, Executed(j))
      <3>1. conn'[k] = IF k = j THEN x ELSE conn[k]
        BY <1>1, <1>6, <2>1, BroadcastEach DEF HandleCommand
      <3> HIDE DEF x
      <3> QED
        BY <1>1, <1>4, <3>1
    <2>2. CASE Aborts
      BY <2>2, FreeShape DEF Aborts
    <2> QED
      BY <1>6, <2>1, <2>2 DEF HandleCommand
  <1> QED
    BY <1>5, <1>6

\* The server closes only pages that have gone, and tells a page that it knows
\* for one nothing of what is meant for clients.
LEMMA ClosesFirst ==
    ASSUME ManagementInv, NEW k \in Conns, Known(k), NEW closing, NEW beats, beats \subseteq NotPages,
           \A j \in closing : conn[j].cut \/ conn[j].far = "gone", Closes(closing, beats)
    PROVE  conn'[k].first = "none"
  <1>1. k \notin closing /\ k \notin beats /\ conn[k].first = "none"
    BY KnownShape DEF Known
  <1> QED
    BY <1>1 DEF Closes

LEMMA StepAnswersOnly ==
    ASSUME ManagementInv, [Next]_vars, NEW k \in Conns, Known(k)
    PROVE  conn'[k].first \in {"none", Answer[conn[k].request]}
  <1>1. ASSUME NEW j \in Conns, NEW h \in Hosts,
               \/ Connect(h, j) \/ Report(h, j) \/ Done(h, j)
               \/ ClientTimeout(h, j) \/ Reset(h, j)
               \/ \E r \in Requests : Ask(j, h, r)
        PROVE  conn'[k].first = "none"
    BY <1>1, OthersFirst
  <1>2. ASSUME NEW j \in Conns, Cut(j) \/ PageReads(j) \/ PageGivesUp(j) \/ HandlePdu(j)
        PROVE  conn'[k].first \in {"none", Answer[conn[k].request]}
    <2>1. PICK h \in Hosts : TRUE
      BY ManagementConstants
    <2> QED
      BY <1>2, <2>1, OthersFirst, RequestFirst DEF HandlePdu
  <1>3. ASSUME NEW j \in Conns, OnClose(j)
        PROVE  conn'[k].first = "none"
    <2>1. conn[j].far = "gone" /\ Closes({j}, {})
      BY <1>3 DEF OnClose
    <2> QED
      BY <2>1, ClosesFirst
  <1>4. ASSUME NEW h \in Hosts, ConnectFails(h) \/ Leave(h)
        PROVE  conn'[k].first = "none"
    BY <1>4, KnownShape DEF ConnectFails, Leave, Of, Known
  <1>5. ASSUME NEW late \in SUBSET Silent, NEW beats \in SUBSET Beaten, Timer(late, beats)
        PROVE  conn'[k].first = "none"
    <2>1. /\ Closes(late, beats) /\ beats \subseteq NotPages
          /\ \A j \in late : conn[j].cut \/ conn[j].far = "gone"
      BY <1>5 DEF Timer, Silent, Beaten
    <2> QED
      BY <2>1, ClosesFirst
  <1>6. CASE UNCHANGED vars
    BY <1>6 DEF vars, Known
  <1> QED
    BY <1>1, <1>2, <1>3, <1>4, <1>5, <1>6 DEF Next

-----------------------------------------------------------------------------
(* The theorems.                                                           *)

\* What the server keeps of its clients stays of its type, the number it
\* counts never exceeds the connections, and no request is carried out twice,
\* whatever the clients, the pages and the network do (monitoring.cpp).
THEOREM TypeCorrect == Spec => []TypeOK
  BY ManagementInvHolds, InvTypeOK, PTL

\* A client that is listed has a connection: statuses are kept by the ip a
\* client reports (getLocalIp, clientConn.cpp:117) and removed by the ip of a
\* connection that is closed (GetRemoteIP, servConn.cpp:86-90), which may be
\* another one than the one they came by, and still none is left behind, as
\* far as every client that reports this ip also comes from it.
THEOREM NoGhostsCorrect == Spec => []NoGhosts
  <1>1. ManagementInv => NoGhosts
    BY DEF ManagementInv
  <1> QED
    BY <1>1, ManagementInvHolds, PTL

\* Of the first PDU it is sent a page reports a success only if its own request
\* was carried out, once, and an error only if that PDU was meant for the
\* clients and sent before the page's registration was read (servConn.cpp:22, 51).
\* The list of the clients, which looks at no ids, may call such a PDU a
\* success too (EdmController.php:346-352).
THEOREM PageTruthfulCorrect == Spec => []PageTruthful
  BY ManagementInvHolds, InvPageTruthful, PTL

\* Once the registration of a page was read, the first PDU sent to it is the
\* answer to its request: neither a heartbeat nor an order, though these go
\* to every connection that is not known for a page's (servConn.cpp:22, 51).
THEOREM AnswersOnlyCorrect == Spec => AnswersOnly
  <1> DEFINE A == \A k \in Conns :
                    /\ Waiting(k) /\ Len(conn[k].up) < 2
                    /\ conn[k].first = "none" /\ conn'[k].first # "none"
                    => conn'[k].first = Answer[conn[k].request]
  <1>1. ManagementInv /\ [Next]_vars => A
    BY StepAnswersOnly DEF Known
  <1>2. AnswersOnly <=> [][A]_vars
    BY DEF AnswersOnly
  <1> HIDE DEF A
  <1> QED
    BY <1>1, <1>2, ManagementInvHolds, PTL DEF Spec
=============================================================================
