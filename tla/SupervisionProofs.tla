-------------------------- MODULE SupervisionProofs -------------------------
(***************************************************************************)
(* Proofs about Supervision, for any number of processes, clients, deaths  *)
(* and reports.                                                            *)
(***************************************************************************)
EXTENDS Supervision, FiniteSetTheorems, WellFoundedInduction, TLAPS

Procs == Process \cup {NoProcess}

\* fork() finds a pid where there is one.
LEMMA NewPidIsFree ==
    ASSUME Free # {}
    PROVE  NewPid \in Free
  <1>1. Free \subseteq Nat
    BY SupervisionConstants DEF Free, Those
  <1>2. \E p \in Free : \A q \in Free : <<q, p>> \notin OpToRel(<, Nat)
    BY <1>1, NatLessThanWellFounded, WFMin
  <1>3. \A p, q \in Free : q < p => <<q, p>> \in OpToRel(<, Nat)
    BY <1>1 DEF OpToRel
  <1>4. \A p, q \in Free : ~(q < p) => p <= q
    BY <1>1
  <1>5. \E p \in Free : \A q \in Free : p <= q
    BY <1>2, <1>3, <1>4
  <1> QED
    BY <1>5 DEF NewPid
-----------------------------------------------------------------------------
(* What becomes of the processes, whoever changes them.                    *)

LEMMA ForkedType ==
    ASSUME NEW role \in {"master", "child"}, NEW parent \in {Client, Adopter} \cup Pids, NEW s \in Segs
    PROVE  Forked(role, parent, s) \in Process
  BY DEF Forked, Process, Asleep

\* A process keeps its role until it is forgotten, and its segment; a parent
\* that is dead is replaced by the adopter; nothing changes otherwise.
LEMMA AdoptKeeps ==
    ASSUME NEW f \in [Pids -> Procs], NEW dead
    PROVE  /\ Adopt(f, dead) \in [Pids -> Procs]
           /\ \A p \in Pids :
                \/ Adopt(f, dead)[p] = NoProcess
                \/ /\ Adopt(f, dead)[p] = f[p] /\ f[p].parent \notin dead
                \/ /\ f[p].role # "none" /\ f[p].parent \in dead /\ f[p].at # "ended"
                   /\ Adopt(f, dead)[p] = [f[p] EXCEPT !.parent = Adopter]
           /\ \A p \in Pids :
                /\ f[p].role # "none" /\ f[p].parent \notin dead => Adopt(f, dead)[p] = f[p]
                /\ f[p].role = "none" => Adopt(f, dead)[p] = NoProcess
  <1> DEFINE g == Adopt(f, dead)
  <1>1. ASSUME NEW p \in Pids
        PROVE  /\ g[p] \in Procs
               /\ \/ g[p] = NoProcess
                  \/ g[p] = f[p] /\ f[p].parent \notin dead
                  \/ /\ f[p].role # "none" /\ f[p].parent \in dead /\ f[p].at # "ended"
                     /\ g[p] = [f[p] EXCEPT !.parent = Adopter]
               /\ f[p].role # "none" /\ f[p].parent \notin dead => g[p] = f[p]
               /\ f[p].role = "none" => g[p] = NoProcess
    <2>1. f[p] \in Procs
      OBVIOUS
    <2>2. CASE f[p] = NoProcess
      BY <2>2 DEF Adopt, NoProcess, Procs
    <2>3. CASE f[p] \in Process
      <3>1. f[p].role # "none"
        BY <2>3 DEF Process
      <3>2. [f[p] EXCEPT !.parent = Adopter] \in Process
        BY <2>3 DEF Process
      <3> QED
        BY <2>3, <3>1, <3>2 DEF Adopt, Procs
    <2> QED
      BY <2>1, <2>2, <2>3 DEF Procs
  <1>2. g = [p \in Pids |-> g[p]]
    BY DEF Adopt
  <1>3. g \in [Pids -> Procs]
    BY <1>1, <1>2
  <1> QED
    BY <1>1, <1>3
\* What is left of the processes when some are gone.
Left ==
    \A q \in Pids :
        proc'[q] # NoProcess =>
            proc[q] # NoProcess /\ proc'[q].role = proc[q].role /\ proc'[q].seg = proc[q].seg

\* And what is left of the client's own.
KeptOwn ==
    \A q \in Own' :
        q \in Own /\ proc'[q].seg = proc[q].seg /\ proc'[q].at \in {proc[q].at, "ended"}

\* A process that ends leaves no child behind that nobody waits for, and its
\* client does not forget it before waitpid reports it.
LEMMA GoneKeeps ==
    ASSUME NEW p \in Pids, proc \in [Pids -> Procs], proc[p] # NoProcess, Parents,
           Gone(p), UNCHANGED worker
    PROVE  /\ proc' \in [Pids -> Procs]
           /\ Parents' /\ Left /\ KeptOwn
           /\ ClientsMasters' = ClientsMasters
  <1> DEFINE f == [proc EXCEPT ![p] = IF @.parent = Client THEN [@ EXCEPT !.at = "ended"]
                                      ELSE NoProcess]
  <1> USE SupervisionConstants DEF Client, Adopter
  <1>1. proc[p] \in Process /\ proc[p].role # "none"
    BY DEF Procs, Process
  <1>2. f \in [Pids -> Procs]
    <2>1. [proc[p] EXCEPT !.at = "ended"] \in Process
      BY <1>1 DEF Process
    <2> QED
      BY <1>1, <2>1 DEF Procs
  <1>3. proc' = Adopt(f, {p})
    BY DEF Gone
  <1> HIDE DEF f
  <1>4. /\ proc' \in [Pids -> Procs]
        /\ \A q \in Pids :
            \/ proc'[q] = NoProcess
            \/ proc'[q] = f[q] /\ f[q].parent # p
            \/ /\ f[q].role # "none" /\ f[q].parent = p /\ f[q].at # "ended"
               /\ proc'[q] = [f[q] EXCEPT !.parent = Adopter]
        /\ \A q \in Pids :
            /\ f[q].role # "none" /\ f[q].parent # p => proc'[q] = f[q]
            /\ f[q].role = "none" => proc'[q] = NoProcess
    BY <1>2, <1>3, AdoptKeeps
  <1>5. \A q \in Pids \ {p} : f[q] = proc[q]
    BY DEF f
  <1>6. ASSUME NEW q \in Pids \ {p}
        PROVE  \/ proc'[q] = NoProcess /\ (proc[q] = NoProcess \/ proc[q].parent = p)
               \/ proc[q] \in Process /\ proc[q].parent # p /\ proc'[q] = proc[q]
               \/ /\ proc[q] \in Process /\ proc'[q] \in Process /\ proc[q].parent = p
                  /\ proc'[q].role = proc[q].role /\ proc'[q].seg = proc[q].seg
                  /\ proc'[q].at = proc[q].at /\ proc'[q].parent = Adopter
    <2>1. CASE proc[q] = NoProcess
      BY <2>1, <1>4, <1>5 DEF NoProcess
    <2>2. CASE proc[q] \in Process
      <3>1. /\ [proc[q] EXCEPT !.parent = Adopter] \in Process
            /\ [proc[q] EXCEPT !.parent = Adopter].role = proc[q].role
            /\ [proc[q] EXCEPT !.parent = Adopter].seg = proc[q].seg
            /\ [proc[q] EXCEPT !.parent = Adopter].at = proc[q].at
            /\ [proc[q] EXCEPT !.parent = Adopter].parent = Adopter
            /\ proc[q].role # "none"
        BY <2>2 DEF Process
      <3>2. f[q] = proc[q]
        BY <1>5
      <3>3. CASE proc[q].parent = p
        BY <2>2, <3>1, <3>2, <3>3, <1>4
      <3>4. CASE proc[q].parent # p
        BY <2>2, <3>1, <3>2, <3>4, <1>4
      <3> QED
        BY <3>3, <3>4
    <2> QED
      BY <2>1, <2>2 DEF Procs
  <1>7. \/ proc[p].parent # Client /\ proc'[p] = NoProcess
        \/ /\ proc[p].parent = Client /\ proc'[p] \in Process
           /\ proc'[p].role = proc[p].role /\ proc'[p].seg = proc[p].seg
           /\ proc'[p].at = "ended" /\ proc'[p].parent = Client
    <2>1. CASE proc[p].parent = Client
      <3>1. /\ f[p] \in Process /\ f[p].role = proc[p].role /\ f[p].seg = proc[p].seg
            /\ f[p].at = "ended" /\ f[p].parent = Client /\ f[p].role # "none"
        BY <2>1, <1>1 DEF f, Process
      <3>2. f[p].parent # p
        BY <3>1
      <3>3. proc'[p] = f[p]
        BY <3>1, <3>2, <1>4
      <3> QED
        BY <2>1, <3>1, <3>3
    <2>2. CASE proc[p].parent # Client
      <3>1. f[p] = NoProcess
        BY <2>2 DEF f
      <3> QED
        BY <2>2, <3>1, <1>4 DEF NoProcess
    <2> QED
      BY <2>1, <2>2
  <1>8. NoProcess.role = "none" /\ \A r \in Process : r.role \in {"master", "child"}
    BY DEF NoProcess, Process
  <1>9. Left
    <2>1. ASSUME NEW q \in Pids, proc'[q] # NoProcess
          PROVE  proc[q] # NoProcess /\ proc'[q].role = proc[q].role /\ proc'[q].seg = proc[q].seg
      <3>1. CASE q = p
        BY <1>1, <1>7, <2>1, <3>1
      <3>2. CASE q # p
        BY <1>6, <1>8, <2>1, <3>2
      <3> QED
        BY <3>1, <3>2
    <2> QED
      BY <2>1 DEF Left
  <1>10. ASSUME NEW q \in Pids
         PROVE  /\ q \in ClientsMasters' <=> q \in ClientsMasters
                /\ proc'[q].role = "master" =>
                        \/ proc'[q].parent = Adopter
                        \/ proc[q].role = "master" /\ proc'[q].parent = proc[q].parent
    <2>1. CASE q = p
      BY <1>1, <1>7, <1>8, <2>1 DEF ClientsMasters, Those
    <2>2. CASE q # p
      BY <1>6, <1>8, <2>2 DEF ClientsMasters, Those
    <2> QED
      BY <2>1, <2>2
  <1>11. ASSUME NEW c \in Pids, proc'[c].role = "child"
         PROVE  proc'[c].parent = Adopter \/ proc'[c].parent \in Alive("master")'
    <2>1. proc[c].role = "child" /\ proc[c].parent \in {Adopter} \cup Alive("master")
      BY <1>9, <1>11, <1>8 DEF Left, Parents, Those
    <2>2. c # p
      BY <1>7, <1>8, <1>11, <2>1 DEF Alive, Those
    <2>3. CASE proc[c].parent # p /\ proc'[c] = proc[c] /\ proc[c].parent \in Alive("master")
      <3> DEFINE m == proc[c].parent
      <3>1. m \in Pids \ {p} /\ proc[m].role = "master" /\ proc[m].at # "ended"
        BY <2>3 DEF Alive, Those
      <3>2. m \notin {Client, Adopter} /\ proc[m].parent # p
        BY <3>1, <1>8 DEF Parents, Those
      <3> HIDE DEF m
      <3>3. proc'[m] = proc[m]
        BY <3>1, <3>2, <1>6, <1>8
      <3>4. proc'[c].parent = m
        BY <2>3 DEF m
      <3> QED
        BY <3>1, <3>3, <3>4 DEF Alive, Those
    <2> QED
      BY <2>1, <2>2, <2>3, <1>6, <1>8, <1>11
  <1>12. ClientsMasters' = ClientsMasters
    BY <1>10 DEF ClientsMasters, Those
  <1>13. ASSUME NEW q \in Own'
         PROVE  q \in Own /\ proc'[q].seg = proc[q].seg /\ proc'[q].at \in {proc[q].at, "ended"}
    <2>1. q \in Pids /\ proc'[q].role \in {"master", "child"}
      BY DEF Own, ClientsMasters, Those
    <2>2. proc'[q].parent # Adopter
      BY DEF Own, ClientsMasters, Those
    <2>3. CASE q = p
      <3>1. proc'[q].parent = Client /\ proc'[q].seg = proc[q].seg /\ proc'[q].at = "ended"
        BY <1>7, <1>8, <2>1, <2>3
      <3>2. q \in ClientsMasters'
        BY <3>1 DEF Own, ClientsMasters, Those
      <3> QED
        BY <1>12, <2>1, <3>1, <3>2 DEF Own
    <2>4. CASE q # p
      <3>1. proc'[q] = proc[q]
        BY <1>6, <1>8, <2>1, <2>2, <2>4
      <3> QED
        BY <1>12, <2>1, <3>1 DEF Own, Those
    <2> QED
      BY <2>3, <2>4
  <1> QED
    BY <1>4, <1>9, <1>10, <1>11, <1>12, <1>13 DEF Parents, Those, Up, KeptOwn
-----------------------------------------------------------------------------
(* The invariant.                                                          *)

\* What is said of each process of the client that runs.
Together ==
    Up => \A p \in Own :
            /\ proc[p].seg = seg /\ proc[p].at # "lost"
            /\ worker = "wait" => proc[p].at # "consume"

\* Unless it is about to fork one, the worker has a master to wait for, dead
\* or alive: waitpid(-1) never fails for want of a child.
Mastered == Up /\ worker \notin {"first", "again"} => ClientsMasters # {}

SuperviseInv == TypeOK /\ Together /\ Mastered /\ MastersCounted
LEMMA InitSuperviseInv == Init => SuperviseInv
  <1> SUFFICES ASSUME Init PROVE SuperviseInv
    OBVIOUS
  <1>1. \A p \in Pids : proc[p] = NoProcess
    BY DEF Init
  <1>2. Those("master") = {} /\ Those("child") = {} /\ Free = Pids
    BY <1>1 DEF Those, NoProcess, Free
  <1>3. TypeOK
    <2>1. 1 \in Segs /\ seg \in Segs /\ status \in [Segs -> BOOLEAN]
      BY SupervisionConstants DEF Init, Segs
    <2>2. proc \in [Pids -> Process \cup {NoProcess}]
      BY DEF Init
    <2>3. Parents
      BY <1>2 DEF Parents
    <2>4. clients \in 0..(MaxRestarts + 1) /\ misled \in Nat /\ deaths \in Nat /\ reports \in Nat
      BY SupervisionConstants DEF Init
    <2>5. worker = "down" /\ shell = "none" /\ key = 0
      BY DEF Init
    <2> QED
      BY <2>1, <2>2, <2>3, <2>4, <2>5 DEF TypeOK
  <1>4. Together /\ Mastered
    BY <1>1, <1>2 DEF Init, Together, Mastered, Up
  <1>5. MastersCounted
    BY <1>2, FS_EmptySet DEF Init, MastersCounted
  <1> QED
    BY <1>3, <1>4, <1>5 DEF SuperviseInv

\* Where there are no new masters there are no more of them.
LEMMA NoMoreMasters ==
    ASSUME Left, proc' \in [Pids -> Procs]
    PROVE  /\ Those("master")' \subseteq Those("master")
           /\ Cardinality(Those("master")) \in Nat
           /\ Cardinality(Those("master")') \in Nat
           /\ Cardinality(Those("master")') <= Cardinality(Those("master"))
           /\ Free \subseteq Free'
  <1>1. Those("master")' \subseteq Those("master") /\ Free \subseteq Free'
    BY DEF Left, Those, Free, NoProcess, Procs, Process
  <1>2. IsFiniteSet(Those("master")) /\ IsFiniteSet(Those("master")')
    BY SupervisionConstants, FS_Subset DEF Those
  <1> QED
    BY <1>1, <1>2, FS_Subset, FS_CardinalityType

\* The state of a process changes, and no more than that.
Kin ==
    \A p \in Pids :
        /\ proc'[p] = NoProcess <=> proc[p] = NoProcess
        /\ proc[p] # NoProcess =>
            /\ proc'[p].role = proc[p].role /\ proc'[p].parent = proc[p].parent
            /\ proc'[p].seg = proc[p].seg
            /\ proc'[p].at = "ended" <=> proc[p].at = "ended"

LEMMA KinKeeps ==
    ASSUME proc \in [Pids -> Procs], proc' \in [Pids -> Procs], Kin, Parents, Up => Up'
    PROVE  Parents' /\ Left /\ ClientsMasters' = ClientsMasters /\ Own' = Own
  <1>1. NoProcess.role = "none" /\ \A r \in Process : r.role \in {"master", "child"}
    BY DEF NoProcess, Process
  <1>2. \A p \in Pids : proc'[p].role = proc[p].role
    BY DEF Kin
  <1>3. Free' = Free /\ \A role : Those(role)' = Those(role)
    <2>1. ASSUME NEW role
          PROVE  Those(role)' = Those(role)
      BY <1>2, Zenon DEF Those
    <2> QED
      BY <2>1, Zenon DEF Free
  <1>4. \A p \in Pids : proc[p].role # "none" =>
            proc'[p].parent = proc[p].parent /\ (proc'[p].at = "ended" <=> proc[p].at = "ended")
    BY <1>1 DEF Kin
  <1>5. Left
    BY <1>1 DEF Kin, Left
  <1>6. Alive("master")' = Alive("master") /\ ClientsMasters' = ClientsMasters
    BY <1>3, <1>4 DEF Alive, ClientsMasters, Those
  <1>7. Parents'
    <2>1. ASSUME NEW p \in Those("master")
          PROVE  proc'[p].parent \in {Adopter} \cup IF Up' THEN {Client} ELSE {}
      <3>1. proc[p].parent \in {Adopter} \cup IF Up THEN {Client} ELSE {}
        BY Zenon DEF Parents
      <3>2. proc'[p].parent = proc[p].parent
        BY <1>4 DEF Those
      <3> QED
        BY <3>1, <3>2
    <2>2. ASSUME NEW c \in Those("child")
          PROVE  proc'[c].parent \in {Adopter} \cup Alive("master")'
      <3>1. proc[c].parent \in {Adopter} \cup Alive("master")
        BY Zenon DEF Parents
      <3>2. proc'[c].parent = proc[c].parent
        BY <1>4 DEF Those
      <3> QED
        BY <1>6, <3>1, <3>2, Zenon
    <2> QED
      BY <1>3, <2>1, <2>2, Zenon DEF Parents
  <1>8. Own' = Own
    <2>1. \A p \in Pids : p \in Those("child") => proc'[p].parent = proc[p].parent
      BY <1>4 DEF Those
    <2>2. \A p \in Pids : p \in Own' <=> p \in Own
      BY <1>3, <1>6, <2>1 DEF Own
    <2> QED
      BY <2>2 DEF Own
  <1> QED
    BY <1>5, <1>6, <1>7, <1>8

\* The masters of a client that ends are adopted.
LEMMA ClientEndsKeeps ==
    ASSUME proc \in [Pids -> Procs], Parents, ClientEnds
    PROVE  proc' \in [Pids -> Procs] /\ Parents' /\ Left
  <1> USE SupervisionConstants DEF Client, Adopter
  <1>1. proc' = Adopt(proc, {Client}) /\ worker' = "down"
    BY DEF ClientEnds
  <1>2. /\ proc' \in [Pids -> Procs]
        /\ \A q \in Pids :
            \/ proc'[q] = NoProcess
            \/ proc'[q] = proc[q] /\ proc[q].parent # Client
            \/ /\ proc[q].role # "none" /\ proc[q].parent = Client /\ proc[q].at # "ended"
               /\ proc'[q] = [proc[q] EXCEPT !.parent = Adopter]
        /\ \A q \in Pids :
            /\ proc[q].role # "none" /\ proc[q].parent # Client => proc'[q] = proc[q]
            /\ proc[q].role = "none" => proc'[q] = NoProcess
    BY <1>1, AdoptKeeps
  <1>3. NoProcess.role = "none" /\ \A r \in Process : r.role \in {"master", "child"}
    BY DEF NoProcess, Process
  <1>4. ASSUME NEW q \in Pids
        PROVE  \/ /\ proc'[q] = NoProcess
                  /\ proc[q] # NoProcess => proc[q].parent = Client /\ proc[q].at = "ended"
               \/ proc[q] \in Process /\ proc[q].parent # Client /\ proc'[q] = proc[q]
               \/ /\ proc[q] \in Process /\ proc'[q] \in Process /\ proc[q].parent = Client
                  /\ proc'[q].role = proc[q].role /\ proc'[q].seg = proc[q].seg
                  /\ proc'[q].at = proc[q].at /\ proc'[q].parent = Adopter
    <2>1. CASE proc[q] = NoProcess
      BY <2>1, <1>2, <1>3
    <2>2. CASE proc[q] \in Process
      <3>1. /\ [proc[q] EXCEPT !.parent = Adopter] \in Process
            /\ [proc[q] EXCEPT !.parent = Adopter].role = proc[q].role
            /\ [proc[q] EXCEPT !.parent = Adopter].seg = proc[q].seg
            /\ [proc[q] EXCEPT !.parent = Adopter].at = proc[q].at
            /\ [proc[q] EXCEPT !.parent = Adopter].parent = Adopter
            /\ proc[q].role # "none"
        BY <2>2 DEF Process
      <3>2. CASE proc[q].parent = Client /\ proc'[q] # NoProcess
        <4>1. proc'[q] = [proc[q] EXCEPT !.parent = Adopter]
          BY <3>2, <1>2
        <4> QED
          BY <2>2, <3>1, <3>2, <4>1
      <3>3. CASE proc[q].parent = Client /\ proc'[q] = NoProcess
        <4>1. proc[q].at = "ended"
          BY <1>1, <2>2, <3>1, <3>3, <1>3 DEF Adopt
        <4> QED
          BY <3>3, <4>1
      <3>4. CASE proc[q].parent # Client
        BY <2>2, <3>1, <3>4, <1>2
      <3> QED
        BY <3>2, <3>3, <3>4
    <2> QED
      BY <2>1, <2>2 DEF Procs
  <1>5. Left
    BY <1>3, <1>4 DEF Left
  <1>6. \A q \in Pids : proc'[q].role = "master" => proc'[q].parent = Adopter
    BY <1>3, <1>4, <1>5 DEF Left, Parents, Those
  <1>7. ASSUME NEW c \in Pids, proc'[c].role = "child"
        PROVE  proc'[c].parent = Adopter \/ proc'[c].parent \in Alive("master")'
    <2>1. proc[c].role = "child" /\ proc[c].parent \in {Adopter} \cup Alive("master")
      BY <1>5, <1>7, <1>3 DEF Left, Parents, Those
    <2>2. CASE proc'[c] = proc[c] /\ proc[c].parent \in Alive("master")
      <3> DEFINE m == proc[c].parent
      <3>1. m \in Pids /\ proc[m].role = "master" /\ proc[m].at # "ended"
        BY <2>2 DEF Alive, Those
      <3> HIDE DEF m
      <3>2. proc'[m].role = "master" /\ proc'[m].at # "ended"
        BY <3>1, <1>3, <1>4
      <3>3. proc'[c].parent = m
        BY <2>2 DEF m
      <3> QED
        BY <3>1, <3>2, <3>3 DEF Alive, Those
    <2> QED
      BY <2>1, <2>2, <1>3, <1>4, <1>7
  <1> QED
    BY <1>1, <1>2, <1>5, <1>6, <1>7 DEF Parents, Those
-----------------------------------------------------------------------------
(* The steps.                                                              *)

LEMMA StartStep ==
    ASSUME SuperviseInv, Start
    PROVE  SuperviseInv'
  <1> USE DEF SuperviseInv, Procs
  <1> DEFINE s == IF key = 0 THEN clients' ELSE key
  <1>1. /\ ~Up /\ worker' = "first" /\ clients' = clients + 1
        /\ clients \in 0..MaxRestarts /\ MaxRestarts \in Nat
        /\ seg' = s /\ key' = s /\ status' = [status EXCEPT ![s] = FALSE]
        /\ UNCHANGED <<shell, misled, deaths, reports>>
    BY SupervisionConstants DEF Start, TypeOK, bounds
  <1>2. s \in Segs
    BY <1>1 DEF Segs, TypeOK
  <1>3. proc' \in [Pids -> Procs] /\ Kin
    <2>1. PICK lost \in SUBSET {p \in Pids \ Free : proc[p].seg = s /\ proc[p].at \in Asleep} :
            proc' = [p \in Pids |-> IF p \in lost THEN [proc[p] EXCEPT !.at = "lost"] ELSE proc[p]]
      BY DEF Start
    <2>2. ASSUME NEW p \in lost
          PROVE  /\ proc[p] \in Process /\ proc[p].at # "ended"
                 /\ [proc[p] EXCEPT !.at = "lost"] \in Process
      <3>1. proc[p] \in Process
        BY DEF TypeOK, Free, Those, NoProcess
      <3> QED
        BY <3>1 DEF Process, Asleep
    <2>3. NoProcess \notin Process
      BY DEF NoProcess, Process
    <2> QED
      BY <2>1, <2>2, <2>3 DEF TypeOK, Kin, Process
  <1>4. Parents' /\ Left /\ ClientsMasters' = ClientsMasters
    BY <1>1, <1>3, KinKeeps DEF TypeOK, Up
  <1>5. TypeOK'
    BY <1>1, <1>2, <1>3, <1>4 DEF TypeOK
  <1>6. Together'
    <2>1. ClientsMasters = {}
      BY <1>1 DEF TypeOK, Parents, ClientsMasters, Client, Adopter
    <2>2. Own' = {}
      BY <1>4, <2>1 DEF Own
    <2> QED
      BY <2>2 DEF Together
  <1>7. MastersCounted'
    <2>1. clients \in Nat /\ misled \in Nat
      BY <1>1 DEF TypeOK
    <2> QED
      BY <1>1, <1>3, <1>4, <2>1, NoMoreMasters DEF MastersCounted, Up
  <1> QED
    BY <1>1, <1>5, <1>6, <1>7 DEF Mastered

\* A process ends, and as exit() may have been called or not the key goes or
\* stays.
LEMMA EndStep ==
    ASSUME SuperviseInv, NEW p \in Pids, proc[p] # NoProcess, Gone(p),
           UNCHANGED <<clients, worker, shell, seg, status, misled>>,
           key' \in {0, key}, deaths' \in Nat, reports' \in Nat
    PROVE  SuperviseInv'
  <1> USE DEF SuperviseInv, Procs
  <1>1. proc' \in [Pids -> Procs] /\ Parents' /\ Left /\ KeptOwn /\ ClientsMasters' = ClientsMasters
    BY GoneKeeps DEF TypeOK
  <1>2. TypeOK'
    BY <1>1 DEF TypeOK
  <1>3. Together'
    BY <1>1 DEF Together, KeptOwn, Up
  <1>4. Mastered'
    BY <1>1 DEF Mastered, Up
  <1>5. MastersCounted'
    <2>1. clients \in Nat /\ misled \in Nat
      BY DEF TypeOK
    <2> QED
      BY <1>1, <2>1, NoMoreMasters DEF MastersCounted
  <1> QED
    BY <1>2, <1>3, <1>4, <1>5

\* The client ends, likewise.
LEMMA ClientEndStep ==
    ASSUME SuperviseInv, ClientEnds, UNCHANGED <<clients, seg, status, misled, deaths, reports>>,
           key' \in {0, key}
    PROVE  SuperviseInv'
  <1> USE DEF SuperviseInv, Procs
  <1>1. proc' \in [Pids -> Procs] /\ Parents' /\ Left
    BY ClientEndsKeeps DEF TypeOK
  <1>2. worker' = "down" /\ shell' = "none" /\ ~Up'
    BY DEF ClientEnds, Up
  <1>3. TypeOK'
    BY <1>1, <1>2 DEF TypeOK
  <1>4. Together'
    BY <1>2 DEF Together
  <1>5. MastersCounted'
    <2>1. clients \in Nat /\ misled \in Nat
      BY DEF TypeOK
    <2> QED
      BY <1>1, <1>2, <2>1, NoMoreMasters DEF MastersCounted
  <1> QED
    BY <1>2, <1>3, <1>4, <1>5 DEF Mastered

\* A new process has a parent that is there, and none that exists has the new
\* one for a parent.
LEMMA ForkKeeps ==
    ASSUME proc \in [Pids -> Procs], Parents, Up <=> Up',
           NEW n \in Free, NEW role \in {"master", "child"},
           NEW parent \in {Client} \cup Pids, NEW s \in Segs,
           role = "master" => parent = Client /\ Up,
           role = "child" => parent \in Alive("master"),
           proc' = [proc EXCEPT ![n] = Forked(role, parent, s)]
    PROVE  /\ proc' \in [Pids -> Procs] /\ Parents'
           /\ ClientsMasters \subseteq ClientsMasters'
           /\ n \in Pids /\ proc'[n].seg = s /\ proc'[n].at = "run"
           /\ \A q \in Pids \ {n} : proc'[q] = proc[q]
           /\ role = "master" => n \in ClientsMasters'
           /\ \A q \in Own' \ {n} : q \in Own
           /\ role = "child" /\ n \in Own' => parent \in Own
           /\ Those("master")' = IF role = "master" THEN Those("master") \cup {n} ELSE Those("master")
           /\ n \notin Those("master")
  <1> USE SupervisionConstants DEF Client, Adopter
  <1>1. n \in Pids /\ proc[n].role = "none"
    BY DEF Free, Those
  <1>2. Forked(role, parent, s) \in Process
    BY ForkedType
  <1>3. proc' \in [Pids -> Procs]
    BY <1>2 DEF Procs
  <1>4. /\ proc'[n].role = role /\ proc'[n].parent = parent /\ proc'[n].seg = s /\ proc'[n].at = "run"
        /\ \A q \in Pids \ {n} : proc'[q] = proc[q]
    BY <1>1 DEF Forked
  <1>5. \A q \in Pids : proc[q].role # "none" => proc'[q] = proc[q]
    BY <1>1, <1>4
  <1>6. Alive("master") \subseteq Alive("master")'
    BY <1>5 DEF Alive, Those
  <1>7. \A q \in Pids : proc'[q].role = "master" =>
            proc'[q].parent \in {Adopter} \cup (IF Up' THEN {Client} ELSE {})
    BY <1>4 DEF Parents, Those
  <1>8. \A q \in Pids : proc'[q].role = "child" => proc'[q].parent \in {Adopter} \cup Alive("master")'
    BY <1>4, <1>6 DEF Parents, Those
  <1>9. Parents'
    BY <1>7, <1>8 DEF Parents, Those
  <1>10. ClientsMasters \subseteq ClientsMasters' /\ (role = "master" => n \in ClientsMasters')
    BY <1>1, <1>4, <1>5 DEF ClientsMasters, Those
  <1>11. /\ Those("master")' = IF role = "master" THEN Those("master") \cup {n} ELSE Those("master")
         /\ n \notin Those("master")
    BY <1>1, <1>4 DEF Those
  <1>12. \A q \in ClientsMasters' : q \in ClientsMasters \/ (role = "master" /\ q = n)
    BY <1>4 DEF ClientsMasters, Those
  <1>13. ASSUME NEW q \in Own' \ {n}
         PROVE  q \in Own
    <2>1. q \in Pids /\ proc'[q] = proc[q]
      BY <1>4 DEF Own
    <2>2. CASE q \in ClientsMasters'
      BY <1>12, <2>1, <2>2 DEF Own
    <2>3. CASE q \in Those("child") /\ proc[q].parent \in ClientsMasters'
      <3>1. proc[q].parent \in {Adopter} \cup Alive("master")
        BY <2>3 DEF Parents
      <3>2. proc[q].parent \in ClientsMasters
        BY <1>1, <1>12, <2>3, <3>1 DEF Alive, Those
      <3> QED
        BY <2>1, <2>3, <3>2 DEF Own
    <2> QED
      BY <2>1, <2>2, <2>3 DEF Own, Those
  <1>14. ASSUME role = "child", n \in Own'
         PROVE  parent \in Own
    <2>1. parent \in ClientsMasters'
      BY <1>4, <1>14 DEF Own, ClientsMasters, Those
    <2> QED
      BY <1>12, <1>14, <2>1 DEF Own, ClientsMasters, Those
  <1> QED
    BY <1>1, <1>3, <1>4, <1>9, <1>10, <1>11, <1>13, <1>14

\* None of the client's own gets out of its reach.
Reached ==
    Up => \A p \in Own :
            proc'[p].at # "lost" /\ (worker' = "wait" => proc'[p].at # "consume")

\* A step that leaves the processes and the segment as they are but for what
\* they do.
LEMMA KinStep ==
    ASSUME SuperviseInv, proc' \in [Pids -> Procs], Kin, Reached,
           UNCHANGED <<clients, seg, key, misled>>,
           status' \in [Segs -> BOOLEAN], deaths' \in Nat, reports' \in Nat,
           shell' \in {"none", "runs", "ended", "reported"},
           worker' \in {"down", "first", "poll", "again", "check", "product", "wait", "command", "ordered"},
           Up <=> Up',
           worker' \in {"first", "again"} <=> worker \in {"first", "again"}
    PROVE  SuperviseInv'
  <1> USE DEF SuperviseInv, Procs
  <1>1. Parents' /\ Left /\ ClientsMasters' = ClientsMasters /\ Own' = Own
    BY KinKeeps DEF TypeOK
  <1>2. TypeOK'
    BY <1>1 DEF TypeOK
  <1>3. Together'
    <2>1. ASSUME Up, NEW p \in Own
          PROVE  proc'[p].seg = proc[p].seg
      BY DEF Own, ClientsMasters, Those, Kin, NoProcess
    <2> QED
      BY <1>1, <2>1 DEF Together, Reached
  <1>4. Mastered'
    BY <1>1 DEF Mastered
  <1>5. MastersCounted'
    <2>1. clients \in Nat /\ misled \in Nat
      BY DEF TypeOK
    <2> QED
      BY <1>1, <2>1, NoMoreMasters DEF MastersCounted
  <1> QED
    BY <1>2, <1>3, <1>4, <1>5

LEMMA ForkMasterStep ==
    ASSUME SuperviseInv, ForkMaster
    PROVE  SuperviseInv'
  <1> USE DEF SuperviseInv, Procs
  <1> DEFINE n == NewPid
  <1>1. /\ worker \in {"first", "again"} /\ worker' \in {"poll", "check"}
        /\ UNCHANGED <<clients, shell, seg, key, status, misled, deaths, reports>>
        /\ n \in Free /\ proc' = [proc EXCEPT ![n] = Forked("master", Client, seg)]
    BY NewPidIsFree DEF ForkMaster, shm, bounds
  <1> HIDE DEF n
  <1>2. Up /\ Up'
    BY <1>1 DEF Up
  <1>3. /\ proc' \in [Pids -> Procs] /\ Parents'
        /\ n \in Pids /\ proc'[n].seg = seg /\ proc'[n].at = "run"
        /\ \A q \in Pids \ {n} : proc'[q] = proc[q]
        /\ n \in ClientsMasters' /\ n \notin Those("master")
        /\ Those("master")' = Those("master") \cup {n}
        /\ \A q \in Own' \ {n} : q \in Own
    BY <1>1, <1>2, ForkKeeps DEF TypeOK
  <1>4. TypeOK'
    BY <1>1, <1>3 DEF TypeOK
  <1>5. Together'
    BY <1>1, <1>2, <1>3 DEF Together, Own
  <1>6. Mastered'
    BY <1>3 DEF Mastered
  <1>7. MastersCounted'
    <2>1. clients \in Nat /\ misled \in Nat
      BY DEF TypeOK
    <2>2. IsFiniteSet(Those("master"))
      BY SupervisionConstants, FS_Subset DEF Those
    <2>3. Cardinality(Those("master")') = Cardinality(Those("master")) + 1
      BY <1>3, <2>2, FS_AddElement
    <2> QED
      BY <1>1, <2>1, <2>2, <2>3, FS_CardinalityType DEF MastersCounted
  <1> QED
    BY <1>4, <1>5, <1>6, <1>7

LEMMA ForkChildStep ==
    ASSUME SuperviseInv, NEW p \in Pids, ForkChild(p)
    PROVE  SuperviseInv'
  <1> USE DEF SuperviseInv, Procs
  <1> DEFINE n == NewPid
  <1>1. /\ UNCHANGED <<clients, worker, shell, seg, key, status, misled, deaths, reports>>
        /\ n \in Free /\ proc' = [proc EXCEPT ![n] = Forked("child", p, proc[p].seg)]
        /\ p \in Those("master") /\ proc[p].at = "run"
    BY NewPidIsFree DEF ForkChild, Adjusts, shm, bounds
  <1> HIDE DEF n
  <1>2. (Up <=> Up') /\ p \in Alive("master")
    BY <1>1 DEF Up, Alive
  <1>3. proc[p] \in Process /\ proc[p].seg \in Segs /\ proc[p] # NoProcess
    BY <1>1 DEF TypeOK, Those, NoProcess, Process
  <1>4. /\ proc' \in [Pids -> Procs] /\ Parents'
        /\ n \in Pids /\ proc'[n].seg = proc[p].seg /\ proc'[n].at = "run"
        /\ \A q \in Pids \ {n} : proc'[q] = proc[q]
        /\ \A q \in Own' \ {n} : q \in Own
        /\ n \in Own' => p \in Own
        /\ ClientsMasters \subseteq ClientsMasters'
        /\ Those("master")' = Those("master")
    BY <1>1, <1>2, <1>3, ForkKeeps DEF TypeOK
  <1>5. TypeOK'
    BY <1>1, <1>4 DEF TypeOK
  <1>6. Together'
    BY <1>1, <1>2, <1>4 DEF Together, Own
  <1>7. Mastered'
    BY <1>1, <1>2, <1>4 DEF Mastered
  <1>8. MastersCounted'
    BY <1>1, <1>4 DEF MastersCounted
  <1> QED
    BY <1>5, <1>6, <1>7, <1>8

LEMMA PollStep ==
    ASSUME SuperviseInv, Poll
    PROVE  SuperviseInv'
  <1> USE DEF SuperviseInv, Procs
  <1> DEFINE ended == {p \in ClientsMasters : proc[p].at = "ended"}
  <1>1. /\ worker = "poll" /\ Up
        /\ UNCHANGED <<clients, seg, key, status, deaths, reports>>
    BY DEF Poll, shm, bounds, Up
  <1>2. clients \in Nat /\ misled \in Nat
    BY DEF TypeOK
  <1>3. CASE /\ \E p \in ended : proc' = [proc EXCEPT ![p] = NoProcess]
             /\ worker' = "again"
             /\ UNCHANGED <<shell, misled>>
    <2>1. PICK p \in ended : proc' = [proc EXCEPT ![p] = NoProcess]
      BY <1>3
    <2>2. p \in Pids /\ proc[p].role = "master" /\ proc[p].at = "ended"
      BY DEF ClientsMasters, Those
    <2> HIDE DEF ended
    <2>3. /\ proc' \in [Pids -> Procs] /\ proc'[p] = NoProcess
          /\ \A q \in Pids \ {p} : proc'[q] = proc[q]
      BY <2>1, <2>2 DEF TypeOK
    <2>4. NoProcess.role = "none"
      BY DEF NoProcess
    <2>5. Left
      BY <2>3 DEF Left
    <2>6. \A q \in Pids : proc'[q].role = "master" => q # p /\ proc[q].role = "master"
      BY <2>3, <2>4
    <2>7. Alive("master") \subseteq Alive("master")'
      BY <2>2, <2>3 DEF Alive, Those
    <2>8. Parents'
      <3>1. \A q \in Those("master")' : proc'[q].parent \in {Adopter} \cup (IF Up' THEN {Client} ELSE {})
        BY <1>1, <1>3, <2>3, <2>6 DEF TypeOK, Parents, Those, Up
      <3>2. \A c \in Those("child")' : proc'[c].parent \in {Adopter} \cup Alive("master")'
        BY <2>3, <2>4, <2>7 DEF TypeOK, Parents, Those
      <3> QED
        BY <3>1, <3>2 DEF Parents
    <2>9. TypeOK'
      BY <1>1, <1>3, <2>3, <2>8 DEF TypeOK
    <2>10. Together'
      <3>1. ClientsMasters' \subseteq ClientsMasters
        BY <2>3, <2>6 DEF ClientsMasters, Those
      <3>2. \A q \in Own' : q \in Pids \ {p} /\ q \in Own
        BY <2>3, <2>4, <3>1 DEF Own, ClientsMasters, Those
      <3> QED
        BY <1>1, <1>3, <2>3, <3>2 DEF Together
    <2>11. MastersCounted'
      <3>1. Those("master")' = Those("master") \ {p} /\ p \in Those("master")
        BY <2>2, <2>3, <2>4 DEF Those
      <3>2. IsFiniteSet(Those("master"))
        BY SupervisionConstants, FS_Subset DEF Those
      <3>3. Cardinality(Those("master")') = Cardinality(Those("master")) - 1
        BY <3>1, <3>2, FS_RemoveElement
      <3> QED
        BY <1>1, <1>2, <1>3, <3>2, <3>3, FS_CardinalityType DEF MastersCounted
    <2> QED
      BY <1>3, <2>9, <2>10, <2>11 DEF Mastered
  <1>4. CASE /\ shell = "ended"
             /\ shell' = "reported" /\ misled' = misled + 1
             /\ worker' = "again"
             /\ UNCHANGED proc
    <2>1. UNCHANGED <<Parents, Those("master")>> /\ Up'
      BY <1>1, <1>4 DEF Parents, Alive, Those, Up
    <2>2. TypeOK'
      BY <1>1, <1>2, <1>4, <2>1 DEF TypeOK
    <2>3. Together'
      BY <1>1, <1>4 DEF Together, Own, ClientsMasters, Those
    <2>4. MastersCounted'
      <3>1. Cardinality(Those("master")) \in Nat
        BY SupervisionConstants, FS_Subset, FS_CardinalityType DEF Those
      <3> QED
        BY <1>1, <1>2, <1>4, <2>1, <3>1 DEF MastersCounted
    <2> QED
      BY <1>4, <2>2, <2>3, <2>4 DEF Mastered
  <1>5. CASE /\ ended = {} /\ shell # "ended"
             /\ worker' = IF ClientsMasters = {} /\ shell # "runs" THEN "again" ELSE "check"
             /\ UNCHANGED <<shell, proc, misled>>
    <2>1. worker' = "check"
      BY <1>1, <1>5 DEF Mastered
    <2>2. Kin /\ Up' /\ Reached
      BY <1>5, <2>1 DEF Kin, Up, Reached, Together
    <2> QED
      BY <1>1, <1>5, <2>1, <2>2, KinStep DEF TypeOK
  <1> QED
    BY <1>3, <1>4, <1>5 DEF Poll

\* Steps that no process takes.
LEMMA QuietStep ==
    ASSUME SuperviseInv, Check \/ WaitForOrder \/ Popen \/ Pclose \/ ShellEnds
    PROVE  SuperviseInv'
  <1> USE DEF SuperviseInv, Procs
  <1>1. /\ UNCHANGED <<clients, seg, key, status, proc, misled, deaths>>
        /\ reports' \in {reports, reports + 1}
        /\ shell' \in {"none", "runs", "ended", "reported"}
        /\ \/ worker' = worker
           \/ /\ worker \in {"check", "command"}
              /\ worker' \in {"product", "command", "ordered"}
    BY DEF Check, WaitForOrder, Popen, Pclose, ShellEnds, shm, bounds, TypeOK
  <1>2. Kin /\ Reached
    BY <1>1 DEF Kin, Reached, Together
  <1>3. /\ Up <=> Up'
        /\ worker' \in {"first", "again"} <=> worker \in {"first", "again"}
    BY <1>1 DEF Up
  <1>4. proc' \in [Pids -> Procs] /\ status' \in [Segs -> BOOLEAN] /\ deaths' \in Nat /\ reports' \in Nat
    BY <1>1 DEF TypeOK
  <1>5. worker' \in {"down", "first", "poll", "again", "check", "product", "wait", "command", "ordered"}
    BY <1>1 DEF TypeOK
  <1> QED
    BY <1>1, <1>2, <1>3, <1>4, <1>5, KinStep

\* A process in its loop goes to sleep or wakes up.
LEMMA WokenKin ==
    ASSUME proc \in [Pids -> Procs], NEW s, NEW at \in {"command"} \cup Asleep,
           proc' = Woken(proc, s, at)
    PROVE  proc' \in [Pids -> Procs] /\ Kin
  <1>1. NoProcess \notin Process /\ at # "ended"
    BY DEF NoProcess, Process, Asleep
  <1>2. ASSUME NEW p \in Pids, proc[p] # NoProcess
        PROVE  /\ [proc[p] EXCEPT !.at = "run"] \in Process
               /\ [proc[p] EXCEPT !.at = "run"].role = proc[p].role
               /\ [proc[p] EXCEPT !.at = "run"].parent = proc[p].parent
               /\ [proc[p] EXCEPT !.at = "run"].seg = proc[p].seg
               /\ [proc[p] EXCEPT !.at = "run"].at = "run"
    <2>1. proc[p] \in Process
      BY <1>2 DEF Procs
    <2> QED
      BY <2>1 DEF Process
  <1>3. proc' \in [Pids -> Procs]
    BY <1>2 DEF Woken, Procs
  <1>4. ASSUME NEW p \in Pids
        PROVE  \/ proc'[p] = proc[p]
               \/ /\ proc[p] # NoProcess /\ proc[p].at # "ended"
                  /\ proc'[p] = [proc[p] EXCEPT !.at = "run"]
    BY <1>1 DEF Woken
  <1>5. ASSUME NEW p \in Pids
        PROVE  \/ proc'[p] = proc[p]
               \/ /\ proc[p] # NoProcess /\ proc[p].at # "ended"
                  /\ proc'[p] \in Process
                  /\ proc'[p].role = proc[p].role /\ proc'[p].parent = proc[p].parent
                  /\ proc'[p].seg = proc[p].seg /\ proc'[p].at = "run"
    BY <1>2, <1>4
  <1> QED
    BY <1>1, <1>3, <1>5 DEF Kin

LEMMA AtKin ==
    ASSUME proc \in [Pids -> Procs], NEW p \in Pids, proc[p] # NoProcess, proc[p].at # "ended",
           NEW at \in {"command"} \cup Asleep,
           proc' = [proc EXCEPT ![p].at = at]
    PROVE  proc' \in [Pids -> Procs] /\ Kin
  <1>1. NoProcess \notin Process /\ proc[p] \in Process
    BY DEF NoProcess, Process, Procs
  <1>2. /\ [proc[p] EXCEPT !.at = at] \in Process
        /\ [proc[p] EXCEPT !.at = at].role = proc[p].role
        /\ [proc[p] EXCEPT !.at = at].parent = proc[p].parent
        /\ [proc[p] EXCEPT !.at = at].seg = proc[p].seg
        /\ [proc[p] EXCEPT !.at = at].at # "ended"
    BY <1>1 DEF Process, Asleep
  <1>3. /\ proc' \in [Pids -> Procs] /\ proc'[p] = [proc[p] EXCEPT !.at = at]
        /\ \A q \in Pids \ {p} : proc'[q] = proc[q]
    BY <1>2 DEF Procs
  <1> QED
    BY <1>1, <1>2, <1>3 DEF Kin

\* Orders, sleep and mail.
LEMMA OrderStep ==
    ASSUME SuperviseInv,
           HaveSendInfo \/ SetStatus \/ \E p \in Pids : MayNotRun(p) \/ Round(p)
    PROVE  SuperviseInv'
  <1> USE DEF SuperviseInv, Procs
  <1>1. /\ clients' = clients /\ UNCHANGED <<shell, seg, key, misled, deaths, reports>>
        /\ status' \in [Segs -> BOOLEAN]
    <2>1. CASE SetStatus
      BY <2>1 DEF SetStatus, TypeOK, bounds
    <2>2. CASE HaveSendInfo
      BY <2>2 DEF HaveSendInfo, TypeOK, shm, bounds
    <2>3. ASSUME NEW p \in Pids, MayNotRun(p) \/ Round(p)
          PROVE  /\ clients' = clients /\ UNCHANGED <<shell, seg, key, misled, deaths, reports>>
                 /\ status' \in [Segs -> BOOLEAN]
      BY <2>3 DEF MayNotRun, Round, TypeOK, shm, bounds
    <2> QED
      BY <2>1, <2>2, <2>3
  <1>2. \/ worker' = worker
        \/ worker \in {"product", "wait", "ordered"} /\ worker' \in {"wait", "poll"}
    BY DEF HaveSendInfo, SetStatus, MayNotRun, Round
  <1>3. proc \in [Pids -> Procs]
    BY DEF TypeOK
  <1>4. proc' \in [Pids -> Procs] /\ Kin
    <2>1. CASE UNCHANGED proc
      BY <1>3, <2>1 DEF Kin
    <2>2. CASE proc' = Woken(proc, seg, "consume") \/ proc' = Woken(proc, seg, "ordered")
      BY <1>3, <2>2, WokenKin DEF Asleep
    <2>3. ASSUME NEW p \in Pids, MayNotRun(p) \/ Round(p)
          PROVE  proc' \in [Pids -> Procs] /\ Kin
      <3>1. /\ proc[p] # NoProcess /\ proc[p].at # "ended"
            /\ \E at \in {"command"} \cup Asleep : proc' = [proc EXCEPT ![p].at = at]
        BY <2>3 DEF MayNotRun, Round, AtTop, Those, NoProcess, Asleep
      <3> QED
        BY <1>3, <3>1, AtKin
    <2> QED
      BY <2>1, <2>2, <2>3 DEF HaveSendInfo, SetStatus
  <1>5. /\ Up <=> Up'
        /\ worker' \in {"first", "again"} <=> worker \in {"first", "again"}
        /\ worker' \in {"down", "first", "poll", "again", "check", "product", "wait", "command", "ordered"}
    BY <1>2 DEF Up, TypeOK
  <1>6. shell' \in {"none", "runs", "ended", "reported"} /\ deaths' \in Nat /\ reports' \in Nat
    BY <1>1 DEF TypeOK
  <1>7. Reached
    <2>1. SUFFICES ASSUME Up, NEW p \in Own
                   PROVE  proc'[p].at # "lost" /\ (worker' = "wait" => proc'[p].at # "consume")
      BY DEF Reached
    <2>2. /\ p \in Pids /\ proc[p] # NoProcess
          /\ proc[p].seg = seg /\ proc[p].at # "lost"
          /\ worker = "wait" => proc[p].at # "consume"
      BY <2>1 DEF Together, Own, ClientsMasters, Those, NoProcess
    <2>3. [proc[p] EXCEPT !.at = "run"].at = "run"
      BY <1>3, <2>2 DEF Process
    <2>4. CASE HaveSendInfo
      BY <2>2, <2>3, <2>4 DEF HaveSendInfo, Woken
    <2>5. CASE SetStatus
      BY <2>2, <2>3, <2>5 DEF SetStatus, Woken
    <2>6. ASSUME NEW q \in Pids, MayNotRun(q) \/ Round(q)
          PROVE  proc'[p].at # "lost" /\ (worker' = "wait" => proc'[p].at # "consume")
      <3>1. CASE q # p
        BY <1>3, <2>2, <2>6, <3>1 DEF MayNotRun, Round
      <3>2. CASE q = p /\ MayNotRun(q)
        <4>1. PICK at \in {"command", "ordered"} : proc' = [proc EXCEPT ![p].at = at] /\ worker' = worker
          BY <3>2 DEF MayNotRun
        <4>2. proc'[p].at = at
          BY <1>3, <2>2, <4>1 DEF Process
        <4> QED
          BY <4>2
      <3>3. CASE q = p /\ Round(q)
        <4>1. proc'[p].at = "consume" /\ worker' # "wait"
          BY <1>3, <2>2, <3>3 DEF Round, Process
        <4> QED
          BY <4>1
      <3> QED
        BY <2>6, <3>1, <3>2, <3>3
    <2> QED
      BY <2>4, <2>5, <2>6
  <1> QED
    BY <1>1, <1>4, <1>5, <1>6, <1>7, KinStep

LEMMA NextSuperviseInv == SuperviseInv /\ [Next]_vars => SuperviseInv'
  <1> SUFFICES ASSUME SuperviseInv, [Next]_vars PROVE SuperviseInv'
    OBVIOUS
  <1>1. CASE Start
    BY <1>1, StartStep
  <1>2. CASE WorkerStep
    <2>1. CASE ForkMasterFails
      <3>1. /\ ClientEnds /\ UNCHANGED <<clients, seg, status, misled, deaths, reports>>
            /\ key' \in {0, key}
        BY <2>1 DEF ForkMasterFails, Exit, bounds
      <3> QED
        BY <3>1, ClientEndStep
    <2> QED
      BY <1>2, <2>1, ForkMasterStep, PollStep, QuietStep, OrderStep DEF WorkerStep
  <1>3. CASE EventLoop \/ ShellEnds
    BY <1>3, QuietStep, OrderStep DEF EventLoop
  <1>4. CASE ClientDies
    <2>1. /\ ClientEnds /\ UNCHANGED <<clients, seg, key, status, misled, deaths, reports>>
      BY <1>4 DEF ClientDies, shm, bounds
    <2> QED
      BY <2>1, ClientEndStep
  <1>5. ASSUME NEW p \in Pids, ForkChildFails(p) \/ ChildExit(p) \/ ProcessDies(p)
        PROVE  SuperviseInv'
    <2>1. /\ proc[p] # NoProcess /\ Gone(p)
          /\ UNCHANGED <<clients, worker, shell, seg, status, misled>> /\ UNCHANGED reports
          /\ deaths' \in {deaths, deaths + 1}
          /\ key' \in {0, key}
      BY <1>5 DEF ForkChildFails, ChildExit, ProcessDies, Adjusts, AtTop, Alive, Those, NoProcess,
                  Exit, shm, bounds
    <2>2. deaths \in Nat /\ reports \in Nat
      BY DEF SuperviseInv, TypeOK
    <2>3. deaths' \in Nat
      BY <2>1, <2>2
    <2>4. reports' \in Nat
      BY <2>1, <2>2
    <2> QED
      BY <2>1, <2>3, <2>4, EndStep
  <1>6. CASE \E p \in Pids : MayNotRun(p) \/ MasterStep(p) \/ ChildStep(p) \/ ProcessDies(p)
    BY <1>5, <1>6, ForkChildStep, OrderStep DEF MasterStep, ChildStep
  <1>7. CASE UNCHANGED vars
    <2>1. /\ UNCHANGED <<clients, worker, shell, seg, key, status, misled, deaths, reports>>
          /\ UNCHANGED proc
      BY <1>7 DEF vars, shm, bounds
    <2>2. Kin /\ (Up <=> Up') /\ Reached
      BY <2>1 DEF Kin, Up, Reached, SuperviseInv, Together
    <2> QED
      BY <2>1, <2>2, KinStep DEF SuperviseInv, TypeOK, Procs
  <1> QED
    BY <1>1, <1>2, <1>3, <1>4, <1>6, <1>7 DEF Next

\* Type correctness, and nobody without a parent that waits for it: whatever is
\* killed, aborts or exits, a child's parent is a master that lives or init, and
\* a master's is the client of the day or init (worker.cpp:246-268, 340-344).
THEOREM TypeCorrect == Spec => []TypeOK
  <1>1. SuperviseInv => TypeOK
    BY DEF SuperviseInv
  <1> QED
    BY InitSuperviseInv, NextSuperviseInv, <1>1, PTL DEF Spec

\* The number of masters, however many clients have died before: one for each
\* client, and one for each shell that waitpid(-1) took for a master, but none
\* for any other return of it (worker.cpp:138-156).
THEOREM MastersCountedCorrect == Spec => []MastersCounted
  <1>1. SuperviseInv => MastersCounted
    BY DEF SuperviseInv
  <1> QED
    BY InitSuperviseInv, NextSuperviseInv, <1>1, PTL DEF Spec

\* The worker and the processes its client has forked can wake each other,
\* whatever dead clients have left running and whoever has removed the key: one
\* segment, nobody who waits for what _init_shm overwrote, always a master for
\* waitpid(-1) to report, and no child asleep on consumeLock while the worker
\* sleeps on productLock (worker.cpp:34-37, 152, 159-165, 214-239, 427-433).
THEOREM InTouchCorrect == Spec => []InTouch
  <1>1. SuperviseInv => InTouch
    BY DEF SuperviseInv, Together, Mastered, InTouch
  <1> QED
    BY InitSuperviseInv, NextSuperviseInv, <1>1, PTL DEF Spec
=============================================================================
