--------------------------- MODULE ChildPoolProofs --------------------------
(***************************************************************************)
(* Proofs about ChildPool, for every process table, every sequence of pool *)
(* sizes and every pattern of deaths.                                      *)
(***************************************************************************)
EXTENDS ChildPool, FiniteSetTheorems, TLAPS

\* What SIGUSR1 was sent to has left the service before it leaves the map.
RetiringInv ==
    /\ pc \in {"retireLoad", "retireStore"} => cur \notin InService
    /\ pc = "insert" => cur \in Pids

\* The part of the type invariant the proof of Tracked needs.
StType == st \in [Pids -> {"free", "boot", "run", "wait", "zombie", "killed"}]

TrackedInv == StType /\ RetiringInv /\ Tracked

LEMMA InitTrackedInv == Init => TrackedInv
  BY DEF Init, TrackedInv, StType, RetiringInv, Tracked, InService, Alive

LEMMA NextTrackedInv == TrackedInv /\ [Next]_vars => TrackedInv'
  <1> SUFFICES ASSUME TrackedInv, [Next]_vars PROVE TrackedInv'
    OBVIOUS
  <1> USE DEF TrackedInv, StType, RetiringInv, Tracked, InService, Alive, masterVars
  <1>1. ASSUME NEW m \in Multis, SetMulti(m) PROVE TrackedInv'
    BY <1>1 DEF SetMulti
  <1>2. ASSUME MasterStep PROVE TrackedInv'
    <2>1. CASE Look
      BY <2>1 DEF Look
    <2>2. CASE RetireLoad
      BY <2>2 DEF RetireLoad
    <2>3. CASE RetireStore
      BY <2>3 DEF RetireStore
    <2>4. CASE ForkFails
      BY <2>4 DEF ForkFails, Dead
    <2>5. CASE Insert
      BY <2>5 DEF Insert
    <2>6. CASE ForkStore
      BY <2>6 DEF ForkStore
    <2>7. CASE Adjusted
      BY <2>7 DEF Adjusted
    <2>8. CASE SleepEnds
      BY <2>8 DEF SleepEnds
    <2>9. ASSUME NEW p \in Pids, Retire(p) PROVE TrackedInv'
      BY <2>9 DEF Retire
    <2>10. ASSUME NEW p \in Pids, Fork(p) PROVE TrackedInv'
      BY <2>10 DEF Fork
    <2>11. CASE Reduce
      BY <2>11 DEF Reduce
    <2>12. CASE Increase
      BY <2>12 DEF Increase
    <2>13. CASE ForkLoad
      BY <2>13 DEF ForkLoad
    <2> QED
      BY <1>2, <2>1, <2>2, <2>3, <2>4, <2>5, <2>6, <2>7, <2>8, <2>9, <2>10,
         <2>11, <2>12, <2>13
      DEF MasterStep
  <1>3. ASSUME NEW p \in Pids, Reap(p) PROVE TrackedInv'
    BY <1>3 DEF Reap, Dead, Awake
  <1>4. ASSUME NEW p \in Pids, Boot(p) PROVE TrackedInv'
    BY <1>4 DEF Boot
  <1>5. ASSUME NEW p \in Pids, Exit(p) PROVE TrackedInv'
    BY <1>5 DEF Exit
  <1>6. ASSUME NEW p \in Pids, Sleep(p) PROVE TrackedInv'
    BY <1>6 DEF Sleep
  <1>7. ASSUME NEW p \in Pids, Woken(p) PROVE TrackedInv'
    BY <1>7 DEF Woken
  <1>8. ASSUME NEW p \in Pids, Crash(p) PROVE TrackedInv'
    BY <1>8 DEF Crash
  <1>9. CASE UNCHANGED vars
    BY <1>9 DEF vars
  <1> QED
    BY <1>1, <1>2, <1>3, <1>4, <1>5, <1>6, <1>7, <1>8, <1>9 DEF Next

\* The master keeps track of every child that is to go on working, whatever
\* the interleaving of its loop with the SIGCHLD handler (worker.cpp:268-345).
THEOREM TrackedCorrect == Spec => []Tracked
  <1>1. TrackedInv => Tracked
    BY DEF TrackedInv
  <1> QED
    BY InitTrackedInv, NextTrackedInv, <1>1, PTL DEF Spec

-----------------------------------------------------------------------------
(* As long as every child that died exited when told to, the two counts    *)
(* agree with the kernel.  CountInv follows the pair through the four      *)
(* steps of a fork and of a retirement, in which one runs ahead of the     *)
(* other; that the 16 bits suffice is part of it.                          *)

NoneKilled == \A p \in Pids : st[p] # "killed"

CountsAgree ==
    /\ multi \in 0..NumMod - 1
    /\ todo \in Nat /\ childNum \in Nat /\ crashes \in Nat
    /\ StType /\ NoneKilled /\ map \in SUBSET Pids
    /\ \A p \in Pids : st[p] = "free" => p \notin quit
    /\ pc \in {"look", "reduce", "increase", "sleep"} => map = InService
    /\ processNum \in 0..NumMod - 1
    /\ pc = "reduce" => childNum > processNum
    /\ pc = "increase" => childNum <= processNum
    /\ pc \in {"retire", "retireLoad", "retireStore"} =>
        todo <= childNum
    /\ pc \in {"retireLoad", "retireStore"} =>
        todo > 0 /\ cur \in map /\ InService = map \ {cur}
    /\ pc = "retireStore" => reg = childNum
    /\ pc \in {"retire", "fork"} => map = InService
    /\ pc \in {"fork", "insert", "forkLoad", "forkStore"} => childNum + todo < NumMod
    /\ pc \in {"insert", "forkLoad", "forkStore"} => todo > 0
    /\ pc = "insert" => cur \in Pids \ map /\ InService = map \cup {cur}
    /\ pc \in {"forkLoad", "forkStore"} => map = InService
    /\ pc = "forkStore" => reg = childNum
    /\ pc \notin {"dead", "forkLoad", "forkStore"} => childNum = Cardinality(map)
    /\ pc \in {"forkLoad", "forkStore"} => childNum + 1 = Cardinality(map)
    /\ childNum < NumMod

CountInv == ~abrupt => CountsAgree

LEMMA ModIncrement ==
    ASSUME NEW n \in Nat \ {0}, NEW a \in Nat, a + 1 < n
    PROVE  (a + 1) % n = a + 1
  OBVIOUS

LEMMA ModDecrement ==
    ASSUME NEW n \in Nat \ {0}, NEW a \in Nat, 0 < a, a < n
    PROVE  (a + n - 1) % n = a - 1
  OBVIOUS

\* The difference, where there is one.
LEMMA ModDifference ==
    ASSUME NEW n \in Nat \ {0}, NEW a \in 0..n - 1, NEW b \in 0..n - 1, b <= a
    PROVE  (a + n - b) % n = a - b
  OBVIOUS

LEMMA MapCardinality ==
    ASSUME NEW S \in SUBSET Pids, NEW p
    PROVE  /\ Cardinality(S) \in Nat
           /\ p \in S => Cardinality(S \ {p}) = Cardinality(S) - 1
           /\ p \notin S => Cardinality(S \cup {p}) = Cardinality(S) + 1
           /\ Cardinality(S) = 0 <=> S = {}
  BY PidsFinite, FS_Subset, FS_CardinalityType, FS_RemoveElement,
     FS_AddElement, FS_EmptySet

LEMMA InitCountInv == Init => CountInv
  BY MultisFit, FS_EmptySet
  DEF Init, CountInv, CountsAgree, StType, NoneKilled, InService, Alive

LEMMA AbruptStays == [Next]_vars /\ ~abrupt' => ~abrupt
  BY DEF Next, MasterStep, SetMulti, Look, Retire, RetireLoad, RetireStore, Fork,
         Reduce, Increase, ForkFails, Insert, ForkLoad, ForkStore, Adjusted, SleepEnds, Reap, Boot, Exit,
         Sleep, Woken, Crash, vars, masterVars

LEMMA NextCountsAgree ==
    ASSUME CountsAgree, ~abrupt', [Next]_vars
    PROVE  CountsAgree'
  <1> USE DEF CountsAgree, StType, NoneKilled, InService, Alive, masterVars
  <1>1. ASSUME NEW m \in Multis, SetMulti(m) PROVE CountsAgree'
    BY <1>1, MultisFit DEF SetMulti
  <1>2. ASSUME MasterStep PROVE CountsAgree'
    <2>1. CASE Look
      BY <2>1, MultisFit DEF Look
    <2>2. CASE RetireLoad
      BY <2>2 DEF RetireLoad
    <2>3. CASE RetireStore
      <3>1. childNum' = childNum - 1
        BY <2>3, MultisFit, ModDecrement DEF RetireStore
      <3>2. Cardinality(map') = Cardinality(map) - 1
        BY <2>3, MapCardinality DEF RetireStore
      <3> QED
        BY <2>3, <3>1, <3>2, MultisFit DEF RetireStore
    <2>4. CASE ForkFails
      BY <2>4 DEF ForkFails, Dead
    <2>5. CASE Insert
      <3>1. Cardinality(map') = Cardinality(map) + 1
        BY <2>5, MapCardinality DEF Insert
      <3> QED
        BY <2>5, <3>1, MultisFit DEF Insert
    <2>6. CASE ForkStore
      <3>1. reg = childNum /\ childNum \in Nat /\ childNum + 1 < NumMod
        BY <2>6, MultisFit DEF ForkStore
      <3>2. childNum' = childNum + 1
        BY <2>6, <3>1, MultisFit, ModIncrement DEF ForkStore
      <3> QED
        BY <2>6, <3>2, MultisFit DEF ForkStore
    <2>7. CASE Adjusted
      BY <2>7 DEF Adjusted
    <2>8. CASE SleepEnds
      BY <2>8 DEF SleepEnds
    <2>9. ASSUME NEW p \in Pids, Retire(p) PROVE CountsAgree'
      BY <2>9 DEF Retire
    <2>10. ASSUME NEW p \in Pids, Fork(p) PROVE CountsAgree'
      BY <2>10 DEF Fork
    <2>11. CASE Reduce
      <3>1. /\ childNum \in 0..NumMod - 1 /\ processNum \in 0..NumMod - 1
            /\ NumMod \in Nat \ {0} /\ processNum <= childNum
        BY <2>11, MultisFit DEF Reduce
      <3>2. todo' = childNum - processNum
        BY <2>11, <3>1, ModDifference DEF Reduce
      <3> QED
        BY <2>11, <3>1, <3>2 DEF Reduce
    <2>12. CASE Increase
      <3>1. /\ childNum \in 0..NumMod - 1 /\ processNum \in 0..NumMod - 1
            /\ NumMod \in Nat \ {0} /\ childNum <= processNum
        BY <2>12, MultisFit DEF Increase
      <3>2. todo' = processNum - childNum
        BY <2>12, <3>1, ModDifference DEF Increase
      <3> QED
        BY <2>12, <3>1, <3>2 DEF Increase
    <2>13. CASE ForkLoad
      BY <2>13 DEF ForkLoad
    <2> QED
      BY <1>2, <2>1, <2>2, <2>3, <2>4, <2>5, <2>6, <2>7, <2>8, <2>9, <2>10,
         <2>11, <2>12, <2>13
      DEF MasterStep
  <1>3. ASSUME NEW p \in Pids, Reap(p) PROVE CountsAgree'
    BY <1>3 DEF Reap, Dead, Awake
  <1>4. ASSUME NEW p \in Pids, Boot(p) PROVE CountsAgree'
    BY <1>4 DEF Boot
  <1>5. ASSUME NEW p \in Pids, Exit(p) PROVE CountsAgree'
    BY <1>5 DEF Exit
  <1>6. ASSUME NEW p \in Pids, Sleep(p) PROVE CountsAgree'
    BY <1>6 DEF Sleep
  <1>7. ASSUME NEW p \in Pids, Woken(p) PROVE CountsAgree'
    BY <1>7 DEF Woken
  <1>8. ASSUME NEW p \in Pids, Crash(p) PROVE CountsAgree'
    BY <1>8 DEF Crash
  <1>9. CASE UNCHANGED vars
    BY <1>9 DEF vars
  <1> QED
    BY <1>1, <1>2, <1>3, <1>4, <1>5, <1>6, <1>7, <1>8, <1>9 DEF Next

\* The count and the map agree with the kernel as long as children leave
\* only when they are told to (worker.cpp:282-287, 323-345).
THEOREM CountExactCorrect == Spec => []CountExact
  <1>1. CountInv => CountExact
    BY DEF CountInv, CountsAgree, CountExact
  <1>2. CountInv /\ [Next]_vars => CountInv'
    BY NextCountsAgree, AbruptStays DEF CountInv
  <1> QED
    BY InitCountInv, <1>1, <1>2, PTL DEF Spec

-----------------------------------------------------------------------------
(* Types.  That todo stays a number needs that a loop in progress has      *)
(* something left to do.                                                   *)

Steady ==
    /\ pc \in {"retireLoad", "retireStore", "insert", "forkLoad", "forkStore"} => todo > 0
    /\ pc = "insert" => cur \in Pids

TypeInv == TypeOK /\ Steady

LEMMA ModRange ==
    ASSUME NEW n \in Nat \ {0}, NEW a \in Nat
    PROVE  a % n \in 0..n - 1
  OBVIOUS

LEMMA InitTypeInv == Init => TypeInv
  <1>1. 0 \in 0..NumMod - 1 /\ 0 \in Nat
    BY MultisFit
  <1>2. Init => Steady
    BY DEF Init, Steady
  <1>3. Init => st \in [Pids -> {"free", "boot", "run", "wait", "zombie", "killed"}]
    BY DEF Init
  <1> QED
    BY <1>1, <1>2, <1>3 DEF Init, TypeInv, TypeOK

LEMMA NextTypeInv == TypeInv /\ [Next]_vars => TypeInv'
  <1> SUFFICES ASSUME TypeInv, [Next]_vars PROVE TypeInv'
    OBVIOUS
  <1> USE DEF TypeInv, TypeOK, Steady, masterVars
  <1>1. ASSUME NEW m \in Multis, SetMulti(m) PROVE TypeInv'
    BY <1>1 DEF SetMulti
  <1>2. /\ (reg + NumMod - 1) % NumMod \in 0..NumMod - 1 /\ (reg + 1) % NumMod \in 0..NumMod - 1
        /\ (childNum + NumMod - 1) % NumMod \in 0..NumMod - 1
        /\ (childNum + NumMod - processNum) % NumMod \in 0..NumMod - 1
        /\ (processNum + NumMod - childNum) % NumMod \in 0..NumMod - 1
    <2>1. reg + NumMod - 1 \in Nat /\ reg + 1 \in Nat /\ childNum + NumMod - 1 \in Nat
          /\ childNum + NumMod - processNum \in Nat /\ processNum + NumMod - childNum \in Nat
      BY MultisFit
    <2> QED
      BY <2>1, ModRange, MultisFit
  <1>3. ASSUME MasterStep PROVE TypeInv'
    <2>1. CASE Look
      BY <2>1, MultisFit DEF Look
    <2>2. CASE RetireLoad
      BY <2>2 DEF RetireLoad
    <2>3. CASE RetireStore
      <3>1. /\ childNum' \in 0..NumMod - 1 /\ map' \subseteq Pids /\ todo' \in Nat
            /\ cur' = NoPid /\ reg' = 0 /\ pc' = "retire"
        BY <1>2, <2>3 DEF RetireStore
      <3> QED
        BY <2>3, <3>1, MultisFit DEF RetireStore
    <2>4. CASE ForkFails
      BY <2>4 DEF ForkFails, Dead
    <2>5. CASE Insert
      BY <2>5 DEF Insert
    <2>6. CASE ForkStore
      <3>1. /\ childNum' \in 0..NumMod - 1 /\ todo' \in Nat
            /\ cur' = NoPid /\ reg' = 0 /\ pc' = "fork"
        BY <1>2, <2>6 DEF ForkStore
      <3> QED
        BY <2>6, <3>1, MultisFit DEF ForkStore
    <2>7. CASE Adjusted
      BY <2>7 DEF Adjusted
    <2>8. CASE SleepEnds
      BY <2>8 DEF SleepEnds
    <2>9. ASSUME NEW p \in Pids, Retire(p) PROVE TypeInv'
      BY <2>9 DEF Retire
    <2>10. ASSUME NEW p \in Pids, Fork(p) PROVE TypeInv'
      BY <2>10 DEF Fork
    <2>11. CASE Reduce
      <3>1. todo' \in Nat /\ processNum' = 0 /\ pc' = "retire"
        BY <1>2, <2>11 DEF Reduce
      <3> QED
        BY <2>11, <3>1, MultisFit DEF Reduce
    <2>12. CASE Increase
      <3>1. todo' \in Nat /\ processNum' = 0 /\ pc' = "fork"
        BY <1>2, <2>12 DEF Increase
      <3> QED
        BY <2>12, <3>1, MultisFit DEF Increase
    <2>13. CASE ForkLoad
      BY <2>13 DEF ForkLoad
    <2> QED
      BY <1>3, <2>1, <2>2, <2>3, <2>4, <2>5, <2>6, <2>7, <2>8, <2>9, <2>10,
         <2>11, <2>12, <2>13
      DEF MasterStep
  <1>4. ASSUME NEW p \in Pids, Reap(p) PROVE TypeInv'
    <2>1. childNum' \in 0..NumMod - 1 /\ map' \subseteq Pids
      BY <1>2, <1>4 DEF Reap
    <2>2. /\ pc' \in {"look", "reduce", "increase", "retire", "retireLoad", "retireStore",
                     "fork", "insert", "forkLoad", "forkStore", "dead"}
          /\ pc' # "look" => pc' = pc
      BY <1>4 DEF Reap, Awake
    <2> QED
      BY <1>4, <2>1, <2>2 DEF Reap
  <1>5. ASSUME NEW p \in Pids, Boot(p) PROVE TypeInv'
    BY <1>5 DEF Boot
  <1>6. ASSUME NEW p \in Pids, Exit(p) PROVE TypeInv'
    BY <1>6 DEF Exit
  <1>7. ASSUME NEW p \in Pids, Sleep(p) PROVE TypeInv'
    BY <1>7 DEF Sleep
  <1>8. ASSUME NEW p \in Pids, Woken(p) PROVE TypeInv'
    BY <1>8 DEF Woken
  <1>9. ASSUME NEW p \in Pids, Crash(p) PROVE TypeInv'
    BY <1>9 DEF Crash
  <1>10. CASE UNCHANGED vars
    BY <1>10 DEF vars
  <1> QED
    BY <1>1, <1>3, <1>4, <1>5, <1>6, <1>7, <1>8, <1>9, <1>10 DEF Next

\* The count of the children stays one of 16 bits and what is left to fork or
\* to retire a number, whatever the handler does between the load and the
\* store of either (worker.cpp:268-345).
THEOREM TypeCorrect == Spec => []TypeOK
  <1>1. TypeInv => TypeOK
    BY DEF TypeInv
  <1> QED
    BY InitTypeInv, NextTypeInv, <1>1, PTL DEF Spec

-----------------------------------------------------------------------------
(* As long as multi has only grown nobody is retired, and childNum, from   *)
(* which the master learns how many to fork, is never too small: a         *)
(* decrement of the handler may be lost in `++childNum' (worker.cpp:344),  *)
(* an increment may not.  A child that dies before it was counted takes    *)
(* the count below 0 for a moment, so that what counts is the count        *)
(* after the increment, modulo 2^16.                                       *)

\* Every process the master has forked and not reaped.
Forked == {p \in Pids : st[p] # "free"}

\* childNum once a ++ is through.
Incremented(n) == (n + 1) % NumMod

FewForked ==
    /\ quit = {} /\ \A p \in Pids : st[p] # "zombie"
    /\ pc \notin {"reduce", "retire", "retireLoad", "retireStore"}
    /\ Cardinality(Forked) <= multi
    /\ pc \in {"look", "increase", "sleep", "fork"} =>
        Cardinality(Forked) <= childNum /\ childNum + todo <= multi
    /\ pc = "increase" => childNum <= processNum /\ processNum <= multi
    /\ pc \in {"insert", "forkLoad"} =>
        /\ Cardinality(Forked) <= Incremented(childNum)
        /\ Incremented(childNum) + todo <= multi + 1
    /\ pc = "forkStore" =>
        /\ Cardinality(Forked) <= Incremented(childNum)
        /\ Incremented(childNum) <= Incremented(reg)
        /\ Incremented(reg) + todo <= multi + 1

FewInv == TypeInv /\ (~lowered => FewForked)

LEMMA ForkedCardinality ==
    ASSUME NEW p
    PROVE  /\ Cardinality(Forked) \in Nat
           /\ p \in Forked => /\ Cardinality(Forked \ {p}) = Cardinality(Forked) - 1
                            /\ Cardinality(Forked) > 0
           /\ p \notin Forked => Cardinality(Forked \cup {p}) = Cardinality(Forked) + 1
  <1>1. Forked \in SUBSET Pids
    BY DEF Forked
  <1>2. /\ Cardinality(Forked) \in Nat
        /\ p \in Forked => Cardinality(Forked \ {p}) = Cardinality(Forked) - 1
        /\ p \notin Forked => Cardinality(Forked \cup {p}) = Cardinality(Forked) + 1
        /\ Cardinality(Forked) = 0 <=> Forked = {}
    BY <1>1, MapCardinality
  <1> QED
    BY <1>2

LEMMA IncrementedNat == ASSUME NEW n \in Nat PROVE Incremented(n) \in 0..NumMod - 1
  <1>1. n + 1 \in Nat
    OBVIOUS
  <1> QED
    BY <1>1, ModRange, MultisFit DEF Incremented

\* No overflow below the size asked for.
LEMMA IncrementedBelow ==
    ASSUME NEW n \in Nat, NEW m \in Multis, n < m
    PROVE  Incremented(n) = n + 1
  <1>1. m \in Nat /\ m < NumMod /\ NumMod \in Nat \ {0}
    BY MultisFit
  <1> QED
    BY <1>1, ModIncrement DEF Incremented

\* A decrement and an increment, in 16 bits.
LEMMA DownAndUp ==
    ASSUME NEW n \in 0..NumMod - 1, Incremented(n) > 0
    PROVE  LET d == (n + NumMod - 1) % NumMod
           IN  Incremented(d) = Incremented(n) - 1
  <1> DEFINE d == (n + NumMod - 1) % NumMod
  <1> SUFFICES Incremented(d) = Incremented(n) - 1
    OBVIOUS
  <1>1. NumMod \in Nat \ {0}
    BY MultisFit
  <1>2. Incremented(n) = n + 1
    <2>1. n # NumMod - 1
      <3>1. NumMod % NumMod = 0
        BY <1>1
      <3>2. n = NumMod - 1 => n + 1 = NumMod
        BY <1>1
      <3> QED
        BY <3>1, <3>2 DEF Incremented
    <2>2. n \in Nat /\ n + 1 < NumMod
      BY <1>1, <2>1
    <2> QED
      BY <1>1, <2>2, ModIncrement DEF Incremented
  <1>3. CASE n = 0
    <2>1. d = NumMod - 1
      BY <1>1, <1>3
    <2>2. Incremented(d) = NumMod % NumMod
      BY <1>1, <2>1 DEF Incremented
    <2>3. NumMod % NumMod = 0 /\ Incremented(n) = 1
      BY <1>1, <1>2, <1>3
    <2> HIDE DEF d
    <2> QED
      BY <2>2, <2>3
  <1>4. CASE n > 0
    <2>1. d = n - 1
      BY <1>1, <1>4, ModDecrement
    <2>2. n - 1 \in Nat /\ (n - 1) + 1 < NumMod /\ (n - 1) + 1 = n
      BY <1>1, <1>4
    <2>3. Incremented(n - 1) = n
      BY <1>1, <2>2, ModIncrement DEF Incremented
    <2> HIDE DEF d
    <2> QED
      BY <1>2, <2>1, <2>3
  <1> QED
    BY <1>1, <1>3, <1>4

LEMMA PoolNumbers ==
    ASSUME TypeInv
    PROVE  /\ Cardinality(Forked) \in Nat /\ multi \in Nat /\ multi \in Multis
           /\ childNum \in 0..NumMod - 1
           /\ childNum \in Nat /\ reg \in Nat /\ todo \in Nat /\ processNum \in Nat
           /\ processNum \in 0..NumMod - 1
           /\ Incremented(childNum) \in Nat /\ Incremented(reg) \in Nat
  <1>1. /\ multi \in Multis /\ childNum \in 0..NumMod - 1 /\ reg \in 0..NumMod - 1
        /\ todo \in Nat /\ processNum \in 0..NumMod - 1
    BY DEF TypeInv, TypeOK
  <1>2. NumMod \in Nat \ {0} /\ multi \in 0..NumMod - 1
    BY <1>1, MultisFit
  <1>3. childNum \in Nat /\ reg \in Nat /\ multi \in Nat /\ processNum \in Nat
    BY <1>1, <1>2
  <1>4. Incremented(childNum) \in 0..NumMod - 1 /\ Incremented(reg) \in 0..NumMod - 1
    BY <1>3, IncrementedNat
  <1>5. Incremented(childNum) \in Nat /\ Incremented(reg) \in Nat
    BY <1>2, <1>4
  <1> QED
    BY <1>1, <1>3, <1>5, ForkedCardinality

LEMMA InitFewForked == Init => FewForked
  <1> SUFFICES ASSUME Init PROVE FewForked
    OBVIOUS
  <1>1. Cardinality(Forked) = 0
    <2>1. Forked = {}
      BY DEF Init, Forked
    <2> QED
      BY <2>1, FS_EmptySet
  <1>2. multi \in Nat
    BY MultisFit DEF Init
  <1> QED
    BY <1>1, <1>2 DEF Init, FewForked

LEMMA LoweredStays == [Next]_vars /\ ~lowered' => ~lowered
  BY DEF Next, MasterStep, SetMulti, Look, Retire, RetireLoad, RetireStore, Fork,
         Reduce, Increase, ForkFails, Insert, ForkLoad, ForkStore, Adjusted, SleepEnds, Reap, Boot, Exit,
         Sleep, Woken, Crash, vars, masterVars

\* The master's own steps: it never retires, and counts what it forks.
LEMMA MasterFewForked ==
    ASSUME TypeInv, FewForked, MasterStep
    PROVE  FewForked'
  <1>1. /\ Cardinality(Forked) \in Nat /\ multi \in Nat /\ multi \in Multis
        /\ childNum \in Nat /\ reg \in Nat /\ todo \in Nat /\ processNum \in Nat
        /\ Incremented(childNum) \in Nat /\ Incremented(reg) \in Nat
    BY PoolNumbers
  <1>2. pc \notin {"reduce", "retire", "retireLoad", "retireStore"}
    BY DEF FewForked
  <1>3. CASE Look
    <2>1. childNum <= multi
      BY <1>1, <1>3 DEF Look, FewForked
    <2>2. pc' = "increase" /\ processNum' = multi /\ UNCHANGED <<multi, quit, st, childNum, todo>>
      BY <1>1, <1>3, <2>1 DEF Look
    <2>3. Forked' = Forked
      BY <2>2 DEF Forked
    <2> QED
      BY <1>1, <1>3, <2>1, <2>2, <2>3 DEF Look, FewForked
  <1>4. CASE Reduce \/ RetireLoad \/ RetireStore \/ \E p \in Pids : Retire(p)
    BY <1>2, <1>4 DEF Reduce, RetireLoad, RetireStore, Retire
  <1>5. CASE ForkFails
    <2>1. Forked' \subseteq Forked /\ Forked \in SUBSET Pids
      BY <1>5 DEF ForkFails, Forked
    <2>2. Cardinality(Forked') \in Nat /\ Cardinality(Forked') <= Cardinality(Forked)
      BY <2>1, PidsFinite, FS_Subset, FS_CardinalityType
    <2>3. Cardinality(Forked') <= multi'
      BY <1>1, <1>5, <2>2 DEF ForkFails, FewForked
    <2>4. quit' = {} /\ pc' = "dead" /\ \A p \in Pids : st'[p] # "zombie"
      BY <1>5 DEF ForkFails, FewForked, Dead
    <2> QED
      BY <2>3, <2>4 DEF FewForked
  <1>6. ASSUME NEW p \in Pids, Fork(p) PROVE FewForked'
    <2>1. Forked' = Forked \cup {p} /\ p \notin Forked
      BY <1>6 DEF Fork, Forked, TypeInv, TypeOK
    <2>2. Cardinality(Forked') = Cardinality(Forked) + 1
      BY <2>1, ForkedCardinality
    <2>3. Cardinality(Forked) <= childNum /\ childNum + todo <= multi /\ todo > 0
      BY <1>6 DEF Fork, FewForked
    <2>4. childNum < multi
      BY <1>1, <2>3
    <2>5. Incremented(childNum) = childNum + 1
      BY <1>1, <2>4, IncrementedBelow
    <2>6. UNCHANGED <<multi, quit, childNum, todo>> /\ pc' = "insert"
      BY <1>6 DEF Fork
    <2>7. Incremented(childNum)' = Incremented(childNum)
      BY <2>6 DEF Incremented
    <2>8. \A q \in Pids : st'[q] # "zombie"
      BY <1>6 DEF Fork, FewForked, TypeInv, TypeOK
    <2>9. Cardinality(Forked') <= multi' /\ Cardinality(Forked') <= Incremented(childNum)'
      BY <1>1, <2>2, <2>3, <2>4, <2>5, <2>6, <2>7
    <2>10. Incremented(childNum)' + todo' <= multi' + 1
      BY <1>1, <2>3, <2>5, <2>6, <2>7
    <2> QED
      BY <2>6, <2>8, <2>9, <2>10 DEF FewForked
  <1>7. CASE Insert \/ ForkLoad
    BY <1>1, <1>7 DEF Insert, ForkLoad, FewForked, Forked, Incremented
  <1>8. CASE ForkStore
    <2>1. /\ childNum' = Incremented(reg) /\ todo' = todo - 1 /\ pc' = "fork"
          /\ UNCHANGED <<multi, quit, st>>
      BY <1>8 DEF ForkStore, Incremented
    <2>2. /\ Cardinality(Forked) <= Incremented(childNum)
          /\ Incremented(childNum) <= Incremented(reg) /\ Incremented(reg) + todo <= multi + 1
      BY <1>8 DEF ForkStore, FewForked
    <2>3. Forked' = Forked
      BY <2>1 DEF Forked
    <2>4. Cardinality(Forked') <= childNum' /\ childNum' + todo' <= multi'
      BY <1>1, <2>1, <2>2, <2>3
    <2> QED
      BY <2>1, <2>3, <2>4 DEF FewForked
  <1>9. CASE Adjusted \/ SleepEnds
    <2>1. /\ pc' \in {"sleep", "look"} /\ pc \in {"fork", "sleep"}
          /\ todo' \in {0, todo} /\ UNCHANGED <<multi, quit, st, childNum>>
      BY <1>2, <1>9 DEF Adjusted, SleepEnds
    <2>2. Forked' = Forked
      BY <2>1 DEF Forked
    <2>3. Cardinality(Forked) <= childNum /\ childNum + todo <= multi
      BY <2>1 DEF FewForked
    <2>4. childNum' + todo' <= multi'
      <3>1. childNum + 0 <= multi /\ childNum + todo <= multi
        BY <1>1, <2>3
      <3>2. childNum + todo' <= multi
        BY <2>1, <3>1
      <3> QED
        BY <2>1, <3>2
    <2> QED
      BY <2>1, <2>2, <2>3, <2>4 DEF FewForked
  <1>10. CASE Increase
    <2>1. /\ Cardinality(Forked) <= childNum /\ childNum <= processNum /\ processNum <= multi
          /\ Cardinality(Forked) <= multi
      BY <1>10 DEF Increase, FewForked
    <2>2. todo' = processNum - childNum
      <3>1. childNum \in 0..NumMod - 1 /\ processNum \in 0..NumMod - 1
        BY PoolNumbers
      <3> QED
        BY <1>10, <2>1, <3>1, ModDifference, MultisFit DEF Increase
    <2>3. pc' = "fork" /\ UNCHANGED <<multi, quit, st, childNum>>
      BY <1>10 DEF Increase
    <2>4. Forked' = Forked
      BY <2>3 DEF Forked
    <2>5. childNum' + todo' <= multi'
      BY <1>1, <2>1, <2>2, <2>3
    <2> QED
      BY <2>1, <2>3, <2>4, <2>5 DEF FewForked
  <1> QED
    BY <1>3, <1>4, <1>5, <1>6, <1>7, <1>8, <1>9, <1>10 DEF MasterStep

\* The handler takes one from the count for one that has died.
LEMMA ReapFewForked ==
    ASSUME TypeInv, FewForked, NEW p \in Pids, Reap(p)
    PROVE  FewForked'
  <1> DEFINE d == (childNum + NumMod - 1) % NumMod
  <1>1. /\ Cardinality(Forked) \in Nat /\ multi \in Nat /\ childNum \in 0..NumMod - 1
        /\ childNum \in Nat /\ reg \in Nat /\ todo \in Nat /\ processNum \in Nat
        /\ Incremented(childNum) \in Nat /\ Incremented(reg) \in Nat
    BY PoolNumbers
  <1>2. /\ st[p] = "killed" /\ quit' = {} /\ childNum' = d
        /\ st' = [st EXCEPT ![p] = "free"] /\ UNCHANGED <<multi, todo, processNum, reg>>
    BY DEF Reap, Dead, FewForked
  <1>3. Forked' = Forked \ {p} /\ p \in Forked /\ \A q \in Pids : st'[q] # "zombie"
    BY <1>2 DEF Forked, FewForked, TypeInv, TypeOK
  <1>4. /\ Cardinality(Forked') = Cardinality(Forked) - 1 /\ Cardinality(Forked) > 0
        /\ Cardinality(Forked) <= multi
    BY <1>3, ForkedCardinality DEF FewForked
  <1>5. /\ pc' \in {"look", "increase", "fork", "insert", "forkLoad", "forkStore"} \/ pc' = pc
        /\ pc' = "look" => pc \in {"look", "sleep"}
        /\ pc' # "look" => pc' = pc
    BY DEF Reap, Awake
  <1>6. CASE pc \in {"look", "increase", "sleep", "fork"}
    <2>1. /\ Cardinality(Forked) <= childNum /\ childNum + todo <= multi
      BY <1>6 DEF FewForked
    <2>2. childNum > 0
      BY <1>1, <1>4, <2>1
    <2>3. d = childNum - 1
      BY <1>1, <2>2, ModDecrement, MultisFit
    <2> HIDE DEF d
    <2>4. Cardinality(Forked') <= childNum' /\ childNum' + todo' <= multi'
      BY <1>1, <1>2, <1>4, <2>1, <2>3
    <2>5. Cardinality(Forked') <= multi'
      BY <1>1, <1>2, <1>4
    <2>6. /\ pc' \in {"look", "increase", "sleep", "fork"}
          /\ pc' = "increase" => pc = "increase"
      BY <1>5, <1>6
    <2>7. pc' = "increase" => childNum' <= processNum' /\ processNum' <= multi'
      BY <1>1, <1>2, <2>3, <2>6 DEF FewForked
    <2> QED
      BY <1>2, <1>3, <2>4, <2>5, <2>6, <2>7 DEF FewForked
  <1>7. CASE pc \in {"insert", "forkLoad", "forkStore"}
    <2>1. Cardinality(Forked) <= Incremented(childNum)
      BY <1>7 DEF FewForked
    <2>2. Incremented(childNum) > 0
      BY <1>1, <1>4, <2>1
    <2>3. Incremented(d) = Incremented(childNum) - 1
      BY <1>1, <2>2, DownAndUp
    <2> HIDE DEF d
    <2>4. Incremented(childNum)' = Incremented(d) /\ Incremented(reg)' = Incremented(reg)
      BY <1>2 DEF Incremented
    <2>5. pc' = pc
      BY <1>5, <1>7
    <2>6. /\ Cardinality(Forked') <= multi'
          /\ Cardinality(Forked') <= Incremented(childNum)'
      BY <1>1, <1>2, <1>4, <2>1, <2>3, <2>4
    <2>7. CASE pc \in {"insert", "forkLoad"}
      <3>1. Incremented(childNum) + todo <= multi + 1
        BY <2>7 DEF FewForked
      <3>2. Incremented(childNum)' + todo' <= multi' + 1
        BY <1>1, <1>2, <2>3, <2>4, <3>1
      <3> QED
        BY <1>2, <1>3, <2>5, <2>6, <2>7, <3>2 DEF FewForked
    <2>8. CASE pc = "forkStore"
      <3>1. Incremented(childNum) <= Incremented(reg) /\ Incremented(reg) + todo <= multi + 1
        BY <2>8 DEF FewForked
      <3>2. /\ Incremented(childNum)' <= Incremented(reg)'
            /\ Incremented(reg)' + todo' <= multi' + 1
        BY <1>1, <1>2, <2>3, <2>4, <3>1
      <3> QED
        BY <1>2, <1>3, <2>5, <2>6, <2>8, <3>2 DEF FewForked
    <2> QED
      BY <1>7, <2>7, <2>8
  <1>8. pc \in {"look", "increase", "sleep", "fork", "insert", "forkLoad", "forkStore"}
    BY DEF Reap, FewForked, TypeInv, TypeOK
  <1> QED
    BY <1>6, <1>7, <1>8

\* multi grows, or a child moves: what is forked stays or shrinks.
LEMMA OtherFewForked ==
    ASSUME TypeInv, FewForked, Forked' \subseteq Forked, UNCHANGED masterVars, quit' = {},
           \A p \in Pids : st'[p] # "zombie", multi' \in Nat, multi <= multi'
    PROVE  FewForked'
  <1>1. /\ Cardinality(Forked) \in Nat /\ multi \in Nat /\ childNum \in Nat /\ todo \in Nat
        /\ processNum \in Nat
        /\ Incremented(childNum) \in Nat /\ Incremented(reg) \in Nat
    BY PoolNumbers
  <1>2. Cardinality(Forked') \in Nat /\ Cardinality(Forked') <= Cardinality(Forked)
    <2>1. Forked \in SUBSET Pids
      BY DEF Forked
    <2> QED
      BY <2>1, PidsFinite, FS_Subset, FS_CardinalityType
  <1>3. /\ UNCHANGED <<pc, todo, processNum, childNum, reg>>
        /\ Incremented(childNum)' = Incremented(childNum) /\ Incremented(reg)' = Incremented(reg)
    BY DEF masterVars, Incremented
  <1>4. Cardinality(Forked') <= multi'
    BY <1>1, <1>2 DEF FewForked
  <1>5. ASSUME pc \in {"look", "increase", "sleep", "fork"}
        PROVE  Cardinality(Forked') <= childNum' /\ childNum' + todo' <= multi'
    BY <1>1, <1>2, <1>3, <1>5 DEF FewForked
  <1>6. ASSUME pc \in {"insert", "forkLoad"}
        PROVE  /\ Cardinality(Forked') <= Incremented(childNum)'
               /\ Incremented(childNum)' + todo' <= multi' + 1
    BY <1>1, <1>2, <1>3, <1>6 DEF FewForked
  <1>7. ASSUME pc = "forkStore"
        PROVE  /\ Cardinality(Forked') <= Incremented(childNum)'
               /\ Incremented(childNum)' <= Incremented(reg)'
               /\ Incremented(reg)' + todo' <= multi' + 1
    BY <1>1, <1>2, <1>3, <1>7 DEF FewForked
  <1>8. ASSUME pc = "increase"
        PROVE  childNum' <= processNum' /\ processNum' <= multi'
    BY <1>1, <1>3, <1>8 DEF FewForked
  <1> QED
    BY <1>3, <1>4, <1>5, <1>6, <1>7, <1>8 DEF FewForked

LEMMA NextFewForked ==
    ASSUME TypeInv, FewForked, ~lowered', [Next]_vars
    PROVE  FewForked'
  <1>1. multi \in Nat /\ multi <= multi
    BY PoolNumbers
  <1>2. ASSUME NEW m \in Multis, SetMulti(m) PROVE FewForked'
    <2>1. m \in Nat
      BY MultisFit
    <2>2. multi' = m /\ ~(m < multi)
      BY <1>2 DEF SetMulti
    <2>3. multi <= m
      BY <1>1, <2>1, <2>2
    <2> QED
      BY <1>2, <2>1, <2>2, <2>3, OtherFewForked DEF SetMulti, FewForked, Forked
  <1>3. ASSUME NEW p \in Pids, Boot(p) \/ Sleep(p) \/ Woken(p) PROVE FewForked'
    <2>1. /\ Forked' \subseteq Forked /\ UNCHANGED <<multi, masterVars>> /\ quit' = {}
          /\ \A q \in Pids : st'[q] # "zombie"
      BY <1>3 DEF Boot, Sleep, Woken, Forked, FewForked, TypeInv, TypeOK
    <2> QED
      BY <1>1, <2>1, OtherFewForked
  <1>4. ASSUME NEW p \in Pids, Exit(p) \/ Crash(p) PROVE FewForked'
    <2>1. /\ Forked' \subseteq Forked /\ UNCHANGED <<multi, masterVars>> /\ quit' = {}
          /\ \A q \in Pids : st'[q] # "zombie"
      BY <1>4 DEF Exit, Crash, Alive, Forked, FewForked, TypeInv, TypeOK
    <2> QED
      BY <1>1, <2>1, OtherFewForked
  <1>5. CASE UNCHANGED vars
    <2>1. Forked' = Forked /\ UNCHANGED <<multi, quit, st, masterVars>>
      BY <1>5 DEF vars, Forked
    <2> QED
      BY <1>1, <2>1, OtherFewForked DEF FewForked
  <1> QED
    BY <1>2, <1>3, <1>4, <1>5, MasterFewForked, ReapFewForked DEF Next

\* Until the server lowers multi, never more children work than it asked for:
\* neither a death between fork() and insert, nor one whose decrement the
\* master's `++childNum' overwrites, makes it fork one too many
\* (worker.cpp:268-345).
THEOREM NotTooManyCorrect == Spec => []NotTooMany
  <1>1. Init => FewInv
    BY InitTypeInv, InitFewForked DEF FewInv
  <1>2. FewInv /\ [Next]_vars => FewInv'
    BY NextTypeInv, NextFewForked, LoweredStays DEF FewInv
  <1>3. FewInv => NotTooMany
    <2> SUFFICES ASSUME FewInv, ~lowered PROVE Cardinality(InService) <= multi
      BY DEF NotTooMany
    <2>1. /\ InService \subseteq Forked /\ Forked \in SUBSET Pids
      BY DEF InService, Alive, Forked
    <2>2. Cardinality(InService) \in Nat /\ Cardinality(InService) <= Cardinality(Forked)
      <3>1. IsFiniteSet(Forked)
        BY <2>1, PidsFinite, FS_Subset
      <3> QED
        BY <2>1, <3>1, FS_Subset, FS_CardinalityType
    <2>3. Cardinality(Forked) \in Nat /\ Cardinality(Forked) <= multi /\ multi \in Nat
      BY PoolNumbers DEF FewInv, FewForked
    <2> QED
      BY <2>2, <2>3
  <1> QED
    BY <1>1, <1>2, <1>3, PTL DEF Spec
=============================================================================
