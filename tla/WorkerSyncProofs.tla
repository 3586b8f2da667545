-------------------------- MODULE WorkerSyncProofs --------------------------
(***************************************************************************)
(* Proofs about WorkerSync, for every set of children, every batch size    *)
(* and every combination of failing asserts.                               *)
(*                                                                         *)
(* None of the properties is inductive alone.  They rest on LockInv, which *)
(* says what holding a mutex means in terms of the program counters: with  *)
(* it the critical section of childLock is exclusive (PushInv), and the    *)
(* worker's notification on consumeLock and its wait on productLock are    *)
(* ordered against those of every child (SleepInv).                        *)
(***************************************************************************)
EXTENDS WorkerSync, TLAPS

HoldsChild(c) == pc[c] \in {"pull", "load", "store", "childUnlock"}
HoldsConsume(c) == pc[c] \in {"notifyProduct", "consumeHeld", "consumeUnlock"}
HoldsProduct ==
    pc[Worker] \in {"haveSendInfo", "notifyConsume", "productHeld", "productUnlock"}

LockInv ==
    /\ \A c \in Children : HoldsChild(c) => owner["child"] = c
    /\ \A c \in Children : HoldsConsume(c) => owner["consume"] = c
    /\ HoldsProduct => owner["product"] = Worker

PushInv ==
    /\ \A c \in Children :
        /\ pc[c] = "load" => pulled = havePushNum + batch[c]
        /\ pc[c] = "store" => pulled = reg[c] + batch[c]
    /\ PushNumExact

\* From its notification of consumeLock to the end of its sleep the worker
\* knows that no child has spent its own notification.
SleepInv ==
    /\ Worker \in asleep["product"] => pc[Worker] = "productWait"
    /\ pc[Worker] = "productHeld" \/ Worker \in asleep["product"] =>
        \A c \in Children : c \notin asleep["consume"] /\ pc[c] # "consumeHeld"

IInv == TypeOK /\ LockInv /\ PushInv /\ SleepInv

-----------------------------------------------------------------------------
LEMMA InitTypeOK == Init => TypeOK
  BY ProcsDistinct DEF Init, TypeOK, Procs, Statuses, Locks, ChildLabels,
     WorkerLabels, MasterLabels, MainLabels

LEMMA InitIInv == Init => IInv
  <1> SUFFICES ASSUME Init PROVE IInv
    OBVIOUS
  <1>1. TypeOK
    BY InitTypeOK
  <1>2. pc[Worker] = "fork" /\ \A c \in Children : pc[c] = "dead"
    BY ProcsDistinct DEF Init, Procs
  <1>3. asleep["product"] = {}
    BY DEF Init, Locks
  <1>4. havePushNum = pulled
    BY DEF Init
  <1> QED
    BY <1>1, <1>2, <1>3, <1>4
    DEF IInv, LockInv, HoldsChild, HoldsConsume, HoldsProduct, PushInv,
        PushNumExact, SleepInv

LEMMA NextTypeOK == TypeOK /\ [Next]_vars => TypeOK'
  <1> SUFFICES ASSUME TypeOK, [Next]_vars PROVE TypeOK'
    OBVIOUS
  <1> USE ProcsDistinct, BoundsNat, CommandsKnown
      DEF TypeOK, Procs, Waiters, Locks, Statuses, ChildLabels, WorkerLabels,
          MasterLabels, MainLabels, pushVars
  <1>1. ASSUME SetStatus PROVE TypeOK'
    BY <1>1 DEF SetStatus, Goto
  <1>2. ASSUME NotifyLock PROVE TypeOK'
    BY <1>2 DEF NotifyLock, Goto, Lock
  <1>3. ASSUME NotifyBroadcast PROVE TypeOK'
    BY <1>3 DEF NotifyBroadcast, Goto, Unlock
  <1>4. ASSUME NEW p \in Waiters, CommandLock(p) PROVE TypeOK'
    BY <1>4 DEF CommandLock, Goto, Lock
  <1>5. ASSUME NEW p \in Waiters, CommandWait(p) PROVE TypeOK'
    BY <1>5 DEF CommandWait, Goto, Wait, Unlock
  <1>6. ASSUME NEW p \in Waiters, CommandWake(p) PROVE TypeOK'
    BY <1>6 DEF CommandWake, Goto, Wake, Lock
  <1>7. ASSUME NEW p \in Waiters, CommandUnlock(p) PROVE TypeOK'
    BY <1>7 DEF CommandUnlock, Goto, Unlock
  <1>8. ASSUME WorkerStep PROVE TypeOK'
    <2>1. CASE ForkMaster
      BY <2>1 DEF ForkMaster
    <2>2. CASE WorkerCheck
      BY <2>2 DEF WorkerCheck, Goto
    <2>3. CASE ProductLock
      BY <2>3 DEF ProductLock, Goto, Lock
    <2>4. CASE HaveSendInfo
      BY <2>4 DEF HaveSendInfo, Goto
    <2>5. CASE NotifyConsume
      BY <2>5 DEF NotifyConsume, Goto, NotifyAll
    <2>6. CASE ProductWait
      BY <2>6 DEF ProductWait, Goto, Wait, Unlock
    <2>7. CASE ProductWake
      BY <2>7 DEF ProductWake, Goto, Wake, Lock
    <2>8. CASE ProductUnlock
      BY <2>8 DEF ProductUnlock, Goto, Unlock
    <2> QED
      BY <1>8, <2>1, <2>2, <2>3, <2>4, <2>5, <2>6, <2>7, <2>8 DEF WorkerStep
  <1>9. ASSUME WorkerAssert PROVE TypeOK'
    BY <1>9 DEF WorkerAssert
  <1>10. ASSUME MasterCheck PROVE TypeOK'
    BY <1>10 DEF MasterCheck, Goto
  <1>11. ASSUME NEW c \in Children, ChildStep(c) PROVE TypeOK'
    <2>1. CASE ChildCheck(c)
      BY <2>1 DEF ChildCheck, Goto
    <2>2. CASE ChildLock(c)
      BY <2>2 DEF ChildLock, Goto, Lock
    <2>3. CASE Pull(c)
      BY <2>3 DEF Pull, Goto
    <2>4. CASE PushLoad(c)
      BY <2>4 DEF PushLoad, Goto
    <2>5. CASE PushStore(c)
      BY <2>5 DEF PushStore, Goto
    <2>6. CASE ChildUnlock(c)
      BY <2>6 DEF ChildUnlock, Goto, Unlock
    <2>7. CASE SendAll(c)
      BY <2>7 DEF SendAll, Goto
    <2>8. CASE ConsumeLock(c)
      BY <2>8 DEF ConsumeLock, Goto, Lock
    <2>9. CASE NotifyProduct(c)
      BY <2>9 DEF NotifyProduct, Goto, NotifyAll
    <2>10. CASE ConsumeWait(c)
      BY <2>10 DEF ConsumeWait, Goto, Wait, Unlock
    <2>11. CASE ConsumeWake(c)
      BY <2>11 DEF ConsumeWake, Goto, Wake, Lock
    <2>12. CASE ConsumeUnlock(c)
      BY <2>12 DEF ConsumeUnlock, Goto, Unlock
    <2> QED
      BY <1>11, <2>1, <2>2, <2>3, <2>4, <2>5, <2>6, <2>7, <2>8, <2>9, <2>10,
         <2>11, <2>12 DEF ChildStep
  <1>12. ASSUME NEW c \in Children, ChildExit(c) PROVE TypeOK'
    BY <1>12 DEF ChildExit, Goto
  <1>13. ASSUME NEW c \in Children, PullAssert(c) PROVE TypeOK'
    BY <1>13 DEF PullAssert, Goto
  <1>14. ASSUME SpuriousWakeup PROVE TypeOK'
    BY <1>14 DEF SpuriousWakeup
  <1>15. CASE UNCHANGED vars
    BY <1>15 DEF vars
  <1> QED
    BY <1>1, <1>2, <1>3, <1>4, <1>5, <1>6, <1>7, <1>8, <1>9, <1>10, <1>11,
       <1>12, <1>13, <1>14, <1>15 DEF Next, CommandStep

-----------------------------------------------------------------------------
(* The inductive invariant.                                                *)

LEMMA NextLockInv == TypeOK /\ LockInv /\ [Next]_vars => LockInv'
  <1> SUFFICES ASSUME TypeOK, LockInv, [Next]_vars PROVE LockInv'
    OBVIOUS
  <1> USE ProcsDistinct
      DEF TypeOK, Procs, Waiters, Locks, pushVars, LockInv, HoldsChild,
          HoldsConsume, HoldsProduct
  <1>1. ASSUME SetStatus PROVE LockInv'
    BY <1>1 DEF SetStatus, Goto
  <1>2. ASSUME NotifyLock PROVE LockInv'
    BY <1>2 DEF NotifyLock, Goto, Lock
  <1>3. ASSUME NotifyBroadcast PROVE LockInv'
    BY <1>3 DEF NotifyBroadcast, Goto, Unlock
  <1>4. ASSUME NEW p \in Waiters, CommandLock(p) PROVE LockInv'
    BY <1>4 DEF CommandLock, Goto, Lock
  <1>5. ASSUME NEW p \in Waiters, CommandWait(p) PROVE LockInv'
    BY <1>5 DEF CommandWait, Goto, Wait, Unlock
  <1>6. ASSUME NEW p \in Waiters, CommandWake(p) PROVE LockInv'
    BY <1>6 DEF CommandWake, Goto, Wake, Lock
  <1>7. ASSUME NEW p \in Waiters, CommandUnlock(p) PROVE LockInv'
    BY <1>7 DEF CommandUnlock, Goto, Unlock
  <1>8. ASSUME WorkerStep PROVE LockInv'
    <2>1. CASE ForkMaster
      BY <2>1 DEF ForkMaster
    <2>2. CASE WorkerCheck
      BY <2>2 DEF WorkerCheck, Goto
    <2>3. CASE ProductLock
      BY <2>3 DEF ProductLock, Goto, Lock
    <2>4. CASE HaveSendInfo
      BY <2>4 DEF HaveSendInfo, Goto
    <2>5. CASE NotifyConsume
      BY <2>5 DEF NotifyConsume, Goto, NotifyAll
    <2>6. CASE ProductWait
      BY <2>6 DEF ProductWait, Goto, Wait, Unlock
    <2>7. CASE ProductWake
      BY <2>7 DEF ProductWake, Goto, Wake, Lock
    <2>8. CASE ProductUnlock
      BY <2>8 DEF ProductUnlock, Goto, Unlock
    <2> QED
      BY <1>8, <2>1, <2>2, <2>3, <2>4, <2>5, <2>6, <2>7, <2>8
      DEF WorkerStep
  <1>9. ASSUME WorkerAssert PROVE LockInv'
    BY <1>9 DEF WorkerAssert
  <1>10. ASSUME MasterCheck PROVE LockInv'
    BY <1>10 DEF MasterCheck, Goto
  <1>11. ASSUME NEW c \in Children, ChildStep(c) PROVE LockInv'
    <2>1. CASE ChildCheck(c)
      BY <2>1 DEF ChildCheck, Goto
    <2>2. CASE ChildLock(c)
      BY <2>2 DEF ChildLock, Goto, Lock
    <2>3. CASE Pull(c)
      BY <2>3 DEF Pull, Goto
    <2>4. CASE PushLoad(c)
      BY <2>4 DEF PushLoad, Goto
    <2>5. CASE PushStore(c)
      BY <2>5 DEF PushStore, Goto
    <2>6. CASE ChildUnlock(c)
      BY <2>6 DEF ChildUnlock, Goto, Unlock
    <2>7. CASE SendAll(c)
      BY <2>7 DEF SendAll, Goto
    <2>8. CASE ConsumeLock(c)
      BY <2>8 DEF ConsumeLock, Goto, Lock
    <2>9. CASE NotifyProduct(c)
      BY <2>9 DEF NotifyProduct, Goto, NotifyAll
    <2>10. CASE ConsumeWait(c)
      BY <2>10 DEF ConsumeWait, Goto, Wait, Unlock
    <2>11. CASE ConsumeWake(c)
      BY <2>11 DEF ConsumeWake, Goto, Wake, Lock
    <2>12. CASE ConsumeUnlock(c)
      BY <2>12 DEF ConsumeUnlock, Goto, Unlock
    <2> QED
      BY <1>11, <2>1, <2>2, <2>3, <2>4, <2>5, <2>6, <2>7, <2>8, <2>9, <2>10, <2>11, <2>12
      DEF ChildStep
  <1>12. ASSUME NEW c \in Children, ChildExit(c) PROVE LockInv'
    BY <1>12 DEF ChildExit, Goto
  <1>13. ASSUME NEW c \in Children, PullAssert(c) PROVE LockInv'
    BY <1>13 DEF PullAssert, Goto
  <1>14. ASSUME SpuriousWakeup PROVE LockInv'
    BY <1>14 DEF SpuriousWakeup
  <1>15. CASE UNCHANGED vars
    BY <1>15 DEF vars
  <1> QED
    BY <1>1, <1>2, <1>3, <1>4, <1>5, <1>6, <1>7, <1>8, <1>9, <1>10,
       <1>11, <1>12, <1>13, <1>14, <1>15
    DEF Next, CommandStep

\* Two children are never both between their pull and their store.
LEMMA PushExclusive ==
    LockInv => \A c, d \in Children : HoldsChild(c) /\ HoldsChild(d) => c = d
  BY DEF LockInv

LEMMA NextPushInv ==
    TypeOK /\ LockInv /\ PushInv /\ [Next]_vars => PushInv'
  <1> SUFFICES ASSUME TypeOK, LockInv, PushInv, [Next]_vars PROVE PushInv'
    OBVIOUS
  <1> USE ProcsDistinct, BoundsNat, PushExclusive
      DEF TypeOK, Procs, Waiters, pushVars, PushInv, PushNumExact, HoldsChild
  <1>1. ASSUME SetStatus PROVE PushInv'
    BY <1>1 DEF SetStatus, Goto
  <1>2. ASSUME NotifyLock PROVE PushInv'
    BY <1>2 DEF NotifyLock, Goto, Lock
  <1>3. ASSUME NotifyBroadcast PROVE PushInv'
    BY <1>3 DEF NotifyBroadcast, Goto, Unlock
  <1>4. ASSUME NEW p \in Waiters, CommandLock(p) PROVE PushInv'
    BY <1>4 DEF CommandLock, Goto, Lock
  <1>5. ASSUME NEW p \in Waiters, CommandWait(p) PROVE PushInv'
    BY <1>5 DEF CommandWait, Goto, Wait, Unlock
  <1>6. ASSUME NEW p \in Waiters, CommandWake(p) PROVE PushInv'
    BY <1>6 DEF CommandWake, Goto, Wake, Lock
  <1>7. ASSUME NEW p \in Waiters, CommandUnlock(p) PROVE PushInv'
    BY <1>7 DEF CommandUnlock, Goto, Unlock
  <1>8. ASSUME WorkerStep PROVE PushInv'
    <2>1. CASE ForkMaster
      BY <2>1 DEF ForkMaster
    <2>2. CASE WorkerCheck
      BY <2>2 DEF WorkerCheck, Goto
    <2>3. CASE ProductLock
      BY <2>3 DEF ProductLock, Goto, Lock
    <2>4. CASE HaveSendInfo
      BY <2>4 DEF HaveSendInfo, Goto
    <2>5. CASE NotifyConsume
      BY <2>5 DEF NotifyConsume, Goto, NotifyAll
    <2>6. CASE ProductWait
      BY <2>6 DEF ProductWait, Goto, Wait, Unlock
    <2>7. CASE ProductWake
      BY <2>7 DEF ProductWake, Goto, Wake, Lock
    <2>8. CASE ProductUnlock
      BY <2>8 DEF ProductUnlock, Goto, Unlock
    <2> QED
      BY <1>8, <2>1, <2>2, <2>3, <2>4, <2>5, <2>6, <2>7, <2>8
      DEF WorkerStep
  <1>9. ASSUME WorkerAssert PROVE PushInv'
    BY <1>9 DEF WorkerAssert
  <1>10. ASSUME MasterCheck PROVE PushInv'
    BY <1>10 DEF MasterCheck, Goto
  <1>11. ASSUME NEW c \in Children, ChildStep(c) PROVE PushInv'
    <2>1. CASE ChildCheck(c)
      BY <2>1 DEF ChildCheck, Goto
    <2>2. CASE ChildLock(c)
      BY <2>2 DEF ChildLock, Goto, Lock
    <2>3. CASE Pull(c)
      BY <2>3 DEF Pull, Goto
    <2>4. CASE PushLoad(c)
      BY <2>4 DEF PushLoad, Goto
    <2>5. CASE PushStore(c)
      BY <2>5 DEF PushStore, Goto
    <2>6. CASE ChildUnlock(c)
      BY <2>6 DEF ChildUnlock, Goto, Unlock
    <2>7. CASE SendAll(c)
      BY <2>7 DEF SendAll, Goto
    <2>8. CASE ConsumeLock(c)
      BY <2>8 DEF ConsumeLock, Goto, Lock
    <2>9. CASE NotifyProduct(c)
      BY <2>9 DEF NotifyProduct, Goto, NotifyAll
    <2>10. CASE ConsumeWait(c)
      BY <2>10 DEF ConsumeWait, Goto, Wait, Unlock
    <2>11. CASE ConsumeWake(c)
      BY <2>11 DEF ConsumeWake, Goto, Wake, Lock
    <2>12. CASE ConsumeUnlock(c)
      BY <2>12 DEF ConsumeUnlock, Goto, Unlock
    <2> QED
      BY <1>11, <2>1, <2>2, <2>3, <2>4, <2>5, <2>6, <2>7, <2>8, <2>9, <2>10, <2>11, <2>12
      DEF ChildStep
  <1>12. ASSUME NEW c \in Children, ChildExit(c) PROVE PushInv'
    BY <1>12 DEF ChildExit, Goto
  <1>13. ASSUME NEW c \in Children, PullAssert(c) PROVE PushInv'
    BY <1>13 DEF PullAssert, Goto
  <1>14. ASSUME SpuriousWakeup PROVE PushInv'
    BY <1>14 DEF SpuriousWakeup
  <1>15. CASE UNCHANGED vars
    BY <1>15 DEF vars
  <1> QED
    BY <1>1, <1>2, <1>3, <1>4, <1>5, <1>6, <1>7, <1>8, <1>9, <1>10,
       <1>11, <1>12, <1>13, <1>14, <1>15
    DEF Next, CommandStep

LEMMA NextSleepInv ==
    TypeOK /\ LockInv /\ SleepInv /\ [Next]_vars => SleepInv'
  <1> SUFFICES ASSUME TypeOK, LockInv, SleepInv, [Next]_vars PROVE SleepInv'
    OBVIOUS
  <1> USE ProcsDistinct
      DEF TypeOK, Procs, Waiters, Locks, pushVars, LockInv, HoldsConsume,
          HoldsProduct, SleepInv
  <1>1. ASSUME SetStatus PROVE SleepInv'
    BY <1>1 DEF SetStatus, Goto
  <1>2. ASSUME NotifyLock PROVE SleepInv'
    BY <1>2 DEF NotifyLock, Goto, Lock
  <1>3. ASSUME NotifyBroadcast PROVE SleepInv'
    BY <1>3 DEF NotifyBroadcast, Goto, Unlock
  <1>4. ASSUME NEW p \in Waiters, CommandLock(p) PROVE SleepInv'
    BY <1>4 DEF CommandLock, Goto, Lock
  <1>5. ASSUME NEW p \in Waiters, CommandWait(p) PROVE SleepInv'
    BY <1>5 DEF CommandWait, Goto, Wait, Unlock
  <1>6. ASSUME NEW p \in Waiters, CommandWake(p) PROVE SleepInv'
    BY <1>6 DEF CommandWake, Goto, Wake, Lock
  <1>7. ASSUME NEW p \in Waiters, CommandUnlock(p) PROVE SleepInv'
    BY <1>7 DEF CommandUnlock, Goto, Unlock
  <1>8. ASSUME WorkerStep PROVE SleepInv'
    <2>1. CASE ForkMaster
      BY <2>1 DEF ForkMaster
    <2>2. CASE WorkerCheck
      BY <2>2 DEF WorkerCheck, Goto
    <2>3. CASE ProductLock
      BY <2>3 DEF ProductLock, Goto, Lock
    <2>4. CASE HaveSendInfo
      BY <2>4 DEF HaveSendInfo, Goto
    <2>5. CASE NotifyConsume
      BY <2>5 DEF NotifyConsume, Goto, NotifyAll
    <2>6. CASE ProductWait
      BY <2>6 DEF ProductWait, Goto, Wait, Unlock
    <2>7. CASE ProductWake
      BY <2>7 DEF ProductWake, Goto, Wake, Lock
    <2>8. CASE ProductUnlock
      BY <2>8 DEF ProductUnlock, Goto, Unlock
    <2> QED
      BY <1>8, <2>1, <2>2, <2>3, <2>4, <2>5, <2>6, <2>7, <2>8
      DEF WorkerStep
  <1>9. ASSUME WorkerAssert PROVE SleepInv'
    BY <1>9 DEF WorkerAssert
  <1>10. ASSUME MasterCheck PROVE SleepInv'
    BY <1>10 DEF MasterCheck, Goto
  <1>11. ASSUME NEW c \in Children, ChildStep(c) PROVE SleepInv'
    <2>1. CASE ChildCheck(c)
      BY <2>1 DEF ChildCheck, Goto
    <2>2. CASE ChildLock(c)
      BY <2>2 DEF ChildLock, Goto, Lock
    <2>3. CASE Pull(c)
      BY <2>3 DEF Pull, Goto
    <2>4. CASE PushLoad(c)
      BY <2>4 DEF PushLoad, Goto
    <2>5. CASE PushStore(c)
      BY <2>5 DEF PushStore, Goto
    <2>6. CASE ChildUnlock(c)
      BY <2>6 DEF ChildUnlock, Goto, Unlock
    <2>7. CASE SendAll(c)
      BY <2>7 DEF SendAll, Goto
    <2>8. CASE ConsumeLock(c)
      BY <2>8 DEF ConsumeLock, Goto, Lock
    <2>9. CASE NotifyProduct(c)
      BY <2>9 DEF NotifyProduct, Goto, NotifyAll
    <2>10. CASE ConsumeWait(c)
      BY <2>10 DEF ConsumeWait, Goto, Wait, Unlock
    <2>11. CASE ConsumeWake(c)
      BY <2>11 DEF ConsumeWake, Goto, Wake, Lock
    <2>12. CASE ConsumeUnlock(c)
      BY <2>12 DEF ConsumeUnlock, Goto, Unlock
    <2> QED
      BY <1>11, <2>1, <2>2, <2>3, <2>4, <2>5, <2>6, <2>7, <2>8, <2>9, <2>10, <2>11, <2>12
      DEF ChildStep
  <1>12. ASSUME NEW c \in Children, ChildExit(c) PROVE SleepInv'
    BY <1>12 DEF ChildExit, Goto
  <1>13. ASSUME NEW c \in Children, PullAssert(c) PROVE SleepInv'
    BY <1>13 DEF PullAssert, Goto
  <1>14. ASSUME SpuriousWakeup PROVE SleepInv'
    BY <1>14 DEF SpuriousWakeup
  <1>15. CASE UNCHANGED vars
    BY <1>15 DEF vars
  <1> QED
    BY <1>1, <1>2, <1>3, <1>4, <1>5, <1>6, <1>7, <1>8, <1>9, <1>10,
       <1>11, <1>12, <1>13, <1>14, <1>15
    DEF Next, CommandStep

THEOREM Inductive == Spec => []IInv
  <1>1. IInv /\ [Next]_vars => IInv'
    BY NextTypeOK, NextLockInv, NextPushInv, NextSleepInv DEF IInv
  <1> QED
    BY InitIInv, <1>1, PTL DEF Spec

-----------------------------------------------------------------------------
(* The theorems.                                                           *)

\* The shared memory and the program counters of worker.cpp keep their type.
THEOREM TypeCorrect == Spec => []TypeOK
  BY InitTypeOK, NextTypeOK, PTL DEF Spec

\* The `+=' on the shared counter (worker.cpp:411) loses no update, however
\* many children there are and whichever of them die in their pull.
THEOREM PushNumCorrect == Spec => []PushNumExact
  <1>1. IInv => PushNumExact
    BY DEF IInv, PushInv
  <1> QED
    BY Inductive, <1>1, PTL

\* The worker and a child are never both asleep waiting for each other
\* (worker.cpp:159-165 and 429-432).
THEOREM NoMutualSleepCorrect == Spec => []NoMutualSleep
  <1>1. IInv => NoMutualSleep
    BY DEF IInv, SleepInv, NoMutualSleep
  <1> QED
    BY Inductive, <1>1, PTL
=============================================================================
