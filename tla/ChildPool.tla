------------------------------ MODULE ChildPool -----------------------------
(***************************************************************************)
(* The pool of sending processes of one client host: how the master        *)
(* (cMasterProcess::OnChildRun in src/c++/client/worker.cpp) makes the     *)
(* number of its children follow shm_ptr->multi while children exit, die   *)
(* and are reaped by the SIGCHLD handler.                                  *)
(*                                                                         *)
(* The master works on two variables, the set of the pids it has forked    *)
(* (childProcessMap) and their number (childNum, 16 bits).  Its handler    *)
(* writes both and may run between any two of the master's steps.  The     *)
(* client is built without optimisation, so `++childNum' and `--childNum'  *)
(* are a load and a store, and the handler can run in between.  SIGCHLD is *)
(* one pending bit: children that die together are announced once.         *)
(*                                                                         *)
(* The status is one that lets the master run; what it does otherwise is   *)
(* in WorkerSync.  Not modelled: the handler erasing the very map node the *)
(* master's iterator stands on (undefined behaviour), and children that a  *)
(* debugger stops and continues.                                           *)
(***************************************************************************)
EXTENDS Integers, FiniteSets

CONSTANTS
    Pids,        \* the process ids the kernel can give to children
    NoPid,
    NumMod,      \* childNum is counted modulo this: 2^16 in the code
    Multis,      \* the pool sizes the server may ask for
    MaxChanges,  \* bound: how often the server changes multi
    MaxCrash     \* bound: how many children die without being told to

ASSUME PidsFinite == IsFiniteSet(Pids) /\ NoPid \notin Pids
ASSUME MultisFit ==
    /\ NumMod \in Nat \ {0}
    /\ Multis \subseteq 0..NumMod - 1
ASSUME PoolBounds == MaxChanges \in Nat /\ MaxCrash \in Nat

VARIABLES
    multi,      \* shm_ptr->multi
    st,         \* the kernel's view of every pid
    quit,       \* the children whose child_quit is set
    sigchld,    \* SIGCHLD is pending for the master
    pc,         \* where the master is
    todo,       \* incProcessNum or reduceProcessNum, less the loops done
    cur,        \* the child the master's loop is at
    processNum, \* multi as it was read, until the difference is taken
    reg,        \* the value of childNum loaded for a ++ or a --
    childNum,   \* cMasterProcess::childNum
    map,        \* the keys of cMasterProcess::childProcessMap
    lowered,    \* history: the server has lowered multi
    abrupt,     \* history: a child has died otherwise than by exit(SIGUSR1)
    changes,    \* bounds: changes of multi so far
    crashes     \* bounds: deaths so far

masterVars == <<pc, todo, cur, processNum, reg, childNum, map>>
vars == <<multi, st, quit, sigchld, masterVars, lowered, abrupt, changes, crashes>>

\* free    no such process
\* boot    forked; the handlers of the child are not installed yet
\* run     in its loop, between two waits
\* wait    asleep on a condition variable: signals do not wake it
\* zombie  dead and not reaped, after exit(SIGUSR1)
\* killed  dead and not reaped, by a signal or an assert
Alive == {p \in Pids : st[p] \in {"boot", "run", "wait"}}
InService == Alive \ quit
Dead == {p \in Pids : st[p] \in {"zombie", "killed"}}

-----------------------------------------------------------------------------
(* cWorker::setMulti, in the client process.                               *)

SetMulti(m) ==
    /\ changes < MaxChanges
    /\ multi' = m
    /\ lowered' = (lowered \/ m < multi)
    /\ changes' = changes + 1
    /\ UNCHANGED <<st, quit, sigchld, masterVars, abrupt, crashes>>

-----------------------------------------------------------------------------
(* The master's loop.                                                      *)

\* The master reads multi and compares.  When a SIGCHLD has cut its sleep
\* short a child forked just before may still be starting.
Look ==
    /\ pc = "look"
    /\ processNum' = multi
    /\ pc' = IF childNum > multi THEN "reduce" ELSE "increase"
    /\ UNCHANGED <<multi, st, quit, sigchld, todo, cur, reg, childNum, map,
                   lowered, abrupt, changes, crashes>>

\* childNum is read again for the difference, which has 16 bits: where the handler
\* has taken more from it than there was to retire, everything is to go.
Reduce ==
    /\ pc = "reduce"
    /\ todo' = (childNum + NumMod - processNum) % NumMod
    /\ processNum' = 0
    /\ pc' = "retire"
    /\ UNCHANGED <<multi, st, quit, sigchld, cur, reg, childNum, map,
                   lowered, abrupt, changes, crashes>>

(* Fault variant: one child too few is forked. *)
IncreaseForksTooFew ==
    /\ pc = "increase"
    /\ todo' = IF processNum > childNum THEN processNum - childNum - 1 ELSE 0
    /\ processNum' = 0
    /\ pc' = "fork"
    /\ UNCHANGED <<multi, st, quit, sigchld, cur, reg, childNum, map,
                   lowered, abrupt, changes, crashes>>

Increase ==
    /\ pc = "increase"
    /\ todo' = (processNum + NumMod - childNum) % NumMod
    /\ processNum' = 0
    /\ pc' = "fork"
    /\ UNCHANGED <<multi, st, quit, sigchld, cur, reg, childNum, map,
                   lowered, abrupt, changes, crashes>>

(* Fault variant: a child that is starting ignores SIGUSR1. *)
RetireIgnoredAtBoot(p) ==
    /\ pc = "retire" /\ todo > 0 /\ p \in map
    /\ quit' = IF st[p] \in {"run", "wait"} THEN quit \cup {p} ELSE quit
    /\ cur' = p
    /\ pc' = "retireLoad"
    /\ UNCHANGED <<multi, st, sigchld, todo, processNum, reg, childNum, map,
                   lowered, abrupt, changes, crashes>>

\* kill(pid, SIGUSR1), then the load of `--childNum'.  A child that has not
\* installed its handler dies of the signal; a dead one ignores it.
Retire(p) ==
    /\ pc = "retire" /\ todo > 0 /\ p \in map
    /\ quit' = IF st[p] \in {"run", "wait"} THEN quit \cup {p} ELSE quit
    /\ st' = [st EXCEPT ![p] = IF @ = "boot" THEN "killed" ELSE @]
    /\ sigchld' = (sigchld \/ st[p] = "boot")
    /\ abrupt' = (abrupt \/ st[p] = "boot")
    /\ cur' = p
    /\ pc' = "retireLoad"
    /\ UNCHANGED <<multi, todo, processNum, reg, childNum, map, lowered, changes, crashes>>

RetireLoad ==
    /\ pc = "retireLoad"
    /\ reg' = childNum
    /\ pc' = "retireStore"
    /\ UNCHANGED <<multi, st, quit, sigchld, todo, cur, processNum, childNum, map,
                   lowered, abrupt, changes, crashes>>

\* The store of `--childNum', then childProcessMap.erase.
RetireStore ==
    /\ pc = "retireStore"
    /\ childNum' = (reg + NumMod - 1) % NumMod
    /\ map' = map \ {cur}
    /\ todo' = todo - 1
    /\ cur' = NoPid /\ reg' = 0
    /\ pc' = "retire"
    /\ UNCHANGED <<multi, st, quit, sigchld, processNum, lowered, abrupt, changes, crashes>>

\* fork(), in CreateChild.
Fork(p) ==
    /\ pc = "fork" /\ todo > 0
    /\ st[p] = "free"
    /\ st' = [st EXCEPT ![p] = "boot"]
    /\ cur' = p
    /\ pc' = "insert"
    /\ UNCHANGED <<multi, quit, sigchld, todo, processNum, reg, childNum, map,
                   lowered, abrupt, changes, crashes>>

\* No process can be forked: the exception ends the master.
ForkFails ==
    /\ pc = "fork" /\ todo > 0
    /\ \A p \in Pids : st[p] # "free"
    /\ pc' = "dead"
    /\ st' = [p \in Pids |-> IF p \in Dead THEN "free" ELSE st[p]]
    /\ quit' = quit \ Dead
    /\ sigchld' = FALSE
    /\ UNCHANGED <<multi, todo, cur, processNum, reg, childNum, map,
                   lowered, abrupt, changes, crashes>>

\* childProcessMap.insert.
Insert ==
    /\ pc = "insert"
    /\ map' = map \cup {cur}
    /\ pc' = "forkLoad"
    /\ UNCHANGED <<multi, st, quit, sigchld, todo, cur, processNum, reg, childNum,
                   lowered, abrupt, changes, crashes>>

\* The load and the store of `++childNum'.
ForkLoad ==
    /\ pc = "forkLoad"
    /\ reg' = childNum
    /\ pc' = "forkStore"
    /\ UNCHANGED <<multi, st, quit, sigchld, todo, cur, processNum, childNum, map,
                   lowered, abrupt, changes, crashes>>

ForkStore ==
    /\ pc = "forkStore"
    /\ childNum' = (reg + 1) % NumMod
    /\ todo' = todo - 1
    /\ cur' = NoPid /\ reg' = 0
    /\ pc' = "fork"
    /\ UNCHANGED <<multi, st, quit, sigchld, processNum, map,
                   lowered, abrupt, changes, crashes>>

\* The loop is over, or there is nothing left in the map to retire.
Adjusted ==
    /\ \/ pc = "fork" /\ todo = 0
       \/ pc = "retire" /\ (todo = 0 \/ map = {})
    /\ todo' = 0
    /\ pc' = "sleep"
    /\ UNCHANGED <<multi, st, quit, sigchld, cur, processNum, reg, childNum, map,
                   lowered, abrupt, changes, crashes>>

\* sleep(CHECK_PROCESSNUM_INTERVAL) ends: after 30 s every child has started.
SleepEnds ==
    /\ pc = "sleep"
    /\ \A p \in Pids : st[p] # "boot"
    /\ pc' = "look"
    /\ UNCHANGED <<multi, st, quit, sigchld, todo, cur, processNum, reg, childNum, map,
                   lowered, abrupt, changes, crashes>>

-----------------------------------------------------------------------------
(* sigChldHandler, in the master: one waitpid for each SIGCHLD delivered.  *)
(* A signal that arrives during sleep() ends the sleep.                    *)

Awake == IF pc = "sleep" THEN "look" ELSE pc

(* Fault variant: a retired child is subtracted a second time. *)
ReapCountsRetired(p) ==
    /\ sigchld /\ pc # "dead"
    /\ p \in Dead
    /\ sigchld' = FALSE
    /\ st' = [st EXCEPT ![p] = "free"]
    /\ quit' = quit \ {p}
    /\ map' = map \ {p}
    /\ childNum' = (childNum + NumMod - 1) % NumMod
    /\ pc' = Awake
    /\ UNCHANGED <<multi, todo, cur, processNum, reg, lowered, abrupt, changes, crashes>>

(* Fault variant: a loop over waitpid that also counts its last, empty, answer. *)
ReapCountsEmpty(p) ==
    /\ sigchld /\ pc # "dead"
    /\ p \in Dead
    /\ sigchld' = FALSE
    /\ st' = [st EXCEPT ![p] = "free"]
    /\ quit' = quit \ {p}
    /\ map' = map \ {p}
    /\ childNum' = (childNum + NumMod - 2) % NumMod
    /\ pc' = Awake
    /\ UNCHANGED <<multi, todo, cur, processNum, reg, lowered, abrupt, changes, crashes>>

(* Fault variant: the count is not kept to 16 bits. *)
ReapUnbounded(p) ==
    /\ sigchld /\ pc # "dead"
    /\ p \in Dead
    /\ sigchld' = FALSE
    /\ st' = [st EXCEPT ![p] = "free"]
    /\ quit' = quit \ {p}
    /\ IF st[p] = "zombie"
       THEN UNCHANGED <<map, childNum>>
       ELSE /\ map' = map \ {p}
            /\ childNum' = childNum - 1
    /\ pc' = Awake
    /\ UNCHANGED <<multi, todo, cur, processNum, reg, lowered, abrupt, changes, crashes>>

Reap(p) ==
    /\ sigchld /\ pc # "dead"
    /\ p \in Dead
    /\ sigchld' = FALSE
    /\ st' = [st EXCEPT ![p] = "free"]
    /\ quit' = quit \ {p}
    /\ IF st[p] = "zombie"
       THEN UNCHANGED <<map, childNum>>
       ELSE /\ map' = map \ {p}
            /\ childNum' = (childNum + NumMod - 1) % NumMod
    /\ pc' = Awake
    /\ UNCHANGED <<multi, todo, cur, processNum, reg, lowered, abrupt, changes, crashes>>

-----------------------------------------------------------------------------
(* A child, as far as the pool is concerned: cChildProcess::OnChildRun.    *)

\* The SIGUSR1 handler is installed.
Boot(p) ==
    /\ st[p] = "boot"
    /\ st' = [st EXCEPT ![p] = "run"]
    /\ UNCHANGED <<multi, quit, sigchld, masterVars, lowered, abrupt, changes, crashes>>

\* The head of its loop: child_quit, or the master has gone.
Exit(p) ==
    /\ st[p] = "run"
    /\ p \in quit \/ pc = "dead"
    /\ st' = [st EXCEPT ![p] = IF pc = "dead" THEN "free" ELSE "zombie"]
    /\ quit' = IF pc = "dead" THEN quit \ {p} ELSE quit
    /\ sigchld' = (pc # "dead")
    /\ UNCHANGED <<multi, masterVars, lowered, abrupt, changes, crashes>>

\* commandLock.wait or consumeLock.wait; the test of child_quit came before.
Sleep(p) ==
    /\ st[p] = "run"
    /\ st' = [st EXCEPT ![p] = "wait"]
    /\ UNCHANGED <<multi, quit, sigchld, masterVars, lowered, abrupt, changes, crashes>>

\* Woken by a broadcast.
Woken(p) ==
    /\ st[p] = "wait"
    /\ st' = [st EXCEPT ![p] = "run"]
    /\ UNCHANGED <<multi, quit, sigchld, masterVars, lowered, abrupt, changes, crashes>>

\* An assert of the child fails, or a signal kills it.
Crash(p) ==
    /\ crashes < MaxCrash
    /\ p \in Alive
    /\ st' = [st EXCEPT ![p] = IF pc = "dead" THEN "free" ELSE "killed"]
    /\ quit' = IF pc = "dead" THEN quit \ {p} ELSE quit
    /\ sigchld' = (pc # "dead")
    /\ abrupt' = TRUE
    /\ crashes' = crashes + 1
    /\ UNCHANGED <<multi, masterVars, lowered, changes>>

-----------------------------------------------------------------------------
Init ==
    /\ multi \in Multis
    /\ st = [p \in Pids |-> "free"]
    /\ quit = {} /\ sigchld = FALSE
    /\ pc = "look" /\ todo = 0 /\ cur = NoPid /\ processNum = 0 /\ reg = 0
    /\ childNum = 0 /\ map = {}
    /\ lowered = FALSE /\ abrupt = FALSE /\ changes = 0 /\ crashes = 0

MasterStep ==
    \/ Look \/ Reduce \/ Increase \/ RetireLoad \/ RetireStore
    \/ ForkFails \/ Insert \/ ForkLoad \/ ForkStore
    \/ Adjusted \/ SleepEnds
    \/ \E p \in Pids : Retire(p) \/ Fork(p)

Next ==
    \/ \E m \in Multis : SetMulti(m)
    \/ MasterStep
    \/ \E p \in Pids :
        Reap(p) \/ Boot(p) \/ Exit(p) \/ Sleep(p) \/ Woken(p) \/ Crash(p)

Spec == Init /\ [][Next]_vars

\* The kernel schedules the master and delivers its signals; a child starts,
\* and a child that keeps coming back to the head of its loop gets there.
\* Nothing is assumed of a child asleep on a condition variable.
Fairness ==
    /\ WF_vars(MasterStep) /\ WF_vars(\E p \in Pids : Reap(p))
    /\ \A p \in Pids : WF_vars(Boot(p)) /\ SF_vars(Exit(p))
FairSpec == Spec /\ Fairness

-----------------------------------------------------------------------------
(* Properties.                                                             *)

\* The kernel's and the master's variables keep their types.
TypeOK ==
    /\ multi \in Multis
    /\ st \in [Pids -> {"free", "boot", "run", "wait", "zombie", "killed"}]
    /\ quit \subseteq Pids
    /\ sigchld \in BOOLEAN
    /\ pc \in {"look", "reduce", "increase", "retire", "retireLoad", "retireStore",
               "fork", "insert", "forkLoad", "forkStore", "sleep", "dead"}
    /\ todo \in Nat
    /\ cur \in Pids \cup {NoPid}
    /\ processNum \in 0..NumMod - 1 /\ reg \in 0..NumMod - 1
    /\ childNum \in 0..NumMod - 1
    /\ map \subseteq Pids
    /\ lowered \in BOOLEAN /\ abrupt \in BOOLEAN /\ changes \in Nat /\ crashes \in Nat

\* The master never loses a child: one that is alive and was not told to
\* quit is in childProcessMap, but for the moment between fork() and insert
\* (worker.cpp:342-344), whatever dies and however late it is reaped.
Tracked ==
    pc # "dead" => InService \subseteq map \cup (IF pc = "insert" THEN {cur} ELSE {})

\* As long as every child that died had been told to and exited by itself,
\* the two variables agree with each other and with the kernel whenever the
\* master is not adjusting: the handler, which runs for each of the exits
\* (worker.cpp:282-287), must leave both alone.
CountExact ==
    ~abrupt /\ pc \in {"look", "sleep"} => childNum = Cardinality(map) /\ map = InService

\* As long as multi has only grown the pool is never larger than what was asked for,
\* although children die at any moment, also between fork() and insert, and
\* are reaped late or in any order.
NotTooMany == ~lowered => Cardinality(InService) <= multi

\* Once the server stops changing multi the pool gets to the size asked for
\* and keeps it, or a child dies otherwise than it should, or no process is
\* left to fork and the master ends.
Settles == <>[](Cardinality(InService) = multi) \/ <>(abrupt \/ pc = "dead")
=============================================================================
