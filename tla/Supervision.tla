---------------------------- MODULE Supervision ----------------------------
(***************************************************************************)
(* The processes of one client host and who looks after whom: the worker   *)
(* thread forks a master and another one when waitpid(-1) reports a death, *)
(* masters keep up the number of their children, children leave when they  *)
(* are told to or find themselves adopted by init, and a client that has   *)
(* died is started again (src/c++/client/worker.cpp).                      *)
(*                                                                         *)
(* What they share is in a segment that the next client finds under the    *)
(* same key and clears, unless a process has removed it: ~cWorker does so  *)
(* on every way out through exit(), also out of a child.                   *)
(*                                                                         *)
(* A notification is one step, taken under its lock (WorkerSync has the    *)
(* locks, and the deadlock they can end in); the test of the status before *)
(* a wait is a step of its own.  A master always knows its children here   *)
(* (ChildPool has what it takes).  Left out: stopped processes.            *)
(***************************************************************************)
EXTENDS Integers, FiniteSets

CONSTANTS
    Pids,         \* processes a host's clients and masters can have forked
    Children,     \* what a master fills its pool up to
    MaxRestarts,  \* bound: clients started after the first one
    MaxDeaths,    \* bound: masters and children that are killed or abort
    MaxReports    \* bound: shells the event loop starts

\* A segment is numbered like the client that made it; process 1 adopts.
Segs == 1..(MaxRestarts + 1)
Adopter == 1
Client == 0

ASSUME SupervisionConstants ==
    /\ Pids \subseteq Nat \ {Client, Adopter} /\ IsFiniteSet(Pids)
    /\ Children \in Nat
    /\ MaxRestarts \in Nat /\ MaxDeaths \in Nat /\ MaxReports \in Nat

VARIABLES
    clients,  \* started so far
    worker,   \* where the worker thread is, "down" when no client runs
    shell,    \* of the popen in the event loop
    seg,      \* shm_id
    key,      \* the segment that is found under the key, 0 if none is
    status,   \* of each segment: CHECK_CAN_START
    proc,     \* the processes: the client's masters and their children
    misled,   \* history: shells that waitpid(-1) has reported
    deaths,   \* bounds
    reports

shm == <<seg, key, status>>
bounds == <<deaths, reports>>
vars == <<clients, worker, shell, shm, proc, misled, bounds>>

\* run      in its loop, or in one of its sleep()s
\* command  has seen that it may not run, and will wait for an order
\* ordered  waits for one;  consume  waits for mail
\* lost     waits for what the next client has overwritten
\* ended    a zombie
Asleep == {"ordered", "consume", "lost"}
Process ==
    [role : {"master", "child"}, parent : {Client, Adopter} \cup Pids, seg : Segs,
     at : {"run", "command", "ended"} \cup Asleep]
NoProcess == [role |-> "none"]

Forked(role, parent, s) ==
    [role |-> role, parent |-> parent, seg |-> s, at |-> "run"]

Up == worker # "down"
Those(role) == {p \in Pids : proc[p].role = role}
Alive(role) == {p \in Those(role) : proc[p].at # "ended"}
ClientsMasters == {p \in Those("master") : proc[p].parent = Client}
Free == Those("none")
NewPid == CHOOSE p \in Free : \A q \in Free : p <= q

\* The client's masters and the children of these.
Own == {p \in Pids : p \in ClientsMasters \/ (p \in Those("child") /\ proc[p].parent \in ClientsMasters)}

ChildrenOf(p) == {c \in Those("child") : proc[c].parent = p}

-----------------------------------------------------------------------------
(* Ends.  f is proc, changed.                                              *)

\* Children of the dead are adopted; the adopter waits for all it has.
Adopt(f, dead) ==
    [p \in Pids |->
        IF f[p].role = "none" \/ f[p].parent \notin dead THEN f[p]
        ELSE IF f[p].at = "ended" THEN NoProcess
        ELSE [f[p] EXCEPT !.parent = Adopter]]

\* A process that is gone: its master's handler waits for a child.
Gone(p) ==
    proc' = Adopt([proc EXCEPT ![p] = IF @.parent = Client THEN [@ EXCEPT !.at = "ended"]
                                      ELSE NoProcess], {p})

\* exit() runs the destructors; ~cWorker removes the segment.
Exit(s) == key' = IF key = s THEN 0 ELSE key

ClientEnds ==
    /\ worker' = "down"
    /\ shell' = "none"
    /\ proc' = Adopt(proc, {Client})

-----------------------------------------------------------------------------
(* The client's start: cWorkerThread's constructor.                        *)

\* _init_shm clears the segment.  Whether a process that waits in it is
\* woken again by anything is undefined.
Start ==
    /\ ~Up
    /\ clients <= MaxRestarts
    /\ clients' = clients + 1
    /\ LET s == IF key = 0 THEN clients' ELSE key
       IN  /\ seg' = s /\ key' = s
           /\ status' = [status EXCEPT ![s] = FALSE]
           /\ \E lost \in SUBSET {p \in Pids \ Free : proc[p].seg = s /\ proc[p].at \in Asleep} :
                proc' = [p \in Pids |-> IF p \in lost THEN [proc[p] EXCEPT !.at = "lost"] ELSE proc[p]]
    /\ worker' = "first"
    /\ UNCHANGED <<shell, misled, bounds>>

-----------------------------------------------------------------------------
(* The worker thread.                                                      *)

\* _forkMasterProcess, before the loop and in it.  Where fork fails, the
\* client exits.
ForkMaster ==
    /\ worker \in {"first", "again"}
    /\ Free # {}
    /\ proc' = [proc EXCEPT ![NewPid] = Forked("master", Client, seg)]
    /\ worker' = IF worker = "first" THEN "poll" ELSE "check"
    /\ UNCHANGED <<clients, shell, shm, misled, bounds>>

ForkMasterFails ==
    /\ worker \in {"first", "again"}
    /\ ClientEnds
    /\ Exit(seg)
    /\ UNCHANGED <<clients, seg, status, misled, bounds>>

(* Fault variant: another master is forked whatever waitpid returns. *)
PollForksAlways ==
    /\ worker = "poll"
    /\ \/ /\ \E p \in ClientsMasters : proc[p].at = "ended" /\ proc' = [proc EXCEPT ![p] = NoProcess]
          /\ UNCHANGED <<shell, misled>>
       \/ UNCHANGED <<shell, proc, misled>>
    /\ worker' = "again"
    /\ UNCHANGED <<clients, shm, bounds>>

(* Fault variant: nothing is forked after a death. *)
PollForksNever ==
    /\ worker = "poll"
    /\ \/ /\ \E p \in ClientsMasters : proc[p].at = "ended" /\ proc' = [proc EXCEPT ![p] = NoProcess]
          /\ UNCHANGED <<shell, misled>>
       \/ UNCHANGED <<shell, proc, misled>>
    /\ worker' = "check"
    /\ UNCHANGED <<clients, shm, bounds>>

\* waitpid(-1, WNOHANG): a process that has ended, the shell too; -1 where
\* there is none at all; or 0.  Any value but 0 stands for a dead master.
Poll ==
    /\ worker = "poll"
    /\ LET ended == {p \in ClientsMasters : proc[p].at = "ended"}
       IN  \/ /\ \E p \in ended : proc' = [proc EXCEPT ![p] = NoProcess]
              /\ worker' = "again"
              /\ UNCHANGED <<shell, misled>>
           \/ /\ shell = "ended"
              /\ shell' = "reported"
              /\ misled' = misled + 1
              /\ worker' = "again"
              /\ UNCHANGED proc
           \/ /\ ended = {} /\ shell # "ended"
              /\ worker' = IF ClientsMasters = {} /\ shell # "runs" THEN "again" ELSE "check"
              /\ UNCHANGED <<shell, proc, misled>>
    /\ UNCHANGED <<clients, shm, bounds>>

Check ==
    /\ worker = "check"
    /\ worker' = IF status[seg] THEN "product" ELSE "command"
    /\ UNCHANGED <<clients, shell, shm, proc, misled, bounds>>

WaitForOrder ==
    /\ worker = "command"
    /\ worker' = "ordered"
    /\ UNCHANGED <<clients, shell, shm, proc, misled, bounds>>

\* Those that wait for something in segment s go on.
Woken(f, s, at) ==
    [p \in Pids |-> IF f[p] # NoProcess /\ f[p].seg = s /\ f[p].at = at
                    THEN [f[p] EXCEPT !.at = "run"] ELSE f[p]]

(* Fault variant: nobody is woken. *)
HaveSendInfoSilently ==
    /\ worker = "product"
    /\ worker' \in {"wait", "poll"}
    /\ UNCHANGED <<clients, shell, shm, proc, misled, bounds>>

\* With mail to send the children are woken and the worker sleeps until one
\* of them has found none; without, it sleeps for a time.
HaveSendInfo ==
    /\ worker = "product"
    /\ \/ worker' = "wait" /\ proc' = Woken(proc, seg, "consume")
       \/ worker' = "poll" /\ UNCHANGED proc
    /\ UNCHANGED <<clients, shell, shm, misled, bounds>>

-----------------------------------------------------------------------------
(* The event loop, unless it is in pclose.                                 *)

SetStatus ==
    /\ Up /\ shell = "none"
    /\ \E canStart \in BOOLEAN :
        /\ status' = [status EXCEPT ![seg] = canStart]
        /\ worker' = IF canStart /\ worker = "ordered" THEN "poll" ELSE worker
        /\ proc' = IF canStart THEN Woken(proc, seg, "ordered") ELSE proc
    /\ UNCHANGED <<clients, shell, seg, key, misled, bounds>>

\* GetMailqNum: popen, and pclose when the shell has ended or, with ECHILD,
\* has been reported to the worker.
Popen ==
    /\ Up /\ shell = "none" /\ reports < MaxReports
    /\ shell' = "runs" /\ reports' = reports + 1
    /\ UNCHANGED <<clients, worker, shm, proc, misled, deaths>>

ShellEnds ==
    /\ shell = "runs"
    /\ shell' = "ended"
    /\ UNCHANGED <<clients, worker, shm, proc, misled, bounds>>

Pclose ==
    /\ shell \in {"ended", "reported"}
    /\ shell' = "none"
    /\ UNCHANGED <<clients, worker, shm, proc, misled, bounds>>

-----------------------------------------------------------------------------
(* A master, also one whose client is gone: it does not look.              *)

\* The loop and commandLock, which masters and children have in common.
MayNotRun(p) ==
    /\ proc[p] # NoProcess
    /\ \/ /\ proc[p].at = "run" /\ ~status[proc[p].seg]
          /\ proc[p].role = "child" => proc[p].parent # Adopter
          /\ proc' = [proc EXCEPT ![p].at = "command"]
       \/ /\ proc[p].at = "command"
          /\ proc' = [proc EXCEPT ![p].at = "ordered"]
    /\ UNCHANGED <<clients, worker, shell, shm, misled, bounds>>

Adjusts(p) == p \in Those("master") /\ proc[p].at = "run" /\ status[proc[p].seg]

(* Fault variant: the child is forked off as if by the client. *)
ForkChildOfClient(p) ==
    /\ Adjusts(p)
    /\ Cardinality(ChildrenOf(p)) < Children
    /\ Free # {}
    /\ proc' = [proc EXCEPT ![NewPid] = Forked("child", Client, proc[p].seg)]
    /\ UNCHANGED <<clients, worker, shell, shm, misled, bounds>>

ForkChild(p) ==
    /\ Adjusts(p)
    /\ Cardinality(ChildrenOf(p)) < Children
    /\ Free # {}
    /\ proc' = [proc EXCEPT ![NewPid] = Forked("child", p, proc[p].seg)]
    /\ UNCHANGED <<clients, worker, shell, shm, misled, bounds>>

ForkChildFails(p) ==
    /\ Adjusts(p)
    /\ Cardinality(ChildrenOf(p)) < Children
    /\ Gone(p)
    /\ Exit(proc[p].seg)
    /\ UNCHANGED <<clients, worker, shell, seg, status, misled, bounds>>

-----------------------------------------------------------------------------
(* A child.                                                                *)

AtTop(c) == c \in Those("child") /\ proc[c].at = "run"

\* An orphan leaves, and a child that its master has told to quit: any, as
\* multi goes up and down.
ChildExit(c) ==
    /\ AtTop(c)
    /\ Gone(c)
    /\ Exit(proc[c].seg)
    /\ UNCHANGED <<clients, worker, shell, seg, status, misled, bounds>>

\* A round that finds nothing to send wakes the worker, if it waits in the
\* same segment.
Round(c) ==
    /\ AtTop(c)
    /\ proc[c].parent # Adopter
    /\ status[proc[c].seg]
    /\ proc' = [proc EXCEPT ![c].at = "consume"]
    /\ worker' = IF worker = "wait" /\ proc[c].seg = seg THEN "poll" ELSE worker
    /\ UNCHANGED <<clients, shell, shm, misled, bounds>>

-----------------------------------------------------------------------------
(* Deaths without exit().                                                  *)

ProcessDies(p) ==
    /\ p \in Alive("master") \cup Alive("child")
    /\ deaths < MaxDeaths
    /\ deaths' = deaths + 1
    /\ Gone(p)
    /\ UNCHANGED <<clients, worker, shell, shm, misled, reports>>

ClientDies ==
    /\ Up
    /\ ClientEnds
    /\ UNCHANGED <<clients, shm, misled, bounds>>

-----------------------------------------------------------------------------
Init ==
    /\ clients = 0 /\ worker = "down" /\ shell = "none"
    /\ seg = 1 /\ key = 0
    /\ status = [s \in Segs |-> FALSE]
    /\ proc = [p \in Pids |-> NoProcess]
    /\ misled = 0 /\ deaths = 0 /\ reports = 0

WorkerStep == ForkMaster \/ ForkMasterFails \/ Poll \/ Check \/ WaitForOrder \/ HaveSendInfo
EventLoop == SetStatus \/ Popen \/ Pclose
MasterStep(p) == ForkChild(p) \/ ForkChildFails(p)
ChildStep(p) == ChildExit(p) \/ Round(p)

Next ==
    \/ Start \/ WorkerStep \/ EventLoop \/ ShellEnds \/ ClientDies
    \/ \E p \in Pids : MayNotRun(p) \/ MasterStep(p) \/ ChildStep(p) \/ ProcessDies(p)

Spec == Init /\ [][Next]_vars

\* The worker is scheduled, and mailq ends: with the bound on reports, it does
\* not run whenever the worker looks.
Fairness == WF_vars(WorkerStep) /\ WF_vars(ShellEnds)

FairSpec == Spec /\ Fairness

-----------------------------------------------------------------------------
(* Properties.                                                             *)

\* Nobody but the client of the day and init has masters, and nobody but a
\* master that is alive, or init, has children.
Parents ==
    /\ \A p \in Those("master") : proc[p].parent \in {Adopter} \cup (IF Up THEN {Client} ELSE {})
    /\ \A c \in Those("child") : proc[c].parent \in {Adopter} \cup Alive("master")

\* Everything is well typed, and no process is left without a parent that waits
\* for it (worker.cpp:246-268, 340-344).
TypeOK ==
    /\ clients \in 0..(MaxRestarts + 1)
    /\ worker \in {"down", "first", "poll", "again", "check", "product", "wait", "command", "ordered"}
    /\ shell \in {"none", "runs", "ended", "reported"}
    /\ seg \in Segs /\ key \in {0} \cup Segs
    /\ status \in [Segs -> BOOLEAN]
    /\ proc \in [Pids -> Process \cup {NoProcess}]
    /\ Parents
    /\ misled \in Nat /\ deaths \in Nat /\ reports \in Nat

\* A host has one master, and one more only for each shell of the event loop
\* that the worker has taken for it and for each client it has outlived; and
\* so it is for every master that is being forked (worker.cpp:138-156).
MastersCounted ==
    Cardinality(Those("master")) + (IF worker \in {"first", "again"} THEN 1 ELSE 0)
        <= misled + clients

\* The worker and the processes its client has forked, through a master or
\* two, can wake each other, whatever clients before it have left running in
\* the segment it clears, and whoever removes the segment's key meanwhile
\* (worker.cpp:34-37, 214-239): they use one segment, and none of them waits
\* for what was overwritten.  The worker always has a master, dead or alive, to
\* hear of; and while it sleeps on productLock none of its children sleeps on
\* consumeLock (worker.cpp:152, 159-165, 427-433).  Of the masters that dead
\* clients have left behind nothing is said: they may be in another segment.
InTouch ==
    Up =>
        /\ \A p \in Own : proc[p].seg = seg /\ proc[p].at # "lost"
        /\ worker \notin {"first", "again"} => ClientsMasters # {}
        /\ worker = "wait" => \A p \in Own : proc[p].at # "consume"

\* A client without a master gets one, if the worker does not sleep; on
\* productLock it sleeps until a child has found nothing to send, and on
\* commandLock until an order to start (worker.cpp:150-175).
Replaced ==
    (Up /\ ClientsMasters \cap Alive("master") = {})
        ~> (~Up \/ ClientsMasters \cap Alive("master") # {} \/ worker \in {"wait", "ordered"})
=============================================================================
