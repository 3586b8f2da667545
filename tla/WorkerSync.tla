----------------------------- MODULE WorkerSync -----------------------------
(***************************************************************************)
(* The synchronisation of one client host (src/c++/client/worker.cpp): the *)
(* event-loop thread of the client (Main) that stores the server's command *)
(* in shared memory, the worker thread of the same process (Worker) that   *)
(* looks for mail, the master process (Master) that forks the pool, and    *)
(* the sending processes (Children).  They share four process-shared       *)
(* mutexes, each with a condition variable (shm_shared_t in worker.h).     *)
(*                                                                         *)
(* Every step is one shared-memory access, one lock operation or one       *)
(* condition-variable operation, except that `Lock; notifyAll; Unlock'     *)
(* nested inside another lock is one step.  A waiting process is asleep    *)
(* until a broadcast or a spurious wake-up removes it from the wait set;   *)
(* it then has to get the mutex back.  What the database answers is        *)
(* unconstrained: rows are never marked as sent, other programs write the  *)
(* table, and a failed SELECT leaves the row count undefined.              *)
(***************************************************************************)
EXTENDS Integers

CONSTANTS
    Children,    \* the slots of the pool: shm_ptr->multi of them
    Main,        \* the event-loop thread of the client process
    Worker,      \* cWorkerThread, in the same process as Main
    Master,      \* cMasterProcess
    NoProc,      \* "owner" of a free mutex
    DeadProc,    \* "owner" of a mutex whose holder died: nobody unlocks it
    Commands,    \* the statuses the server may send
    Unit,        \* PULL_SENT_MAIL_UNIT, the largest batch of one pull
    MaxPush,     \* bound: the model stops pulling mail at this total
    Faults       \* which asserts may fail: subset of {"child", "worker"}

Procs == Children \cup {Main, Worker, Master}
Waiters == Children \cup {Worker, Master}
Locks == {"child", "command", "product", "consume"}
Statuses == {"NONE", "START", "STOP", "PAUSE", "RESUME"}

ASSUME ProcsDistinct ==
    /\ Main \notin Children /\ Worker \notin Children /\ Master \notin Children
    /\ Main # Worker /\ Main # Master /\ Worker # Master
    /\ NoProc \notin Procs /\ DeadProc \notin Procs /\ NoProc # DeadProc
ASSUME BoundsNat == Unit \in Nat /\ MaxPush \in Nat
ASSUME CommandsKnown == Commands \subseteq Statuses

VARIABLES
    pc,           \* where each process is
    status,       \* shm_ptr->status
    owner,        \* who holds the mutex of each lock
    asleep,       \* the wait set of the condition variable of each lock
    batch,        \* send_mail_queue.size() of each child
    reg,          \* the value of havePushNum a child has loaded for its `+='
    havePushNum,  \* shm_ptr->havePushNum
    pulled        \* history: the mails all pulls so far have returned

vars == <<pc, status, owner, asleep, batch, reg, havePushNum, pulled>>
pushVars == <<batch, reg, havePushNum, pulled>>

CanStart == status \in {"START", "RESUME"}

-----------------------------------------------------------------------------
(* The lock primitives (struct CThreadLock).                               *)

Goto(p, label) == pc' = [pc EXCEPT ![p] = label]

Lock(p, l) == owner[l] = NoProc /\ owner' = [owner EXCEPT ![l] = p]
Unlock(p, l) == owner[l] = p /\ owner' = [owner EXCEPT ![l] = NoProc]

\* pthread_cond_wait releases the mutex and joins the wait set in one step.
Wait(p, l) ==
    /\ Unlock(p, l)
    /\ asleep' = [asleep EXCEPT ![l] = @ \cup {p}]

\* The last part of pthread_cond_wait: woken, and the mutex is free again.
Wake(p, l) == p \notin asleep[l] /\ Lock(p, l)

\* Lock; notifyAll; Unlock, by a process that holds another lock meanwhile.
NotifyAll(l) ==
    /\ owner[l] = NoProc
    /\ asleep' = [asleep EXCEPT ![l] = {}]

-----------------------------------------------------------------------------
(* Main: cWorker::setStatus, called by the packet handlers.                *)

SetStatus ==
    \E s \in Commands :
        /\ pc[Main] = "idle"
        /\ status' = s
        /\ Goto(Main, IF s \in {"START", "RESUME"} THEN "notifyCommand" ELSE "idle")
        /\ UNCHANGED <<owner, asleep, pushVars>>

NotifyLock ==
    /\ pc[Main] = "notifyCommand"
    /\ Lock(Main, "command")
    /\ Goto(Main, "broadcast")
    /\ UNCHANGED <<status, asleep, pushVars>>

(* Fault variant: the command is broadcast but commandLock is kept. *)
NotifyBroadcastKeepsLock ==
    /\ pc[Main] = "broadcast"
    /\ asleep' = [asleep EXCEPT !["command"] = {}]
    /\ Goto(Main, "idle")
    /\ UNCHANGED <<status, owner, pushVars>>

NotifyBroadcast ==
    /\ pc[Main] = "broadcast"
    /\ Unlock(Main, "command")
    /\ asleep' = [asleep EXCEPT !["command"] = {}]
    /\ Goto(Main, "idle")
    /\ UNCHANGED <<status, pushVars>>

-----------------------------------------------------------------------------
(* What the worker thread, the master and the children do when the status  *)
(* does not let them run: commandLock.Lock(); wait(); Unlock().  The       *)
(* status was read BEFORE the lock is taken and is not read again.         *)

CommandLock(p) ==
    /\ pc[p] = "command"
    /\ Lock(p, "command")
    /\ Goto(p, "commandHeld")
    /\ UNCHANGED <<status, asleep, pushVars>>

CommandWait(p) ==
    /\ pc[p] = "commandHeld"
    /\ Wait(p, "command")
    /\ Goto(p, "commandWait")
    /\ UNCHANGED <<status, pushVars>>

CommandWake(p) ==
    /\ pc[p] = "commandWait"
    /\ Wake(p, "command")
    /\ Goto(p, "commandWoken")
    /\ UNCHANGED <<status, asleep, pushVars>>

(* Fault variant: the waiter does not unlock commandLock after its wait. *)
CommandUnlockForgotten(p) ==
    /\ pc[p] = "commandWoken"
    /\ Goto(p, "check")
    /\ UNCHANGED <<status, owner, asleep, pushVars>>

CommandUnlock(p) ==
    /\ pc[p] = "commandWoken"
    /\ Unlock(p, "command")
    /\ Goto(p, "check")
    /\ UNCHANGED <<status, asleep, pushVars>>

-----------------------------------------------------------------------------
(* The worker thread: cWorkerThread::OnThreadRun.                          *)

ForkMaster ==
    /\ pc[Worker] = "fork"
    /\ pc' = [pc EXCEPT ![Worker] = "check", ![Master] = "check"]
    /\ UNCHANGED <<status, owner, asleep, pushVars>>

WorkerCheck ==
    /\ pc[Worker] = "check"
    /\ Goto(Worker, IF CanStart THEN "product" ELSE "command")
    /\ UNCHANGED <<status, owner, asleep, pushVars>>

ProductLock ==
    /\ pc[Worker] = "product"
    /\ Lock(Worker, "product")
    /\ Goto(Worker, "haveSendInfo")
    /\ UNCHANGED <<status, asleep, pushVars>>

\* _haveSendInfo: either answer is possible at any time.
HaveSendInfo ==
    /\ pc[Worker] = "haveSendInfo"
    /\ \E found \in BOOLEAN :
        Goto(Worker, IF found THEN "notifyConsume" ELSE "productUnlock")
    /\ UNCHANGED <<status, owner, asleep, pushVars>>

\* An assert of _haveSendInfo fails: abort() takes Main down with Worker.
WorkerAssert ==
    /\ "worker" \in Faults
    /\ pc[Worker] = "haveSendInfo"
    /\ pc' = [pc EXCEPT ![Worker] = "dead", ![Main] = "dead"]
    /\ owner' = [l \in Locks |->
                    IF owner[l] \in {Worker, Main} THEN DeadProc ELSE owner[l]]
    /\ UNCHANGED <<status, asleep, pushVars>>

NotifyConsume ==
    /\ pc[Worker] = "notifyConsume"
    /\ NotifyAll("consume")
    /\ Goto(Worker, "productHeld")
    /\ UNCHANGED <<status, owner, pushVars>>

ProductWait ==
    /\ pc[Worker] = "productHeld"
    /\ Wait(Worker, "product")
    /\ Goto(Worker, "productWait")
    /\ UNCHANGED <<status, pushVars>>

ProductWake ==
    /\ pc[Worker] = "productWait"
    /\ Wake(Worker, "product")
    /\ Goto(Worker, "productUnlock")
    /\ UNCHANGED <<status, asleep, pushVars>>

\* Unlock, then sleep(CHECK_MAIL_DATA_INTERVAL).
ProductUnlock ==
    /\ pc[Worker] = "productUnlock"
    /\ Unlock(Worker, "product")
    /\ Goto(Worker, "check")
    /\ UNCHANGED <<status, asleep, pushVars>>

-----------------------------------------------------------------------------
(* The master: cMasterProcess::OnChildRun.  multi and the deaths it has    *)
(* heard of decide which slots it fills; module ChildPool models how.      *)

MasterCheck ==
    /\ pc[Master] = "check"
    /\ IF CanStart
       THEN \E forked \in SUBSET {c \in Children : pc[c] = "dead"} :
                pc' = [p \in Procs |-> IF p \in forked THEN "check" ELSE pc[p]]
       ELSE Goto(Master, "command")
    /\ UNCHANGED <<status, owner, asleep, pushVars>>

-----------------------------------------------------------------------------
(* A child: cChildProcess::OnChildRun.                                     *)

ChildCheck(c) ==
    /\ pc[c] = "check"
    /\ Goto(c, IF CanStart THEN "child" ELSE "command")
    /\ UNCHANGED <<status, owner, asleep, pushVars>>

\* child_quit was set by SIGUSR1, or the master is gone: exit(SIGUSR1).
ChildExit(c) ==
    /\ pc[c] = "check"
    /\ Goto(c, "dead")
    /\ UNCHANGED <<status, owner, asleep, pushVars>>

ChildLock(c) ==
    /\ pc[c] = "child"
    /\ Lock(c, "child")
    /\ Goto(c, "pull")
    /\ UNCHANGED <<status, asleep, pushVars>>

(* Fault variant: childLock is released before the counter is updated. *)
PullUnlocksEarly(c) ==
    /\ pc[c] = "pull"
    /\ \E n \in 0..Unit :
        /\ n = 0 \/ pulled + n <= MaxPush
        /\ batch' = [batch EXCEPT ![c] = n]
        /\ pulled' = pulled + n
    /\ Unlock(c, "child")
    /\ Goto(c, "load")
    /\ UNCHANGED <<status, asleep, reg, havePushNum>>

Pull(c) ==
    /\ pc[c] = "pull"
    /\ \E n \in 0..Unit :
        /\ n = 0 \/ pulled + n <= MaxPush
        /\ batch' = [batch EXCEPT ![c] = n]
        /\ pulled' = pulled + n
    /\ Goto(c, "load")
    /\ UNCHANGED <<status, owner, asleep, reg, havePushNum>>

\* An assert of pullSentInfoFromMysql fails while childLock is held.
PullAssert(c) ==
    /\ "child" \in Faults
    /\ pc[c] = "pull"
    /\ Goto(c, "dead")
    /\ owner' = [owner EXCEPT !["child"] = DeadProc]
    /\ UNCHANGED <<status, asleep, pushVars>>

\* shm_ptr->havePushNum += send_mail_queue.size(): a load, then a store.
PushLoad(c) ==
    /\ pc[c] = "load"
    /\ reg' = [reg EXCEPT ![c] = havePushNum]
    /\ Goto(c, "store")
    /\ UNCHANGED <<status, owner, asleep, batch, havePushNum, pulled>>

(* Fault variant: the batch is subtracted. *)
PushStoreSubtracts(c) ==
    /\ pc[c] = "store"
    /\ havePushNum' = reg[c] - batch[c]
    /\ reg' = [reg EXCEPT ![c] = 0]
    /\ Goto(c, "childUnlock")
    /\ UNCHANGED <<status, owner, asleep, batch, pulled>>

PushStore(c) ==
    /\ pc[c] = "store"
    /\ havePushNum' = reg[c] + batch[c]
    /\ reg' = [reg EXCEPT ![c] = 0]
    /\ Goto(c, "childUnlock")
    /\ UNCHANGED <<status, owner, asleep, batch, pulled>>

\* Afterwards the child sends what it pulled, or reports that it is done.
ChildUnlock(c) ==
    /\ pc[c] = "childUnlock"
    /\ Unlock(c, "child")
    /\ Goto(c, IF batch[c] > 0 THEN "send" ELSE "consume")
    /\ UNCHANGED <<status, asleep, pushVars>>

\* The queue is emptied one mail at a time, then sleep(delay).
SendAll(c) ==
    /\ pc[c] = "send"
    /\ batch' = [batch EXCEPT ![c] = 0]
    /\ Goto(c, "check")
    /\ UNCHANGED <<status, owner, asleep, reg, havePushNum, pulled>>

ConsumeLock(c) ==
    /\ pc[c] = "consume"
    /\ Lock(c, "consume")
    /\ Goto(c, "notifyProduct")
    /\ UNCHANGED <<status, asleep, pushVars>>

(* Fault variant: the child broadcasts without taking productLock. *)
NotifyProductUnlocked(c) ==
    /\ pc[c] = "notifyProduct"
    /\ asleep' = [asleep EXCEPT !["product"] = {}]
    /\ Goto(c, "consumeHeld")
    /\ UNCHANGED <<status, owner, pushVars>>

NotifyProduct(c) ==
    /\ pc[c] = "notifyProduct"
    /\ NotifyAll("product")
    /\ Goto(c, "consumeHeld")
    /\ UNCHANGED <<status, owner, pushVars>>

ConsumeWait(c) ==
    /\ pc[c] = "consumeHeld"
    /\ Wait(c, "consume")
    /\ Goto(c, "consumeWait")
    /\ UNCHANGED <<status, pushVars>>

ConsumeWake(c) ==
    /\ pc[c] = "consumeWait"
    /\ Wake(c, "consume")
    /\ Goto(c, "consumeUnlock")
    /\ UNCHANGED <<status, asleep, pushVars>>

ConsumeUnlock(c) ==
    /\ pc[c] = "consumeUnlock"
    /\ Unlock(c, "consume")
    /\ Goto(c, "check")
    /\ UNCHANGED <<status, asleep, pushVars>>

-----------------------------------------------------------------------------
\* pthread_cond_wait may return without a broadcast.
SpuriousWakeup ==
    \E l \in Locks : \E p \in asleep[l] :
        /\ asleep' = [asleep EXCEPT ![l] = @ \ {p}]
        /\ UNCHANGED <<pc, status, owner, pushVars>>

CommandStep(p) ==
    CommandLock(p) \/ CommandWait(p) \/ CommandWake(p) \/ CommandUnlock(p)
WorkerStep ==
    \/ ForkMaster \/ WorkerCheck \/ ProductLock \/ HaveSendInfo
    \/ NotifyConsume \/ ProductWait \/ ProductWake \/ ProductUnlock
ChildStep(c) ==
    \/ ChildCheck(c) \/ ChildLock(c) \/ Pull(c) \/ PushLoad(c) \/ PushStore(c)
    \/ ChildUnlock(c) \/ SendAll(c) \/ ConsumeLock(c) \/ NotifyProduct(c)
    \/ ConsumeWait(c) \/ ConsumeWake(c) \/ ConsumeUnlock(c)

\* _init_shm and the start of the thread: nothing runs before the first START.
Init ==
    /\ pc = [p \in Procs |-> CASE p = Main -> "idle"
                               [] p = Worker -> "fork"
                               [] OTHER -> "dead"]
    /\ status = "NONE"
    /\ owner = [l \in Locks |-> NoProc]
    /\ asleep = [l \in Locks |-> {}]
    /\ batch = [c \in Children |-> 0]
    /\ reg = [c \in Children |-> 0]
    /\ havePushNum = 0
    /\ pulled = 0

Next ==
    \/ SetStatus \/ NotifyLock \/ NotifyBroadcast
    \/ \E p \in Waiters : CommandStep(p)
    \/ WorkerStep \/ WorkerAssert
    \/ MasterCheck
    \/ \E c \in Children : ChildStep(c) \/ ChildExit(c) \/ PullAssert(c)
    \/ SpuriousWakeup

Spec == Init /\ [][Next]_vars

\* Threads are scheduled, sleep() and the calls to the database end; the
\* server need not send anything, asserts need not fail, no child
\* need be retired and spurious wake-ups need not happen.  A mutex that is free again and again is had in the end.
Fairness ==
    /\ WF_vars(NotifyLock) /\ WF_vars(NotifyBroadcast)
    /\ WF_vars(WorkerStep) /\ WF_vars(MasterCheck)
    /\ \A p \in Waiters : /\ WF_vars(CommandStep(p))
                          /\ SF_vars(CommandLock(p)) /\ SF_vars(CommandWake(p))
    /\ \A c \in Children : WF_vars(ChildStep(c))
FairSpec == Spec /\ Fairness

-----------------------------------------------------------------------------
(* Properties.                                                             *)

ChildLabels ==
    {"dead", "check", "command", "commandHeld", "commandWait", "commandWoken",
     "child", "pull", "load", "store", "childUnlock", "send", "consume",
     "notifyProduct", "consumeHeld", "consumeWait", "consumeUnlock"}
WorkerLabels ==
    {"dead", "fork", "check", "command", "commandHeld", "commandWait",
     "commandWoken", "product", "haveSendInfo", "notifyConsume", "productHeld",
     "productWait", "productUnlock"}
MasterLabels ==
    {"dead", "check", "command", "commandHeld", "commandWait", "commandWoken"}
MainLabels == {"dead", "idle", "notifyCommand", "broadcast"}

\* The type of the shared memory and of the program counters.
TypeOK ==
    /\ pc \in [Procs -> ChildLabels \cup WorkerLabels \cup MainLabels]
    /\ \A c \in Children : pc[c] \in ChildLabels
    /\ pc[Worker] \in WorkerLabels
    /\ pc[Master] \in MasterLabels
    /\ pc[Main] \in MainLabels
    /\ status \in Statuses
    /\ owner \in [Locks -> Procs \cup {NoProc, DeadProc}]
    /\ asleep \in [Locks -> SUBSET Waiters]
    /\ batch \in [Children -> Nat]
    /\ reg \in [Children -> Nat]
    /\ havePushNum \in Nat
    /\ pulled \in Nat

\* No update of the counter is lost: the `+=' of the children (worker.cpp:411)
\* is a load and a store, yet whenever no child is between its pull and its
\* store the counter the server is told equals the mails pulled so far.
PushNumExact ==
    (\A c \in Children : pc[c] \notin {"load", "store"}) => havePushNum = pulled

\* The producer and a consumer never wait for each other: while the worker
\* sleeps on productLock no child sleeps, or is about to sleep, on
\* consumeLock with its own notification already spent (worker.cpp:159-165
\* against 429-432).
NoMutualSleep ==
    Worker \in asleep["product"] =>
        \A c \in Children :
            /\ c \notin asleep["consume"]
            /\ pc[c] # "consumeHeld"

\* The event loop comes back from setStatus: whatever the worker, the master
\* and the children do, and whichever of them are stuck, the call that takes
\* commandLock (worker.cpp:48) ends.
SetStatusReturns == (pc[Main] = "notifyCommand") ~> (pc[Main] \in {"idle", "dead"})

\* A process that was waiting for a command when a broadcast was sent gets
\* back to the top of its loop (unless an abort in the client process took
\* commandLock with it).
WokenRuns ==
    \A p \in Waiters :
        (pc[p] = "commandWait" /\ p \notin asleep["command"])
            ~> (pc[p] # "commandWait" \/ owner["command"] = DeadProc)

\* clientConn.cpp:194 announces that the server's order has arrived and is
\* carried out: once setStatus(START or RESUME) has returned nobody sleeps
\* waiting for an order.
OrderReachesAll ==
    (pc[Main] = "idle" /\ CanStart) => asleep["command"] = {}

\* worker.h:19, "check whether there is new mail to be sent": a worker that
\* found mail gets through notifying the children.
MailAnnounced == (pc[Worker] = "notifyConsume") ~> (pc[Worker] # "notifyConsume")
=============================================================================
