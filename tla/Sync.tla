------------------------------- MODULE Sync -------------------------------
(***************************************************************************)
(* Mutexes (mutex.c) and condition variables (condition.c) on top of the   *)
(* scheduler of Threads.tla.                                               *)
(*                                                                         *)
(* Every operation is split where the code takes or drops a spin lock,     *)
(* tests, queues, wakes or calls schedule(), so that a timer tick may come *)
(* between any two of these steps.  A wait node lives on the stack of the  *)
(* waiting thread, so a queue of nodes is a sequence of threads.           *)
(*                                                                         *)
(* Clients make any calls but those no mutex allows: they lock a mutex     *)
(* they do not hold, unlock or wait with one they hold, and exit holding   *)
(* none.                                                                   *)
(***************************************************************************)
EXTENDS Threads

CONSTANTS Mutex, Cond, NoMutex, NoCond

\* condition_wait() calls mutex_unlock() under its own spin lock.
ASSUME SyncAssumption ==
    NoMutex \notin Mutex /\ NoCond \notin Cond /\ MaxNest >= 2

VARIABLES locked,       \* mtx->locked
          waitqueue,    \* mtx->waitqueue
          cwaitqueue,   \* cond->waitqueue
          op,           \* where each thread is inside mutex.c or condition.c
          mtx,          \* the mutex argument of that call
          cond,         \* the condition argument of that call
          list,         \* the local list of condition_broadcast()
          holds         \* mutexes whose mutex_lock() has returned

syncVars == <<locked, waitqueue, cwaitqueue, op, mtx, cond, list, holds>>

vars == <<threadVars, syncVars>>

Ops == {"none",
        "ml_test", "ml_taken", "ml_queued", "ml_sched", "ml_ret",
        "mu_test", "mu_done",
        "cw_queue", "cw_unlock", "cw_unlocked", "cw_sched", "cw_ret",
        "cs_test", "cs_done",
        "cb_splice", "cb_spliced", "cb_loop"}

\* Queues hold threads, operations are known steps, and holds are mutexes.
SyncTypeOK ==
    /\ ThreadsTypeOK
    /\ locked \in [Mutex -> BOOLEAN]
    /\ waitqueue \in [Mutex -> Seq(Thread)]
    /\ cwaitqueue \in [Cond -> Seq(Thread)]
    /\ op \in [Thread -> Ops]
    /\ mtx \in [Thread -> Mutex \cup {NoMutex}]
    /\ cond \in [Thread -> Cond \cup {NoCond}]
    /\ list \in [Thread -> Seq(Thread)]
    /\ holds \in [Thread -> SUBSET Mutex]

\* mutex_setup() and condition_setup().
SyncInit ==
    /\ ThreadsInit
    /\ locked = [m \in Mutex |-> FALSE]
    /\ waitqueue = [m \in Mutex |-> <<>>]
    /\ cwaitqueue = [c \in Cond |-> <<>>]
    /\ op = [t \in Thread |-> "none"]
    /\ mtx = [t \in Thread |-> NoMutex]
    /\ cond = [t \in Thread |-> NoCond]
    /\ list = [t \in Thread |-> <<>>]
    /\ holds = [t \in Thread |-> {}]

At(t, label) == current = t /\ op[t] = label

Step(t, label) == op' = [op EXCEPT ![t] = label]

\* A running client that is in neither file.
Free(t) == At(t, "none") /\ t \in Clients /\ pc[t] = "run"

-----------------------------------------------------------------------------
(* mutex_lock() *)

\* The call, from client code or from the end of condition_wait().
MutexLock(t, m) ==
    /\ \/ Free(t) /\ m \notin holds[t]
       \/ At(t, "cw_ret") /\ m = mtx[t]
    /\ Lock(t)
    /\ Step(t, "ml_test")
    /\ mtx' = [mtx EXCEPT ![t] = m]
    /\ cond' = [cond EXCEPT ![t] = NoCond]
    /\ UNCHANGED <<locked, waitqueue, cwaitqueue, list, holds>>

LockTake(t) ==
    /\ At(t, "ml_test")
    /\ ~ locked[mtx[t]]
    /\ locked' = [locked EXCEPT ![mtx[t]] = TRUE]
    /\ Step(t, "ml_taken")
    /\ UNCHANGED <<threadVars, waitqueue, cwaitqueue, mtx, cond, list, holds>>

\* Wrong: the newcomer goes in front, list_add() for list_add_tail() (mutant).
LockQueueFirst(t) ==
    /\ At(t, "ml_test")
    /\ locked[mtx[t]]
    /\ MarkBlocked(t)
    /\ waitqueue' = [waitqueue EXCEPT ![mtx[t]] = <<t>> \o @]
    /\ Step(t, "ml_queued")
    /\ UNCHANGED <<locked, cwaitqueue, mtx, cond, list, holds>>

\* BLOCKED before it is queued, both under the lock.
LockQueue(t) ==
    /\ At(t, "ml_test")
    /\ locked[mtx[t]]
    /\ MarkBlocked(t)
    /\ waitqueue' = [waitqueue EXCEPT ![mtx[t]] = Append(@, t)]
    /\ Step(t, "ml_queued")
    /\ UNCHANGED <<locked, cwaitqueue, mtx, cond, list, holds>>

LockUnlockSpin(t) ==
    /\ At(t, "ml_queued")
    /\ Unlock(t)
    /\ Step(t, "ml_sched")
    /\ UNCHANGED <<locked, waitqueue, cwaitqueue, mtx, cond, list, holds>>

LockSchedule(t) ==
    /\ At(t, "ml_sched")
    /\ CallSchedule(t)
    /\ Step(t, "ml_ret")
    /\ UNCHANGED <<locked, waitqueue, cwaitqueue, mtx, cond, list, holds>>

\* Both ends of mutex_lock(): locked by the caller, or handed over to it.
\* The caller of mutex_lock() may now believe that it has the mutex.
LockReturn(t) ==
    /\ \/ At(t, "ml_taken") /\ Unlock(t)
       \/ At(t, "ml_ret") /\ UNCHANGED threadVars
    /\ Step(t, "none")
    /\ holds' = [holds EXCEPT ![t] = @ \cup {mtx[t]}]
    /\ mtx' = [mtx EXCEPT ![t] = NoMutex]
    /\ UNCHANGED <<locked, waitqueue, cwaitqueue, cond, list>>

-----------------------------------------------------------------------------
(* mutex_unlock() *)

\* The call, from client code or from within condition_wait().
MutexUnlock(t, m) ==
    /\ \/ Free(t) /\ m \in holds[t]
       \/ At(t, "cw_unlock") /\ m = mtx[t]
    /\ Lock(t)
    /\ Step(t, "mu_test")
    /\ mtx' = [mtx EXCEPT ![t] = m]
    /\ holds' = [holds EXCEPT ![t] = @ \ {m}]
    /\ UNCHANGED <<locked, waitqueue, cwaitqueue, cond, list>>

\* Wrong: nobody looks whether threads wait (mutant).
UnlockFreeAlways(t) ==
    /\ At(t, "mu_test")
    /\ locked' = [locked EXCEPT ![mtx[t]] = FALSE]
    /\ Step(t, "mu_done")
    /\ UNCHANGED <<threadVars, waitqueue, cwaitqueue, mtx, cond, list, holds>>

UnlockFree(t) ==
    /\ At(t, "mu_test")
    /\ waitqueue[mtx[t]] = <<>>
    /\ locked' = [locked EXCEPT ![mtx[t]] = FALSE]
    /\ Step(t, "mu_done")
    /\ UNCHANGED <<threadVars, waitqueue, cwaitqueue, mtx, cond, list, holds>>

\* Wrong: the node of the waiter stays linked (mutant).
UnlockHandOverLinked(t) ==
    /\ At(t, "mu_test")
    /\ waitqueue[mtx[t]] # <<>>
    /\ thread_activate(Head(waitqueue[mtx[t]]))
    /\ Step(t, "mu_done")
    /\ UNCHANGED <<locked, waitqueue, cwaitqueue, mtx, cond, list, holds>>

\* The mutex stays locked: the first waiter owns it from here on.
UnlockHandOver(t) ==
    /\ At(t, "mu_test")
    /\ waitqueue[mtx[t]] # <<>>
    /\ thread_activate(Head(waitqueue[mtx[t]]))
    /\ waitqueue' = [waitqueue EXCEPT ![mtx[t]] = Tail(@)]
    /\ Step(t, "mu_done")
    /\ UNCHANGED <<locked, cwaitqueue, mtx, cond, list, holds>>

\* Back to the client, or to the rest of condition_wait().
UnlockReturn(t) ==
    /\ At(t, "mu_done")
    /\ Unlock(t)
    /\ IF cond[t] = NoCond
       THEN Step(t, "none") /\ mtx' = [mtx EXCEPT ![t] = NoMutex]
       ELSE Step(t, "cw_unlocked") /\ mtx' = mtx
    /\ UNCHANGED <<locked, waitqueue, cwaitqueue, cond, list, holds>>

-----------------------------------------------------------------------------
(* condition_wait() *)

ConditionWait(t, c, m) ==
    /\ Free(t)
    /\ m \in holds[t]
    /\ Lock(t)
    /\ Step(t, "cw_queue")
    /\ mtx' = [mtx EXCEPT ![t] = m]
    /\ cond' = [cond EXCEPT ![t] = c]
    /\ UNCHANGED <<locked, waitqueue, cwaitqueue, list, holds>>

\* Queued before the mutex is unlocked, so that no signal can be missed.
WaitQueue(t) ==
    /\ At(t, "cw_queue")
    /\ MarkBlocked(t)
    /\ cwaitqueue' = [cwaitqueue EXCEPT ![cond[t]] = Append(@, t)]
    /\ Step(t, "cw_unlock")
    /\ UNCHANGED <<locked, waitqueue, mtx, cond, list, holds>>

WaitUnlockSpin(t) ==
    /\ At(t, "cw_unlocked")
    /\ Unlock(t)
    /\ Step(t, "cw_sched")
    /\ UNCHANGED <<locked, waitqueue, cwaitqueue, mtx, cond, list, holds>>

WaitSchedule(t) ==
    /\ At(t, "cw_sched")
    /\ CallSchedule(t)
    /\ Step(t, "cw_ret")
    /\ UNCHANGED <<locked, waitqueue, cwaitqueue, mtx, cond, list, holds>>

-----------------------------------------------------------------------------
(* condition_signal() and condition_broadcast() *)

ConditionCall(t, c, label) ==
    /\ Free(t)
    /\ Lock(t)
    /\ Step(t, label)
    /\ cond' = [cond EXCEPT ![t] = c]
    /\ UNCHANGED <<locked, waitqueue, cwaitqueue, mtx, list, holds>>

ConditionSignal(t, c) == ConditionCall(t, c, "cs_test")

\* Wrong: the node of the sleeper stays linked (mutant).
SignalWakeLinked(t) ==
    /\ At(t, "cs_test")
    /\ cwaitqueue[cond[t]] # <<>>
    /\ thread_activate(Head(cwaitqueue[cond[t]]))
    /\ Step(t, "cs_done")
    /\ UNCHANGED <<locked, waitqueue, cwaitqueue, mtx, cond, list, holds>>

SignalWake(t) ==
    /\ At(t, "cs_test")
    /\ cwaitqueue[cond[t]] # <<>>
    /\ thread_activate(Head(cwaitqueue[cond[t]]))
    /\ cwaitqueue' = [cwaitqueue EXCEPT ![cond[t]] = Tail(@)]
    /\ Step(t, "cs_done")
    /\ UNCHANGED <<locked, waitqueue, mtx, cond, list, holds>>

SignalReturn(t) ==
    /\ \/ At(t, "cs_test") /\ cwaitqueue[cond[t]] = <<>>
       \/ At(t, "cs_done")
    /\ Unlock(t)
    /\ Step(t, "none")
    /\ cond' = [cond EXCEPT ![t] = NoCond]
    /\ UNCHANGED <<locked, waitqueue, cwaitqueue, mtx, list, holds>>

ConditionBroadcast(t, c) == ConditionCall(t, c, "cb_splice")

\* Wrong: the queue is not emptied (mutant).
BroadcastSpliceCopy(t) ==
    /\ At(t, "cb_splice")
    /\ list' = [list EXCEPT ![t] = cwaitqueue[cond[t]]]
    /\ Step(t, "cb_spliced")
    /\ UNCHANGED <<threadVars, locked, waitqueue, cwaitqueue, mtx, cond, holds>>

\* list_splice(): the waiters move to a list on the caller's stack.
BroadcastSplice(t) ==
    /\ At(t, "cb_splice")
    /\ list' = [list EXCEPT ![t] = cwaitqueue[cond[t]]]
    /\ cwaitqueue' = [cwaitqueue EXCEPT ![cond[t]] = <<>>]
    /\ Step(t, "cb_spliced")
    /\ UNCHANGED <<threadVars, locked, waitqueue, mtx, cond, holds>>

BroadcastUnlockSpin(t) ==
    /\ At(t, "cb_spliced")
    /\ Unlock(t)
    /\ Step(t, "cb_loop")
    /\ UNCHANGED <<locked, waitqueue, cwaitqueue, mtx, cond, list, holds>>

\* Wrong: ptr->next is read from a node that is gone (mutant).
BroadcastWakeFirst(t) ==
    /\ At(t, "cb_loop")
    /\ list[t] # <<>>
    /\ thread_activate(Head(list[t]))
    /\ list' = [list EXCEPT ![t] = <<>>]
    /\ UNCHANGED <<locked, waitqueue, cwaitqueue, op, mtx, cond, holds>>

\* The walk runs without the lock; it steps past a node before waking it.
BroadcastWake(t) ==
    /\ At(t, "cb_loop")
    /\ list[t] # <<>>
    /\ thread_activate(Head(list[t]))
    /\ list' = [list EXCEPT ![t] = Tail(@)]
    /\ UNCHANGED <<locked, waitqueue, cwaitqueue, op, mtx, cond, holds>>

BroadcastReturn(t) ==
    /\ At(t, "cb_loop")
    /\ list[t] = <<>>
    /\ Step(t, "none")
    /\ cond' = [cond EXCEPT ![t] = NoCond]
    /\ UNCHANGED <<threadVars, locked, waitqueue, cwaitqueue, mtx, list, holds>>

-----------------------------------------------------------------------------
(* The system *)

\* Thread life outside the two files; a thread exits holding nothing.
Outside(t) ==
    /\ At(t, "none")
    /\ ThreadEntry(t) \/ ForceSchedule(t) \/ ThreadExit(t) \/ ThreadExitLoop(t)
    /\ pc'[t] = "exit" => holds[t] = {}
    /\ UNCHANGED syncVars

\* Main is idle or a client like any other while it is not in its loops.
Supervise ==
    /\ At(Main, "none")
    /\ \/ MainStep
       \/ \E n \in Thread : pc[n] = "new" /\ ThreadActivate(Main, n)
    /\ UNCHANGED syncVars

Interrupt == Tick /\ UNCHANGED syncVars

\* Steps that are bound to follow once an operation has begun.
InOperation(t) ==
    \/ \E m \in Mutex : At(t, "cw_ret") /\ MutexLock(t, m)
    \/ \E m \in Mutex : At(t, "cw_unlock") /\ MutexUnlock(t, m)
    \/ LockTake(t) \/ LockQueue(t) \/ LockUnlockSpin(t)
    \/ LockSchedule(t) \/ LockReturn(t)
    \/ UnlockFree(t) \/ UnlockHandOver(t) \/ UnlockReturn(t)
    \/ WaitQueue(t) \/ WaitUnlockSpin(t) \/ WaitSchedule(t)
    \/ SignalWake(t) \/ SignalReturn(t)
    \/ BroadcastSplice(t) \/ BroadcastUnlockSpin(t)
    \/ BroadcastWake(t) \/ BroadcastReturn(t)

\* Calls a client is free to make.
Call(t) ==
    /\ At(t, "none")
    /\ \/ \E m \in Mutex : MutexLock(t, m) \/ MutexUnlock(t, m)
       \/ \E c \in Cond, m \in Mutex : ConditionWait(t, c, m)
       \/ \E c \in Cond : ConditionSignal(t, c) \/ ConditionBroadcast(t, c)

Next ==
    \/ Interrupt
    \/ Supervise
    \/ \E t \in Thread : Outside(t) \/ Call(t) \/ InOperation(t)

Spec == SyncInit /\ [][Next]_vars

(***************************************************************************)
(* Fairness, besides that of the scheduler: a running thread executes the  *)
(* next step of an operation it is in, and a client that holds a mutex     *)
(* unlocks it.                                                             *)
(***************************************************************************)
SyncFairness ==
    /\ SF_vars(Interrupt)
    /\ WF_vars(Supervise /\ pc[Main] = "idle")
    /\ \A t \in Thread :
         /\ WF_vars(Outside(t) /\ pc[t] \in {"new", "exit"})
         /\ SF_vars(InOperation(t))
         /\ SF_vars(\E m \in Mutex : Free(t) /\ MutexUnlock(t, m))

FairSpec == Spec /\ SyncFairness

-----------------------------------------------------------------------------
(* Properties *)

\* t has mutex m or has been given it: it will leave mutex_lock() with it.
Owns(t, m) ==
    \/ m \in holds[t]
    \/ mtx[t] = m /\ op[t] \in {"ml_taken", "mu_test"}
    \/ /\ mtx[t] = m /\ op[t] \in {"ml_queued", "ml_sched", "ml_ret"}
       /\ ~ Contains(waitqueue[m], t)

(***************************************************************************)
(* Mutual exclusion, as the clients see it: no two threads are past        *)
(* mutex_lock() and before mutex_unlock() of the same mutex.  A waiter     *)
(* returns from its schedule() without looking at `locked` again           *)
(* (mutex.c:30), so this rests on the hand-over and on the scheduler.      *)
(***************************************************************************)
MutualExclusion ==
    \A t, u \in Thread : t # u => holds[t] \cap holds[u] = {}

(***************************************************************************)
(* Mutual exclusion, and no mutex is lost or given twice: it is locked     *)
(* exactly when one thread has it or has been handed it (mutex.c:43 and    *)
(* 51).  Locked with nobody to unlock it would block every later caller    *)
(* for good.                                                               *)
(***************************************************************************)
LockedIffOwned ==
    /\ MutualExclusion
    /\ \A m \in Mutex :
         /\ locked[m] <=> \E t \in Thread : Owns(t, m)
         /\ \A t, u \in Thread : Owns(t, m) /\ Owns(u, m) => t = u

\* Threads whose wait node is linked into a queue or a broadcast's local list.
Linked(t) ==
    {<<"mutex", m>> : m \in {x \in Mutex : Contains(waitqueue[x], t)}}
    \cup {<<"cond", c>> : c \in {x \in Cond : Contains(cwaitqueue[x], t)}}
    \cup {<<"list", u>> : u \in {x \in Thread : Contains(list[x], t)}}

(***************************************************************************)
(* A wait node is a local variable: it may be linked only while its thread *)
(* is inside the call that declared it, blocked, and it may be on one list *)
(* only, once (mutex.c:24, condition.c:20; the walk of condition.c:60      *)
(* reads nodes after dropping the lock).  The rest of the state is what    *)
(* SyncTypeOK says.                                                        *)
(***************************************************************************)
WaitNodesLive ==
    /\ SyncTypeOK
    /\ \A t \in Thread : Linked(t) # {} =>
         /\ state[t] = "BLOCKED"
         /\ \E l \in Linked(t) :
              /\ Linked(t) = {l}
              /\ l[1] = "mutex" =>
                   l[2] = mtx[t] /\ op[t] \in {"ml_queued", "ml_sched", "ml_ret"}
              /\ l[1] # "mutex" => op[t] \in
                   {"cw_unlock", "mu_test", "mu_done", "cw_unlocked", "cw_sched",
                    "cw_ret"}
    /\ \A q \in Range(waitqueue) \cup Range(cwaitqueue) \cup Range(list) :
         IsInjective(q)

(***************************************************************************)
(* Whoever blocks is linked somewhere, so a wake-up can find it: no thread *)
(* is BLOCKED with its node on no list, whatever the order of signal,      *)
(* unlock and preemption (the lost wake-up).  Threads that wait to be      *)
(* activated for the first time are not in these files.                    *)
(***************************************************************************)
NoLostWakeup ==
    \A t \in Thread :
        state[t] = "BLOCKED" /\ pc[t] # "new" => Linked(t) # {}

\* The thread that has mutex m.
Owner(m) == IF \E t \in Thread : Owns(t, m)
            THEN CHOOSE t \in Thread : Owns(t, m) ELSE NoThread

\* The running thread is on the queue of c and has yet to release the mutex.
FallingAsleep(c) ==
    cond[current] = c /\ op[current] \in {"cw_unlock", "mu_test"}

\* It is asleep from the release on; until then it is the last of the queue.
Sleepers(c) == IF FallingAsleep(c) THEN Front(cwaitqueue[c]) ELSE cwaitqueue[c]

M == INSTANCE Monitor WITH
       owner <- [m \in Mutex |-> Owner(m)],
       entry <- waitqueue,
       sleepers <- [c \in Cond |-> Sleepers(c)]

(***************************************************************************)
(* mutex.c and condition.c implement the abstract monitor: hand-over in    *)
(* the order of arrival, and condition_wait() that releases the mutex and  *)
(* falls asleep at once though the code queues, unlocks and schedules in   *)
(* separate steps (condition.c:26-31).                                     *)
(***************************************************************************)
ImplementsMonitor == M!MonitorSpec

(***************************************************************************)
(* mutex.c and condition.c use the scheduler as Threads.tla allows: they   *)
(* wake only threads that are BLOCKED, block only under a spin lock, nest  *)
(* spin locks at most MaxNest deep and call schedule() with none held.     *)
(***************************************************************************)
KeepsSchedulerContract == ThreadsSpec

(***************************************************************************)
(* Every mutex_lock() returns when every holder unlocks: no thread is      *)
(* overtaken for ever and no hand-over is forgotten.                       *)
(***************************************************************************)
LockEventuallyReturns ==
    \A t \in Thread : op[t] = "ml_test" ~> op[t] = "none"

-----------------------------------------------------------------------------
(* The inductive invariant *)

\* Steps at which no spin lock is held, so that a tick may switch.
Preemptible == {"none", "ml_sched", "ml_ret", "cw_sched", "cw_ret", "cb_loop"}

\* On the queue of a mutex, or on that of a condition or a broadcast's list.
LockWaits == {"ml_queued", "ml_sched", "ml_ret"}
CondWaits == {"cw_unlock", "mu_test", "mu_done", "cw_unlocked", "cw_sched", "cw_ret"}

\* Spin locks the two files hold for t: mutex_unlock() may be nested.
Depth(t) ==
    IF op[t] \in Preemptible THEN 0
    ELSE IF op[t] \in {"mu_test", "mu_done"} /\ cond[t] # NoCond THEN 2 ELSE 1

\* t has marked itself BLOCKED and has yet to call schedule().
BeforeSchedule(t) ==
    \/ op[t] \in {"ml_queued", "ml_sched", "cw_unlock", "cw_unlocked", "cw_sched"}
    \/ op[t] \in {"mu_test", "mu_done"} /\ cond[t] # NoCond

\* Where a thread is in the two files agrees with where the scheduler sees it.
OpsMatchScheduler ==
    /\ preempt_cnt = Depth(current)
    /\ \A t \in Thread :
         /\ t # current => op[t] \in Preemptible
         /\ op[t] # "none" =>
              t \in Clients /\ pc[t] = IF BeforeSchedule(t) THEN "wait" ELSE "run"
         /\ op[t] = "none" => pc[t] # "wait"

\* The arguments of a call are there while it needs them, and a mutex counts as
\* held up to the mutex_unlock() of condition_wait().
ArgsMatchOps ==
    \A t \in Thread :
        /\ mtx[t] = NoMutex <=>
             op[t] \in {"none", "cs_test", "cs_done", "cb_splice", "cb_spliced", "cb_loop"}
        /\ op[t] \in {"none", "ml_test", "ml_taken"} \cup LockWaits => cond[t] = NoCond
        /\ cond[t] = NoCond => op[t] \in
             {"none", "ml_test", "ml_taken", "mu_test", "mu_done"} \cup LockWaits
        /\ op[t] \in {"cw_queue", "cw_unlock"} => mtx[t] \in holds[t]
        /\ mtx[t] \in holds[t] => op[t] \in {"cw_queue", "cw_unlock"}
        /\ list[t] # <<>> => op[t] \in {"cb_spliced", "cb_loop"}

\* Linked nodes belong to BLOCKED threads inside the call that declared them.
QueuesMatchOps ==
    \A t \in Thread :
        /\ \A m \in Mutex : Contains(waitqueue[m], t) =>
             mtx[t] = m /\ op[t] \in LockWaits /\ state[t] = "BLOCKED"
        /\ \A c \in Cond : Contains(cwaitqueue[c], t) =>
             cond[t] = c /\ op[t] \in CondWaits /\ state[t] = "BLOCKED"
        /\ \A u \in Thread : Contains(list[u], t) =>
             /\ cond[t] # NoCond /\ op[t] \in CondWaits /\ state[t] = "BLOCKED"
             /\ \A c \in Cond : ~ Contains(cwaitqueue[c], t)
             /\ \A v \in Thread : Contains(list[v], t) => v = u

\* Nobody is queued twice, and nobody queues for a mutex that is free.
QueuesSound ==
    /\ \A m \in Mutex : /\ IsInjective(waitqueue[m])
                        /\ waitqueue[m] # <<>> => locked[m]
    /\ \A c \in Cond : /\ IsInjective(cwaitqueue[c])
                       /\ FallingAsleep(c) =>
                            cwaitqueue[c] # <<>> /\ Last(cwaitqueue[c]) = current
    /\ \A t \in Thread : IsInjective(list[t])

(***************************************************************************)
(* The invariant every step of mutex.c and condition.c preserves.  None of *)
(* the properties above is inductive: a hand-over gives the mutex to one   *)
(* thread only if the queues hold nobody who could already run, and that   *)
(* is so because nobody runs between queueing and schedule(), which in     *)
(* turn is a matter of spin locks held, step by step.                      *)
(***************************************************************************)
SyncInv ==
    /\ SyncTypeOK
    /\ ThreadsInv
    /\ OpsMatchScheduler
    /\ ArgsMatchOps
    /\ LockedIffOwned
    /\ QueuesMatchOps
    /\ QueuesSound
    /\ NoLostWakeup
=============================================================================
