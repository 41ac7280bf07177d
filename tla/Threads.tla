------------------------------ MODULE Threads ------------------------------
(***************************************************************************)
(* The thread scheduler: threads.c, the spin locks of spinlock.c, the      *)
(* context switch of switch.S and the timer tick of time.c, on the one CPU *)
(* the kernel runs on.                                                     *)
(*                                                                         *)
(* The module describes the scheduler together with everything its callers *)
(* may do to it: a client takes and drops spin locks, marks itself BLOCKED *)
(* under one, calls schedule() and force_schedule(), and wakes others.     *)
(* Sync.tla shows that mutexes and condition variables stay within it.     *)
(*                                                                         *)
(* __schedule() runs with interrupts disabled on a single CPU, so nothing  *)
(* can come between its first and its last line: it is one step, the       *)
(* __thread_switch in its middle and the place_thread() the resumed thread *)
(* executes included.                                                      *)
(***************************************************************************)
EXTENDS Naturals, Sequences, SequencesExt

CONSTANTS Thread,     \* thread structures the kernel may hand out
          Main,       \* the boot thread, threads_setup() makes it current
          NoThread,   \* the null struct thread pointer
          Clients,    \* threads that may block on a mutex or a condition
          SLICE,      \* ticks a thread may run while others are queued
          IrqModes,   \* lock flavours in use: TRUE is spin_lock_irqsave
          MaxNest     \* bound: spin locks held at once

ASSUME ThreadAssumption == Main \in Thread /\ NoThread \notin Thread
ASSUME ClientAssumption == Clients \subseteq Thread
ASSUME SliceAssumption == SLICE \in Nat /\ SLICE > 0
ASSUME LockAssumption == IrqModes \subseteq BOOLEAN /\ MaxNest \in Nat

VARIABLES current,      \* the running thread
          idle_thread,  \* set once, by idle()
          runqueue,     \* threads waiting for the CPU, head first
          state,        \* thread->state; "FREE": not allocated
          elapsed,      \* jiffies - current->time, saturating at SLICE
          preempt_cnt,  \* the global preemption counter
          enable,       \* `enable` locals of the open critical sections
          ints,         \* RFLAGS.IF of each thread when it runs
          pc,           \* where each thread is in the code of threads.c
          target        \* the argument of Main's thread_join()

threadVars == <<current, idle_thread, runqueue, state, elapsed, preempt_cnt,
                enable, ints, pc, target>>

(***************************************************************************)
(* "none": not allocated; "new": has not reached its function yet; "run":  *)
(* in client code; "wait": marked itself BLOCKED and has yet to call       *)
(* schedule(); "join", "exit", "idle": in the loops of thread_join(),      *)
(* thread_exit() and idle(); "joined": thread_join() has returned;         *)
(* "idle_set": between the two assignments of idle().                      *)
(***************************************************************************)
PCs == {"none", "new", "run", "wait", "join", "joined", "exit", "idle_set",
        "idle"}

States == {"FREE", "IDLE", "ACTIVE", "BLOCKED", "FINISHING", "FINISHED"}

ThreadsTypeOK ==
    /\ current \in Thread
    /\ idle_thread \in {NoThread, Main}
    /\ runqueue \in Seq(Thread)
    /\ state \in [Thread -> States]
    /\ elapsed \in 0 .. SLICE
    /\ preempt_cnt \in Nat
    /\ enable \in Seq(BOOLEAN)
    /\ ints \in [Thread -> BOOLEAN]
    /\ pc \in [Thread -> PCs]
    /\ target \in Thread \cup {NoThread}

(***************************************************************************)
(* threads_setup() clears sizeof(current) bytes of the boot thread, one    *)
(* pointer, so its `time` holds whatever the allocator returned: elapsed   *)
(* starts anywhere.  Interrupts are on when main() goes on to client code. *)
(***************************************************************************)
ThreadsInit ==
    /\ current = Main
    /\ idle_thread = NoThread
    /\ runqueue = <<>>
    /\ state = [t \in Thread |-> IF t = Main THEN "ACTIVE" ELSE "FREE"]
    /\ elapsed \in 0 .. SLICE
    /\ preempt_cnt = 0
    /\ enable = <<>>
    /\ ints = [t \in Thread |-> t = Main]
    /\ pc = [t \in Thread |-> IF t = Main THEN "run" ELSE "none"]
    /\ target = NoThread

Goto(t, label) == pc' = [pc EXCEPT ![t] = label]

-----------------------------------------------------------------------------
(* __schedule() *)

\* The thread __schedule() picks: the head of the run queue, or idle_thread.
Picked == IF runqueue = <<>> THEN idle_thread ELSE Head(runqueue)

Rest == IF runqueue = <<>> THEN <<>> ELSE Tail(runqueue)

\* What makes __schedule() go past its first return; e is time - prev->time.
Expired(force, e) == force \/ state[current] # "ACTIVE" \/ e >= SLICE

\* The tests after the run queue was popped.
Switches ==
    /\ Picked # current
    /\ Picked # NoThread
    /\ Picked # idle_thread \/ state[current] # "ACTIVE"

\* Wrong: prev is queued whatever its state (mutant).
place_thread_always(next, queue) ==
    /\ state' = state
    /\ runqueue' = Append(queue, current)
    /\ current' = next
    /\ elapsed' = 0

\* Wrong: prev is queued in front, list_add() for list_add_tail() (mutant).
place_thread_first(next, queue) ==
    LET settled == IF state[current] = "FINISHING" THEN "FINISHED"
                                                   ELSE state[current]
    IN  /\ state' = [state EXCEPT ![current] = settled]
        /\ runqueue' = IF settled = "ACTIVE" THEN <<current>> \o queue ELSE queue
        /\ current' = next
        /\ elapsed' = 0

\* Wrong: FINISHING never becomes FINISHED (mutant).
place_thread_unfinished(next, queue) ==
    /\ runqueue' = IF state[current] = "ACTIVE" THEN Append(queue, current)
                                                ELSE queue
    /\ current' = next
    /\ elapsed' = 0
    /\ UNCHANGED state

\* thread_switch_to() and the place_thread() executed on the new stack.
place_thread(next, queue) ==
    LET settled == IF state[current] = "FINISHING" THEN "FINISHED"
                                                   ELSE state[current]
    IN  /\ state' = [state EXCEPT ![current] = settled]
        /\ runqueue' = IF settled = "ACTIVE" THEN Append(queue, current)
                                             ELSE queue
        /\ current' = next
        /\ elapsed' = 0

__schedule(force, e) ==
    \/ /\ ~ Expired(force, e)
       /\ elapsed' = e
       /\ UNCHANGED <<current, runqueue, state>>
    \/ /\ Expired(force, e)
       /\ ~ Switches
       /\ runqueue' = Rest
       /\ elapsed' = e
       /\ UNCHANGED <<current, state>>
    \/ /\ Expired(force, e)
       /\ Switches
       /\ place_thread(Picked, Rest)

\* Wrong: preempt_cnt is not looked at (mutant).
schedule_unchecked(e) == __schedule(FALSE, e)

\* schedule(): nothing happens while preemption is disabled.
schedule(e) ==
    \/ /\ preempt_cnt > 0
       /\ elapsed' = e
       /\ UNCHANGED <<current, runqueue, state>>
    \/ /\ preempt_cnt = 0
       /\ __schedule(FALSE, e)

\* force_schedule(): BUG_ON(preempt_cnt) halts the kernel, see NoBug.
force_schedule == preempt_cnt = 0 /\ __schedule(TRUE, elapsed)

-----------------------------------------------------------------------------
(* Spin locks.  A plain spin_lock() has no flag to restore: it saves FALSE. *)

spin_lock(t, irq) ==
    /\ preempt_cnt' = preempt_cnt + 1
    /\ enable' = Append(enable, irq /\ ints[t])
    /\ ints' = IF irq THEN [ints EXCEPT ![t] = FALSE] ELSE ints

spin_unlock(t) ==
    /\ preempt_cnt' = preempt_cnt - 1
    /\ enable' = SubSeq(enable, 1, Len(enable) - 1)
    /\ ints' = IF enable[Len(enable)] THEN [ints EXCEPT ![t] = TRUE] ELSE ints

\* Each client operation is an effect, which is what the code does whatever the
\* state, and an action, which adds what its caller must have made sure of.
InClient(t) == current = t /\ pc[t] \in {"run", "wait"}

Lock(t) ==
    /\ \E irq \in IrqModes : spin_lock(t, irq)
    /\ UNCHANGED <<current, idle_thread, runqueue, state, elapsed, pc, target>>

Unlock(t) ==
    /\ spin_unlock(t)
    /\ UNCHANGED <<current, idle_thread, runqueue, state, elapsed, pc, target>>

SpinLock(t) == InClient(t) /\ preempt_cnt < MaxNest /\ Lock(t)

SpinUnlock(t) == InClient(t) /\ preempt_cnt > 0 /\ Unlock(t)

-----------------------------------------------------------------------------
(* The timer interrupt: pit_handler() counts the jiffy and calls schedule(). *)

Tick ==
    /\ ints[current]
    /\ schedule(IF elapsed < SLICE THEN elapsed + 1 ELSE elapsed)
    /\ UNCHANGED <<idle_thread, preempt_cnt, enable, ints, pc, target>>

-----------------------------------------------------------------------------
(* Life of a thread *)

\* __thread_create(): when no stack page is left it returns 0, changing nothing.
ThreadCreate(n) ==
    /\ current = Main /\ pc[Main] = "run"
    /\ state[n] = "FREE"
    /\ state' = [state EXCEPT ![n] = "BLOCKED"]
    /\ ints' = [ints EXCEPT ![n] = FALSE]
    /\ Goto(n, "new")
    /\ UNCHANGED <<current, idle_thread, runqueue, elapsed, preempt_cnt,
                   enable, target>>

\* Wrong: queued in front of those who wait longer (mutant).
thread_activate_first(u) ==
    /\ state' = [state EXCEPT ![u] = "ACTIVE"]
    /\ runqueue' = <<u>> \o runqueue
    /\ UNCHANGED <<current, idle_thread, elapsed, preempt_cnt, enable, ints,
                   pc, target>>

\* thread_activate(), whose critical section no other thread can enter.
thread_activate(u) ==
    /\ state' = [state EXCEPT ![u] = "ACTIVE"]
    /\ runqueue' = Append(runqueue, u)
    /\ UNCHANGED <<current, idle_thread, elapsed, preempt_cnt, enable, ints,
                   pc, target>>

\* The caller wakes another thread that is BLOCKED, whether new or waiting.
ThreadActivate(t, u) ==
    /\ InClient(t)
    /\ u # t
    /\ state[u] = "BLOCKED"
    /\ pc[u] = "new" => t = Main
    /\ thread_activate(u)

\* thread_entry() after its place_thread(): the thread starts with IF clear.
ThreadEntry(t) ==
    /\ current = t /\ pc[t] = "new"
    /\ ints' = [ints EXCEPT ![t] = TRUE]
    /\ Goto(t, "run")
    /\ UNCHANGED <<current, idle_thread, runqueue, state, elapsed,
                   preempt_cnt, enable, target>>

\* self->state = THREAD_BLOCKED in a primitive that will call schedule().
MarkBlocked(t) ==
    /\ state' = [state EXCEPT ![t] = "BLOCKED"]
    /\ Goto(t, "wait")
    /\ UNCHANGED <<current, idle_thread, runqueue, elapsed, preempt_cnt,
                   enable, ints, target>>

\* It does so while it holds its spin lock.
Block(t) ==
    /\ current = t /\ pc[t] = "run"
    /\ t \in Clients
    /\ preempt_cnt > 0
    /\ MarkBlocked(t)

\* The schedule() that follows; the thread comes back from it in client code.
CallSchedule(t) ==
    /\ schedule(elapsed)
    /\ Goto(t, "run")
    /\ UNCHANGED <<idle_thread, preempt_cnt, enable, ints, target>>

Schedule(t) ==
    /\ current = t /\ pc[t] = "wait"
    /\ preempt_cnt = 0
    /\ CallSchedule(t)

\* A client gives up the CPU of its own accord.
ForceSchedule(t) ==
    /\ current = t /\ pc[t] = "run"
    /\ force_schedule
    /\ UNCHANGED <<idle_thread, preempt_cnt, enable, ints, pc, target>>

ThreadJoin(u) ==
    /\ current = Main /\ pc[Main] = "run"
    /\ preempt_cnt = 0
    /\ u # Main
    /\ state[u] # "FREE" /\ ~ (pc[u] = "new" /\ state[u] = "BLOCKED")
    /\ target' = u
    /\ Goto(Main, "join")
    /\ UNCHANGED <<current, idle_thread, runqueue, state, elapsed,
                   preempt_cnt, enable, ints>>

ThreadJoinLoop ==
    /\ current = Main /\ pc[Main] = "join"
    /\ state[target] # "FINISHED"
    /\ force_schedule
    /\ UNCHANGED <<idle_thread, preempt_cnt, enable, ints, pc, target>>

ThreadJoinReturn ==
    /\ current = Main /\ pc[Main] = "join"
    /\ state[target] = "FINISHED"
    /\ Goto(Main, "joined")
    /\ UNCHANGED <<current, idle_thread, runqueue, state, elapsed,
                   preempt_cnt, enable, ints, target>>

\* thread_destroy(): the stack and the structure go back to the allocators.
ThreadDestroy ==
    /\ current = Main /\ pc[Main] = "joined"
    /\ state' = [state EXCEPT ![target] = "FREE"]
    /\ pc' = [pc EXCEPT ![target] = "none", ![Main] = "run"]
    /\ target' = NoThread
    /\ UNCHANGED <<current, idle_thread, runqueue, elapsed, preempt_cnt,
                   enable, ints>>

\* thread_exit(), called by the thread or by thread_entry() at its end.
ThreadExit(t) ==
    /\ current = t /\ pc[t] = "run"
    /\ t # Main
    /\ preempt_cnt = 0
    /\ state' = [state EXCEPT ![t] = "FINISHING"]
    /\ Goto(t, "exit")
    /\ UNCHANGED <<current, idle_thread, runqueue, elapsed, preempt_cnt,
                   enable, ints, target>>

ThreadExitLoop(t) ==
    /\ current = t /\ pc[t] = "exit"
    /\ force_schedule
    /\ UNCHANGED <<idle_thread, preempt_cnt, enable, ints, pc, target>>

\* Wrong: IDLE, and off the run queue, before idle_thread is set (mutant).
IdleStateFirst ==
    /\ current = Main /\ pc[Main] = "run"
    /\ preempt_cnt = 0
    /\ state' = [state EXCEPT ![Main] = "IDLE"]
    /\ Goto(Main, "idle_set")
    /\ UNCHANGED <<current, idle_thread, runqueue, elapsed, preempt_cnt, enable,
                   ints, target>>

\* idle(): a tick may come between its two assignments.
Idle ==
    /\ current = Main /\ pc[Main] = "run"
    /\ preempt_cnt = 0
    /\ idle_thread' = Main
    /\ Goto(Main, "idle_set")
    /\ UNCHANGED <<current, runqueue, state, elapsed, preempt_cnt, enable,
                   ints, target>>

IdleState ==
    /\ current = Main /\ pc[Main] = "idle_set"
    /\ state' = [state EXCEPT ![Main] = "IDLE"]
    /\ Goto(Main, "idle")
    /\ UNCHANGED <<current, idle_thread, runqueue, elapsed, preempt_cnt,
                   enable, ints, target>>

IdleLoop ==
    /\ current = Main /\ pc[Main] = "idle"
    /\ force_schedule
    /\ UNCHANGED <<idle_thread, preempt_cnt, enable, ints, pc, target>>

-----------------------------------------------------------------------------

\* What the boot thread does besides running client code.
MainStep ==
    \/ \E n \in Thread : ThreadCreate(n) \/ ThreadJoin(n)
    \/ ThreadJoinLoop \/ ThreadJoinReturn \/ ThreadDestroy
    \/ Idle \/ IdleState \/ IdleLoop

\* Steps of the scheduler's clients.
ThreadStep(t) ==
    \/ ThreadEntry(t) \/ ForceSchedule(t)
    \/ ThreadExit(t) \/ ThreadExitLoop(t)

PrimitiveStep(t) ==
    \/ SpinLock(t) \/ SpinUnlock(t)
    \/ Block(t) \/ Schedule(t)
    \/ \E u \in Thread : ThreadActivate(t, u)

ThreadsNext ==
    \/ Tick
    \/ MainStep
    \/ \E t \in Thread : ThreadStep(t) \/ PrimitiveStep(t)

ThreadsSpec == ThreadsInit /\ [][ThreadsNext]_threadVars

(***************************************************************************)
(* Fairness.  The PIC latches the timer interrupt while IF is clear, so a  *)
(* tick that is enabled again and again is delivered.  The CPU executes    *)
(* instructions: what the running thread does next gets done, a return     *)
(* from thread_join() even if ticks keep preempting it first.  A section   *)
(* under spin locks ends, whatever locks are nested in it meanwhile.       *)
(* Nobody is obliged to exit, to block or to yield.                        *)
(***************************************************************************)
ThreadsFairness ==
    /\ SF_threadVars(Tick)
    /\ SF_threadVars(ThreadJoinReturn)
    /\ WF_threadVars(IdleLoop)
    /\ \A t \in Thread :
         /\ WF_threadVars(ThreadEntry(t))
         /\ WF_threadVars(ThreadExitLoop(t))
         /\ WF_threadVars(SpinUnlock(t))
         /\ SF_threadVars(SpinUnlock(t) /\ preempt_cnt' = 0)

ThreadsFairSpec == ThreadsSpec /\ ThreadsFairness

-----------------------------------------------------------------------------
(* Properties *)

(***************************************************************************)
(* The run queue is exact: nobody is on it twice, everybody on it is       *)
(* ACTIVE and off the CPU, and an ACTIVE thread that is off the CPU is on  *)
(* it, the idle thread excepted.  A thread queued twice would corrupt the  *)
(* intrusive list (list_add_tail of a linked node, threads.c:77 and 141);  *)
(* an ACTIVE one left off it would never run again.                        *)
(***************************************************************************)
RunQueueExact ==
    /\ IsInjective(runqueue)
    /\ \A t \in Thread : Contains(runqueue, t) =>
         state[t] = "ACTIVE" /\ t # current
    /\ \A t \in Thread : state[t] = "ACTIVE" =>
         t = current \/ t = idle_thread \/ Contains(runqueue, t)

(***************************************************************************)
(* The CPU never runs on a stack thread_destroy() may free or has freed:   *)
(* the running thread is not FINISHED, the state thread_join() waits for,  *)
(* and not FREE (threads.c:72, 127 and 156).                               *)
(***************************************************************************)
NoRunOnFreedStack == state[current] \notin {"FREE", "FINISHED"}

(***************************************************************************)
(* schedule() called by a thread that is BLOCKED or FINISHING always finds *)
(* somebody else: with an empty run queue the idle thread exists.          *)
(* Otherwise __schedule() (threads.c:189) just returns to the caller,      *)
(* and mutex_lock() returns without the mutex.                             *)
(***************************************************************************)
SomebodyToRun ==
    state[current] \in {"BLOCKED", "FINISHING"} =>
        \/ runqueue # <<>>
        \/ idle_thread # NoThread

(***************************************************************************)
(* A thread that has marked itself BLOCKED comes back from its schedule()  *)
(* only after somebody woke it: while it is BLOCKED and on the CPU that    *)
(* call is still ahead of it.  mutex_lock() and condition_wait() rely on   *)
(* it (mutex.c:30, condition.c:31).                                        *)
(***************************************************************************)
NoRunWhileBlocked == state[current] = "BLOCKED" => pc[current] = "wait"

(***************************************************************************)
(* No BUG_ON of threads.c fires: force_schedule() is never reached with    *)
(* preemption disabled (threads.c:210), and idle() is entered only while   *)
(* no idle thread is set (threads.c:224).                                  *)
(***************************************************************************)
NoBug ==
    /\ pc[current] \in {"join", "exit", "idle"} => preempt_cnt = 0
    /\ pc[Main] \notin {"idle_set", "idle"} => idle_thread = NoThread

(***************************************************************************)
(* Nobody else runs while a spin lock is held: the CPU changes hands only  *)
(* when preempt_cnt is 0 (threads.c:197 and 210).  This is all the mutual  *)
(* exclusion the locks of spinlock.c give.                                 *)
(***************************************************************************)
LockKeepsCPU == [][preempt_cnt > 0 => current' = current]_threadVars

(***************************************************************************)
(* A thread leaves the BLOCKED state only by a thread_activate() of        *)
(* another thread, and then it is queued behind everybody already waiting: *)
(* no step of its own and no tick makes it runnable (threads.c:140).       *)
(***************************************************************************)
WokenByOthers ==
    [][\A t \in Thread : state[t] = "BLOCKED" /\ state'[t] # "BLOCKED" =>
         /\ current # t /\ current' # t
         /\ runqueue' = Append(runqueue, t)]_threadVars

(***************************************************************************)
(* No starvation: a queued thread gets the CPU, however long the others    *)
(* compute, because ticks expire their slices (threads.c:176).  The idle   *)
(* thread is the exception: preempted inside idle() it is queued as any    *)
(* other, and __schedule() drops it when it pops it (threads.c:189).       *)
(***************************************************************************)
NoStarvation ==
    \A t \in Thread : Contains(runqueue, t) ~> current = t \/ t = idle_thread

(***************************************************************************)
(* thread_join() returns once its thread is in thread_exit(), however many *)
(* threads compete with the boot thread for the CPU: the FINISHING thread  *)
(* is switched away from, the next thread to run makes it FINISHED, and    *)
(* the loop sees it (threads.c:72 and 145-158).                            *)
(***************************************************************************)
JoinReturns ==
    pc[Main] = "join" /\ pc[target] = "exit" ~> pc[Main] = "joined"

-----------------------------------------------------------------------------
(* The inductive invariant *)

\* How far a thread is in threads.c and what its state says agree.
PcMatchesState ==
    \A t \in Thread :
        /\ pc[t] = "none" <=> state[t] = "FREE"
        /\ pc[t] = "exit" <=> state[t] \in {"FINISHING", "FINISHED"}
        /\ pc[t] = "idle" <=> state[t] = "IDLE"
        /\ pc[t] \in {"join", "joined", "idle_set", "idle"} => t = Main
        /\ state[t] = "FINISHING" => t = current

\* The boot thread can always be run: it never blocks and never exits.
MainRunnable ==
    /\ state[Main] \in {"ACTIVE", "IDLE"}
    /\ pc[Main] \in {"idle_set", "idle"} <=> idle_thread = Main

\* What Main joins is another thread, and is FINISHED once joined.
JoinTarget ==
    pc[Main] \in {"join", "joined"} =>
        /\ target \in Thread \ {Main}
        /\ pc[Main] = "joined" => state[target] = "FINISHED"

\* Spin locks are held by the running thread, in client code.
LocksInClient ==
    /\ Len(enable) = preempt_cnt
    /\ preempt_cnt > 0 => pc[current] \in {"run", "wait"}

(***************************************************************************)
(* The invariant every step of threads.c preserves, from which the others  *)
(* follow.  RunQueueExact alone is not inductive: that __schedule() may    *)
(* drop the thread it popped needs to know that only idle() sets           *)
(* idle_thread, and that Main is found on the queue needs MainRunnable.    *)
(***************************************************************************)
ThreadsInv ==
    /\ ThreadsTypeOK
    /\ RunQueueExact
    /\ NoRunOnFreedStack
    /\ NoRunWhileBlocked
    /\ PcMatchesState
    /\ MainRunnable
    /\ JoinTarget
    /\ LocksInClient
=============================================================================
