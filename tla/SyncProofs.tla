----------------------------- MODULE SyncProofs -----------------------------
(***************************************************************************)
(* The scheduler, mutexes and condition variables, for any number of       *)
(* threads, mutexes and conditions and any length of a time slice: the     *)
(* invariants of Threads.tla and Sync.tla are inductive, the two files of  *)
(* locks keep to what Threads.tla asks of the scheduler's callers, and     *)
(* they implement the abstract monitor, as long as the boot thread never   *)
(* blocks.                                                                 *)
(***************************************************************************)
EXTENDS Sync, QueueTheorems, TLAPS

\* The client contract of threads.c: the boot thread runs until idle().
MainNeverBlocks == Main \notin Clients

USE ThreadAssumption, ClientAssumption, SliceAssumption, LockAssumption

-----------------------------------------------------------------------------
(* One call of __schedule() *)

\* The queue and the thread __schedule() took from it.
LEMMA PickedFacts ==
    ASSUME ThreadsInv
    PROVE  /\ Rest \in Seq(Thread)
           /\ IsInjective(Rest)
           /\ \A t : Contains(Rest, t) => Contains(runqueue, t)
           /\ \A t : Contains(runqueue, t) => Contains(Rest, t) \/ t = Picked
           /\ Picked \in Thread \cup {NoThread}
           /\ ~ Contains(Rest, current)
           /\ Picked # NoThread => ~ Contains(Rest, Picked)
           /\ Picked # NoThread => state[Picked] \in {"ACTIVE", "IDLE"}
           /\ runqueue # <<>> => Picked # current
<1> USE DEF ThreadsInv
<1>1. CASE runqueue = <<>>
  <2>1. Rest = <<>> /\ Picked = idle_thread
    BY <1>1 DEF Rest, Picked
  <2>2. \A t : ~ Contains(runqueue, t)
    BY <1>1 DEF Contains
  <2> QED BY <1>1, <2>1, <2>2 DEF ThreadsTypeOK, RunQueueExact, MainRunnable
<1>2. CASE runqueue # <<>>
  <2>1. Rest = Tail(runqueue) /\ Picked = Head(runqueue)
    BY <1>2 DEF Rest, Picked
  <2>2. runqueue \in Seq(Thread) /\ IsInjective(runqueue)
    BY DEF ThreadsTypeOK, RunQueueExact
  <2>3. /\ Head(runqueue) \in Thread
        /\ Tail(runqueue) \in Seq(Thread)
        /\ Contains(runqueue, Head(runqueue))
        /\ \A y : Contains(runqueue, y) <=>
                    Contains(Tail(runqueue), y) \/ y = Head(runqueue)
        /\ IsInjective(Tail(runqueue))
        /\ ~ Contains(Tail(runqueue), Head(runqueue))
    BY <1>2, <2>2, TailMembers
  <2>4. \A t \in Thread : Contains(runqueue, t) =>
          state[t] = "ACTIVE" /\ t # current
    BY DEF RunQueueExact
  <2>5. current \in Thread
    BY DEF ThreadsTypeOK
  <2> QED BY <2>1, <2>3, <2>4, <2>5
<1> QED BY <1>1, <1>2

\* What the invariant says of a thread that blocks or exits.
LEMMA InvSomebodyToRun == ThreadsInv => SomebodyToRun
<1> SUFFICES ASSUME ThreadsInv, state[current] \in {"BLOCKED", "FINISHING"},
                    runqueue = <<>>
             PROVE  idle_thread # NoThread
  BY DEF SomebodyToRun
<1>1. ~ Contains(runqueue, Main)
  BY DEF Contains
<1> QED BY <1>1 DEF ThreadsInv, RunQueueExact, PcMatchesState, MainRunnable

\* __schedule() leaves the run queue exact and runs a thread that may run.
LEMMA SchedulePreserves ==
    ASSUME ThreadsInv,
           NEW force \in BOOLEAN, NEW e \in 0 .. SLICE, __schedule(force, e),
           idle_thread' = idle_thread
    PROVE  /\ current' \in Thread
           /\ runqueue' \in Seq(Thread)
           /\ state' \in [Thread -> States]
           /\ elapsed' \in 0 .. SLICE
           /\ RunQueueExact'
           /\ NoRunOnFreedStack'
           /\ state'[current'] # "BLOCKED"
           /\ \A t \in Thread :
                \/ state'[t] = state[t]
                \/ state[t] = "FINISHING" /\ state'[t] = "FINISHED"
           /\ \A t \in Thread : state'[t] = "FINISHING" => t = current'
<1>0. /\ current \in Thread /\ runqueue \in Seq(Thread)
      /\ state \in [Thread -> States]
      /\ RunQueueExact /\ NoRunOnFreedStack
      /\ \A t \in Thread : state[t] = "FINISHING" => t = current
  BY DEF ThreadsInv, ThreadsTypeOK, PcMatchesState
<1>1. CASE /\ ~ Expired(force, e)
           /\ elapsed' = e
           /\ UNCHANGED <<current, runqueue, state>>
  BY <1>0, <1>1 DEF RunQueueExact, NoRunOnFreedStack, Expired
<1>2. CASE /\ ~ Switches
           /\ runqueue' = Rest
           /\ elapsed' = e
           /\ UNCHANGED <<current, state>>
  <2>1. \A t \in Thread : state[t] = "ACTIVE" =>
          t = current \/ t = idle_thread \/ Contains(Rest, t)
    BY <1>0, <1>2, PickedFacts DEF RunQueueExact, Switches
  <2>2. RunQueueExact'
    BY <1>0, <1>2, <2>1, PickedFacts DEF RunQueueExact
  <2>3. state[current] # "BLOCKED"
    <3> SUFFICES ASSUME state[current] = "BLOCKED" PROVE Switches
      BY <1>2
    <3>1. Picked # NoThread
      BY InvSomebodyToRun, PickedFacts DEF SomebodyToRun, Picked, ThreadsInv,
         ThreadsTypeOK, RunQueueExact
    <3> QED BY <3>1, PickedFacts DEF Switches
  <2> QED BY <1>0, <1>2, <2>2, <2>3, PickedFacts DEF NoRunOnFreedStack
<1>3. CASE Switches /\ place_thread(Picked, Rest)
  <2> DEFINE settled == IF state[current] = "FINISHING" THEN "FINISHED"
                                                        ELSE state[current]
  <2>1. /\ state' = [state EXCEPT ![current] = settled]
        /\ runqueue' = IF settled = "ACTIVE" THEN Append(Rest, current)
                                             ELSE Rest
        /\ current' = Picked
        /\ elapsed' = 0
    BY <1>3 DEF place_thread
  <2>2. Picked \in Thread /\ Picked # current
    BY <1>3, PickedFacts DEF Switches
  <2>3. settled \in States /\ settled # "FINISHING"
    BY <1>0 DEF States
  <2>4. /\ state' \in [Thread -> States]
        /\ state'[current] = settled
        /\ \A t \in Thread \ {current} : state'[t] = state[t]
    BY <1>0, <2>1, <2>3
  <2>5. /\ runqueue' \in Seq(Thread)
        /\ IsInjective(runqueue')
        /\ \A t : Contains(runqueue', t) <=>
                    \/ Contains(Rest, t)
                    \/ settled = "ACTIVE" /\ t = current
    <3>1. CASE settled = "ACTIVE"
      BY <1>0, <2>1, <3>1, AppendMembers, PickedFacts
    <3>2. CASE settled # "ACTIVE"
      BY <2>1, <3>2, PickedFacts
    <3> QED BY <3>1, <3>2
  <2>6. ASSUME NEW t \in Thread, Contains(runqueue', t)
        PROVE  state'[t] = "ACTIVE" /\ t # current'
    <3>1. CASE t = current
      BY <2>1, <2>2, <2>4, <2>5, <2>6, <3>1, PickedFacts
    <3>2. CASE t # current
      BY <1>0, <2>1, <2>2, <2>4, <2>5, <2>6, <3>2, PickedFacts DEF RunQueueExact
    <3> QED BY <3>1, <3>2
  <2>7. ASSUME NEW t \in Thread, state'[t] = "ACTIVE"
        PROVE  t = current' \/ t = idle_thread' \/ Contains(runqueue', t)
    <3>1. CASE t = current
      BY <2>4, <2>5, <2>7, <3>1
    <3>2. CASE t # current
      BY <1>0, <2>1, <2>4, <2>5, <2>7, <3>2, PickedFacts DEF RunQueueExact
    <3> QED BY <3>1, <3>2
  <2>8. RunQueueExact'
    BY <2>5, <2>6, <2>7 DEF RunQueueExact
  <2>9. NoRunOnFreedStack' /\ state'[current'] # "BLOCKED"
    BY <2>1, <2>2, <2>4, PickedFacts DEF NoRunOnFreedStack
  <2> QED BY <1>0, <2>1, <2>2, <2>3, <2>4, <2>5, <2>8, <2>9
<1> QED BY <1>1, <1>2, <1>3 DEF __schedule

-----------------------------------------------------------------------------
(* The invariant *)

\* Steps that only call schedule() or force_schedule() preserve the invariant.
LEMMA SchedulingStep ==
    ASSUME ThreadsInv,
           NEW force \in BOOLEAN, NEW e \in 0 .. SLICE, __schedule(force, e),
           preempt_cnt = 0,
           UNCHANGED <<idle_thread, preempt_cnt, enable, ints, target>>,
           pc' \in [Thread -> PCs],
           \A t \in Thread :
              \/ pc'[t] = pc[t]
              \/ pc[t] = "wait" /\ pc'[t] = "run"
    PROVE  ThreadsInv'
<1>1. /\ current' \in Thread
      /\ runqueue' \in Seq(Thread)
      /\ state' \in [Thread -> States]
      /\ elapsed' \in 0 .. SLICE
      /\ RunQueueExact'
      /\ NoRunOnFreedStack'
      /\ state'[current'] # "BLOCKED"
      /\ \A t \in Thread :
           \/ state'[t] = state[t]
           \/ state[t] = "FINISHING" /\ state'[t] = "FINISHED"
      /\ \A t \in Thread : state'[t] = "FINISHING" => t = current'
  BY SchedulePreserves
<1>2. ThreadsTypeOK'
  BY <1>1 DEF ThreadsInv, ThreadsTypeOK
<1>3. PcMatchesState'
  BY <1>1 DEF ThreadsInv, PcMatchesState
<1>4. MainRunnable'
  BY <1>1 DEF ThreadsInv, MainRunnable
<1>5. JoinTarget'
  BY <1>1 DEF ThreadsInv, JoinTarget
<1>6. LocksInClient'
  BY DEF ThreadsInv, LocksInClient
<1> QED BY <1>1, <1>2, <1>3, <1>4, <1>5, <1>6 DEF ThreadsInv, NoRunWhileBlocked

\* threads_setup() leaves the scheduler in a state of the invariant.
LEMMA ThreadsInitInv == ThreadsInit => ThreadsInv
<1> SUFFICES ASSUME ThreadsInit PROVE ThreadsInv
  OBVIOUS
<1> USE DEF ThreadsInit
<1>1. ThreadsTypeOK
  BY DEF ThreadsTypeOK, States, PCs
<1>2. RunQueueExact
  BY DEF RunQueueExact, IsInjective, Contains
<1>3. NoRunOnFreedStack /\ NoRunWhileBlocked /\ PcMatchesState /\ MainRunnable
  BY DEF NoRunOnFreedStack, NoRunWhileBlocked, PcMatchesState, MainRunnable
<1>4. JoinTarget /\ LocksInClient
  BY DEF JoinTarget, LocksInClient
<1> QED BY <1>1, <1>2, <1>3, <1>4 DEF ThreadsInv

\* The steps that call the scheduler.
LEMMA SwitchingSteps ==
    ASSUME ThreadsInv,
           \/ Tick
           \/ ThreadJoinLoop \/ IdleLoop
           \/ \E t \in Thread : ForceSchedule(t) \/ ThreadExitLoop(t) \/ Schedule(t)
    PROVE  ThreadsInv'
<1>0. elapsed \in 0 .. SLICE /\ pc \in [Thread -> PCs] /\ preempt_cnt \in Nat
  BY DEF ThreadsInv, ThreadsTypeOK
<1>1. CASE Tick
  <2> DEFINE e == IF elapsed < SLICE THEN elapsed + 1 ELSE elapsed
  <2>1. e \in 0 .. SLICE
    BY <1>0
  <2>2. UNCHANGED <<idle_thread, preempt_cnt, enable, ints, pc, target>>
    BY <1>1 DEF Tick
  <2>3. CASE /\ preempt_cnt > 0
             /\ elapsed' = e
             /\ UNCHANGED <<current, runqueue, state>>
    BY <2>1, <2>2, <2>3
       DEF ThreadsInv, ThreadsTypeOK, RunQueueExact, NoRunOnFreedStack,
           NoRunWhileBlocked, PcMatchesState, MainRunnable, JoinTarget, LocksInClient
  <2>4. CASE preempt_cnt = 0 /\ __schedule(FALSE, e)
    <3> HIDE DEF e
    <3> QED BY <1>0, <2>1, <2>2, <2>4, SchedulingStep
  <2> QED BY <1>1, <2>3, <2>4 DEF Tick, schedule
<1>2. ASSUME NEW t \in Thread, Schedule(t)
      PROVE  ThreadsInv'
  <2>1. preempt_cnt = 0 /\ __schedule(FALSE, elapsed)
    <3>1. preempt_cnt = 0 /\ schedule(elapsed)
      BY <1>2 DEF Schedule, CallSchedule
    <3>2. ~ (preempt_cnt > 0)
      BY <3>1
    <3> QED BY <3>1, <3>2, Zenon DEF schedule
  <2>2. /\ pc[t] = "wait"
        /\ pc' = [pc EXCEPT ![t] = "run"]
        /\ UNCHANGED <<idle_thread, preempt_cnt, enable, ints, target>>
    BY <1>2 DEF Schedule, CallSchedule, Goto
  <2>3. /\ pc' \in [Thread -> PCs]
        /\ \A u \in Thread :
             \/ pc'[u] = pc[u]
             \/ pc[u] = "wait" /\ pc'[u] = "run"
    BY <1>0, <2>2 DEF PCs
  <2> QED BY <1>0, <2>1, <2>2, <2>3, SchedulingStep
<1>3. CASE \/ ThreadJoinLoop \/ IdleLoop
           \/ \E t \in Thread : ForceSchedule(t) \/ ThreadExitLoop(t)
  <2>1. /\ preempt_cnt = 0 /\ __schedule(TRUE, elapsed)
        /\ UNCHANGED <<idle_thread, preempt_cnt, enable, ints, pc, target>>
    BY <1>3 DEF ThreadJoinLoop, IdleLoop, ForceSchedule, ThreadExitLoop,
                force_schedule
  <2> QED BY <1>0, <2>1, SchedulingStep
<1> QED BY <1>1, <1>2, <1>3

\* The steps of Main and of clients that leave the CPU alone.
LEMMA LocalSteps ==
    ASSUME ThreadsInv, MainNeverBlocks,
           \/ \E n \in Thread : ThreadCreate(n) \/ ThreadJoin(n)
           \/ ThreadJoinReturn \/ ThreadDestroy \/ Idle \/ IdleState
           \/ \E t \in Thread :
                \/ ThreadEntry(t) \/ ThreadExit(t)
                \/ SpinLock(t) \/ SpinUnlock(t) \/ Block(t)
                \/ \E u \in Thread : ThreadActivate(t, u)
    PROVE  ThreadsInv'
<1>0. /\ current \in Thread /\ idle_thread \in {NoThread, Main}
      /\ runqueue \in Seq(Thread) /\ state \in [Thread -> States]
      /\ elapsed \in 0 .. SLICE /\ preempt_cnt \in Nat
      /\ enable \in Seq(BOOLEAN) /\ ints \in [Thread -> BOOLEAN]
      /\ pc \in [Thread -> PCs] /\ target \in Thread \cup {NoThread}
  BY DEF ThreadsInv, ThreadsTypeOK
<1> USE <1>0 DEF ThreadsInv, ThreadsTypeOK, RunQueueExact, NoRunOnFreedStack,
                 NoRunWhileBlocked, PcMatchesState, MainRunnable, JoinTarget, LocksInClient,
                 States, PCs, Goto
<1>1. ASSUME NEW n \in Thread, ThreadCreate(n) PROVE ThreadsInv'
  BY <1>1 DEF ThreadCreate
<1>2. ASSUME NEW n \in Thread, ThreadJoin(n) PROVE ThreadsInv'
  BY <1>2 DEF ThreadJoin
<1>3. CASE ThreadJoinReturn
  BY <1>3 DEF ThreadJoinReturn
<1>4. CASE ThreadDestroy
  BY <1>4 DEF ThreadDestroy
<1>5. CASE Idle
  BY <1>5 DEF Idle
<1>6. CASE IdleState
  BY <1>6 DEF IdleState
<1>7. ASSUME NEW t \in Thread, ThreadEntry(t) PROVE ThreadsInv'
  BY <1>7 DEF ThreadEntry
<1>8. ASSUME NEW t \in Thread, ThreadExit(t) PROVE ThreadsInv'
  BY <1>8 DEF ThreadExit
<1>9. ASSUME NEW t \in Thread, Block(t) PROVE ThreadsInv'
  BY <1>9 DEF Block, MarkBlocked, MainNeverBlocks
<1>10. ASSUME NEW t \in Thread, SpinLock(t) PROVE ThreadsInv'
  <2>1. PICK irq \in IrqModes : spin_lock(t, irq)
    BY <1>10 DEF SpinLock, Lock
  <2>2. /\ enable' = Append(enable, irq /\ ints[t])
        /\ preempt_cnt' = preempt_cnt + 1
        /\ ints' = IF irq THEN [ints EXCEPT ![t] = FALSE] ELSE ints
    BY <2>1 DEF spin_lock
  <2>3. (irq /\ ints[t]) \in BOOLEAN
    OBVIOUS
  <2>4. enable' \in Seq(BOOLEAN) /\ Len(enable') = Len(enable) + 1
    BY <2>2, <2>3, AppendProperties
  <2>5. ints' \in [Thread -> BOOLEAN]
    BY <2>2
  <2> QED BY <1>10, <2>2, <2>4, <2>5 DEF SpinLock, Lock, InClient
<1>11. ASSUME NEW t \in Thread, SpinUnlock(t) PROVE ThreadsInv'
  <2>1. /\ enable' = SubSeq(enable, 1, Len(enable) - 1)
        /\ preempt_cnt' = preempt_cnt - 1
        /\ ints' \in [Thread -> BOOLEAN]
    BY <1>11 DEF SpinUnlock, Unlock, spin_unlock
  <2>2. Len(enable) = preempt_cnt /\ preempt_cnt > 0
    BY <1>11 DEF SpinUnlock
  <2>3. \A i \in 1 .. Len(enable) - 1 : enable[i] \in BOOLEAN
    BY ElementOfSeq, <2>2
  <2>4. enable' \in Seq(BOOLEAN) /\ Len(enable') = Len(enable) - 1
    BY <2>1, <2>2, <2>3, SubSeqProperties
  <2> QED BY <1>11, <2>1, <2>2, <2>4 DEF SpinUnlock, Unlock, InClient
<1>12. ASSUME NEW t \in Thread, NEW u \in Thread, ThreadActivate(t, u)
       PROVE  ThreadsInv'
  <2>1. ~ Contains(runqueue, u)
    BY <1>12 DEF ThreadActivate
  <2>2. /\ Append(runqueue, u) \in Seq(Thread)
        /\ \A y : Contains(Append(runqueue, u), y) <=>
                    Contains(runqueue, y) \/ y = u
        /\ IsInjective(Append(runqueue, u))
    BY <2>1, AppendMembers
  <2> QED BY <1>12, <2>2 DEF ThreadActivate, thread_activate, InClient
<1> QED BY <1>1, <1>2, <1>3, <1>4, <1>5, <1>6, <1>7, <1>8, <1>9, <1>10, <1>11,
           <1>12

\* Every step of a thread, and every tick, keeps the invariant.
LEMMA ThreadsNextInv ==
    ASSUME MainNeverBlocks, ThreadsInv, [ThreadsNext]_threadVars
    PROVE  ThreadsInv'
<1>1. CASE UNCHANGED threadVars
  BY <1>1 DEF threadVars, ThreadsInv, ThreadsTypeOK, RunQueueExact,
              NoRunOnFreedStack, NoRunWhileBlocked, PcMatchesState,
              MainRunnable, JoinTarget, LocksInClient
<1>2. CASE Tick
  BY <1>2, SwitchingSteps
<1>3. CASE MainStep
  BY <1>3, SwitchingSteps, LocalSteps DEF MainStep
<1>4. ASSUME NEW t \in Thread, ThreadStep(t) PROVE ThreadsInv'
  BY <1>4, SwitchingSteps, LocalSteps DEF ThreadStep
<1>5. ASSUME NEW t \in Thread, PrimitiveStep(t) PROVE ThreadsInv'
  BY <1>5, SwitchingSteps, LocalSteps DEF PrimitiveStep
<1> QED BY <1>1, <1>2, <1>3, <1>4, <1>5 DEF ThreadsNext

(***************************************************************************)
(* In every reachable state the run queue holds exactly the threads that   *)
(* are ready, the CPU never runs on a freed stack, and spin locks are held *)
(* only by the running thread in client code.                              *)
(***************************************************************************)
THEOREM SchedulerInvariant ==
    ASSUME MainNeverBlocks
    PROVE  ThreadsSpec => []ThreadsInv
<1>1. ThreadsInit => ThreadsInv
  BY ThreadsInitInv
<1>2. ThreadsInv /\ [ThreadsNext]_threadVars => ThreadsInv'
  BY ThreadsNextInv
<1> QED BY <1>1, <1>2, PTL DEF ThreadsSpec

(***************************************************************************)
(* A thread that calls schedule() after marking itself BLOCKED, or         *)
(* force_schedule() from thread_exit(), never gets the CPU straight back:  *)
(* __schedule() has somebody else to run.                                  *)
(***************************************************************************)
THEOREM AlwaysSomebodyToRun ==
    ASSUME MainNeverBlocks
    PROVE  ThreadsSpec => []SomebodyToRun
<1> QED BY SchedulerInvariant, InvSomebodyToRun, PTL

(***************************************************************************)
(* The BUG_ONs of force_schedule() and idle() never fire.                  *)
(***************************************************************************)
THEOREM NoBugOn ==
    ASSUME MainNeverBlocks
    PROVE  ThreadsSpec => []NoBug
<1>1. ThreadsInv => NoBug
  BY DEF ThreadsInv, ThreadsTypeOK, MainRunnable, LocksInClient, NoBug
<1> QED BY <1>1, SchedulerInvariant, PTL

(***************************************************************************)
(* The CPU never changes hands while a spin lock is held.                  *)
(***************************************************************************)
THEOREM SpinLockKeepsCPU ==
    ASSUME MainNeverBlocks
    PROVE  ThreadsSpec => LockKeepsCPU
<1>1. ASSUME ThreadsInv, [ThreadsNext]_threadVars
      PROVE  [preempt_cnt > 0 => current' = current]_threadVars
  <2> SUFFICES ASSUME ThreadsNext, preempt_cnt > 0 PROVE current' = current
    BY <1>1
  <2>0. preempt_cnt \in Nat /\ preempt_cnt # 0
    BY <1>1 DEF ThreadsInv, ThreadsTypeOK
  <2>1. CASE Tick
    BY <2>0, <2>1 DEF Tick, schedule
  <2>2. CASE MainStep
    BY <2>0, <2>2 DEF MainStep, ThreadCreate, ThreadJoin, ThreadJoinLoop,
         ThreadJoinReturn, ThreadDestroy, Idle, IdleState, IdleLoop,
         force_schedule
  <2>3. ASSUME NEW t \in Thread, ThreadStep(t) PROVE current' = current
    BY <2>0, <2>3 DEF ThreadStep, ThreadEntry, ForceSchedule, ThreadExit,
         ThreadExitLoop, force_schedule
  <2>4. ASSUME NEW t \in Thread, PrimitiveStep(t) PROVE current' = current
    BY <2>0, <2>4 DEF PrimitiveStep, SpinLock, Lock, SpinUnlock, Unlock, Block,
         MarkBlocked, Schedule, ThreadActivate, thread_activate
  <2> QED BY <2>1, <2>2, <2>3, <2>4 DEF ThreadsNext
<1> QED BY <1>1, SchedulerInvariant, PTL DEF ThreadsSpec, LockKeepsCPU

(***************************************************************************)
(* A BLOCKED thread becomes runnable only when another thread activates    *)
(* it, and it then queues behind those already waiting.                    *)
(***************************************************************************)
THEOREM BlockedUntilActivated ==
    ASSUME MainNeverBlocks
    PROVE  ThreadsSpec => WokenByOthers
<1> DEFINE Woken(t) ==
      state[t] = "BLOCKED" /\ state'[t] # "BLOCKED" =>
        /\ current # t /\ current' # t
        /\ runqueue' = Append(runqueue, t)
<1>1. ASSUME ThreadsInv, [ThreadsNext]_threadVars
      PROVE  [\A t \in Thread : Woken(t)]_threadVars
  <2> SUFFICES ASSUME ThreadsNext, NEW t \in Thread,
                      state[t] = "BLOCKED", state'[t] # "BLOCKED"
               PROVE  /\ current # t /\ current' # t
                      /\ runqueue' = Append(runqueue, t)
    BY <1>1
  <2>0. /\ state \in [Thread -> States] /\ preempt_cnt \in Nat
        /\ elapsed \in 0 .. SLICE /\ current \in Thread
        /\ pc[t] \notin {"exit", "none", "idle"}
    BY <1>1 DEF ThreadsInv, ThreadsTypeOK, PcMatchesState
  <2>1. ~ \E force \in BOOLEAN, e \in 0 .. SLICE : __schedule(force, e)
    BY <2>0 DEF __schedule, place_thread
  <2>2. CASE Tick
    <3> DEFINE e == IF elapsed < SLICE THEN elapsed + 1 ELSE elapsed
    <3>1. e \in 0 .. SLICE
      BY <2>0
    <3>2. ~ __schedule(FALSE, e)
      BY <2>1, <3>1
    <3> QED BY <2>2, <3>2 DEF Tick, schedule
  <2>3. CASE MainStep
    <3>1. ~ force_schedule
      BY <2>0, <2>1 DEF force_schedule
    <3>2. state[Main] # "BLOCKED"
      BY <1>1 DEF ThreadsInv, MainRunnable
    <3>3. pc[Main] = "joined" => state[target] = "FINISHED" /\ target \in Thread
      BY <1>1 DEF ThreadsInv, JoinTarget
    <3> QED BY <2>0, <2>3, <3>1, <3>2, <3>3 DEF MainStep, ThreadCreate,
         ThreadJoin, ThreadJoinLoop, ThreadJoinReturn, ThreadDestroy, Idle,
         IdleState, IdleLoop
  <2>4. ASSUME NEW u \in Thread, ThreadStep(u)
        PROVE  current # t /\ current' # t /\ runqueue' = Append(runqueue, t)
    <3>1. ~ force_schedule
      BY <2>0, <2>1 DEF force_schedule
    <3>2. current # t \/ pc[t] = "wait"
      BY <1>1 DEF ThreadsInv, NoRunWhileBlocked
    <3> QED BY <2>0, <2>4, <3>1, <3>2 DEF ThreadStep, ThreadEntry,
         ForceSchedule, ThreadExit, ThreadExitLoop
  <2>5. ASSUME NEW u \in Thread, PrimitiveStep(u)
        PROVE  current # t /\ current' # t /\ runqueue' = Append(runqueue, t)
    <3>1. ~ Schedule(u)
      BY <2>0, <2>1 DEF Schedule, CallSchedule, schedule
    <3> QED BY <2>0, <2>5, <3>1 DEF PrimitiveStep, SpinLock, Lock, SpinUnlock,
         Unlock, Block, MarkBlocked, ThreadActivate, thread_activate, InClient
  <2> QED BY <2>2, <2>3, <2>4, <2>5 DEF ThreadsNext
<1> QED BY <1>1, SchedulerInvariant, PTL DEF ThreadsSpec, WokenByOthers

(***************************************************************************)
(* Mutexes and condition variables                                         *)
(***************************************************************************)
USE SyncAssumption

-----------------------------------------------------------------------------
(* What the steps do to the scheduler *)

\* A call of __schedule() changes no thread's state but that of one that exits.
LEMMA ScheduleStates ==
    ASSUME ThreadsInv,
           NEW force \in BOOLEAN, NEW e \in 0 .. SLICE, __schedule(force, e),
           idle_thread' = idle_thread
    PROVE  /\ current' \in Thread
           /\ \A u \in Thread : pc[u] # "exit" => state'[u] = state[u]
<1>1. /\ current' \in Thread
      /\ \A u \in Thread :
           \/ state'[u] = state[u]
           \/ state[u] = "FINISHING" /\ state'[u] = "FINISHED"
  BY SchedulePreserves
<1> QED BY <1>1 DEF ThreadsInv, PcMatchesState

\* The schedule() of a thread that holds no spin lock.
LEMMA CallScheduleEffect ==
    ASSUME ThreadsInv, preempt_cnt = 0, NEW t \in Thread, CallSchedule(t)
    PROVE  /\ current' \in Thread
           /\ preempt_cnt' = 0
           /\ pc' = [pc EXCEPT ![t] = "run"]
           /\ \A u \in Thread : pc[u] # "exit" => state'[u] = state[u]
<1>1. ~ (preempt_cnt > 0) /\ elapsed \in 0 .. SLICE
  BY DEF ThreadsInv, ThreadsTypeOK
<1>2. __schedule(FALSE, elapsed)
  BY <1>1, Zenon DEF CallSchedule, schedule
<1>3. /\ pc' = [pc EXCEPT ![t] = "run"]
      /\ idle_thread' = idle_thread /\ preempt_cnt' = preempt_cnt
  BY DEF CallSchedule, Goto
<1> QED BY <1>1, <1>2, <1>3, ScheduleStates

\* Ticks, and what threads do outside of mutex.c and condition.c.
LEMMA OutsideEffect ==
    ASSUME SyncInv, MainNeverBlocks,
           Interrupt \/ Supervise \/ \E t \in Thread : Outside(t)
    PROVE  /\ ThreadsNext
           /\ UNCHANGED syncVars
           /\ preempt_cnt' = preempt_cnt
           /\ current' = current \/ preempt_cnt = 0
           /\ \A u \in Thread :
                /\ op[u] # "none" => pc'[u] = pc[u] /\ state'[u] = state[u]
                /\ op[u] = "none" => pc'[u] # "wait"
                /\ state'[u] = "BLOCKED" /\ pc'[u] # "new" =>
                     state[u] = "BLOCKED" /\ pc[u] # "new"
<1> DEFINE Effect ==
             /\ preempt_cnt' = preempt_cnt
             /\ current' = current \/ preempt_cnt = 0
             /\ \A u \in Thread :
                  /\ op[u] # "none" => pc'[u] = pc[u] /\ state'[u] = state[u]
                  /\ op[u] = "none" => pc'[u] # "wait"
                  /\ state'[u] = "BLOCKED" /\ pc'[u] # "new" =>
                       state[u] = "BLOCKED" /\ pc[u] # "new"
<1>a. ThreadsNext /\ UNCHANGED syncVars
  BY DEF Interrupt, Supervise, Outside, ThreadsNext, ThreadStep, PrimitiveStep
<1> SUFFICES Effect
  BY <1>a
<1>0. /\ ThreadsInv
      /\ elapsed \in 0 .. SLICE /\ preempt_cnt \in Nat /\ current \in Thread
      /\ pc \in [Thread -> PCs] /\ state \in [Thread -> States]
      /\ \A u \in Thread : op[u] # "none" => pc[u] \in {"run", "wait"} /\ u # Main
      /\ \A u \in Thread : op[u] = "none" => pc[u] # "wait"
  BY DEF SyncInv, ThreadsInv, ThreadsTypeOK, OpsMatchScheduler, MainNeverBlocks
<1>1. ASSUME NEW force \in BOOLEAN, NEW e \in 0 .. SLICE, __schedule(force, e),
             preempt_cnt = 0,
             UNCHANGED <<idle_thread, preempt_cnt, enable, ints, pc, target>>
      PROVE  Effect
  <2>1. \A u \in Thread : pc[u] # "exit" => state'[u] = state[u]
    BY <1>0, <1>1, ScheduleStates
  <2>2. \A u \in Thread : pc[u] = "exit" => state'[u] # "BLOCKED"
    BY <1>0, <1>1, SchedulePreserves DEF ThreadsInv, PcMatchesState
  <2> QED BY <1>0, <1>1, <2>1, <2>2
<1>2. CASE Tick
  <2> DEFINE e == IF elapsed < SLICE THEN elapsed + 1 ELSE elapsed
  <2>1. e \in 0 .. SLICE
    BY <1>0
  <2>2. UNCHANGED <<idle_thread, preempt_cnt, enable, ints, pc, target>>
    BY <1>2 DEF Tick
  <2>3. CASE preempt_cnt > 0 /\ UNCHANGED <<current, runqueue, state>>
    BY <1>0, <2>2, <2>3
  <2>4. CASE preempt_cnt = 0 /\ __schedule(FALSE, e)
    <3> HIDE DEF e
    <3> QED BY <1>1, <2>1, <2>2, <2>4
  <2> QED BY <1>2, <2>3, <2>4 DEF Tick, schedule
<1>3. CASE \/ ThreadJoinLoop \/ IdleLoop
           \/ \E t \in Thread : ForceSchedule(t) \/ ThreadExitLoop(t)
  <2>1. /\ preempt_cnt = 0 /\ __schedule(TRUE, elapsed)
        /\ UNCHANGED <<idle_thread, preempt_cnt, enable, ints, pc, target>>
    BY <1>3 DEF ThreadJoinLoop, IdleLoop, ForceSchedule, ThreadExitLoop,
                force_schedule
  <2> QED BY <1>0, <1>1, <2>1
<1>4. CASE \/ \E n \in Thread : ThreadCreate(n) \/ ThreadJoin(n)
           \/ ThreadJoinReturn \/ ThreadDestroy \/ Idle \/ IdleState
  <2>1. /\ pc[Main] = "joined" => state[target] = "FINISHED" /\ target \in Thread
        /\ \A u \in Thread : state[u] \in {"FREE", "FINISHED"} => op[u] = "none"
    BY <1>0 DEF ThreadsInv, JoinTarget, PcMatchesState
  <2> QED BY <1>0, <1>4, <2>1 DEF ThreadCreate, ThreadJoin, ThreadJoinReturn,
             ThreadDestroy, Idle, IdleState, Goto
<1>5. ASSUME NEW t \in Thread, op[t] = "none", ThreadEntry(t) \/ ThreadExit(t)
      PROVE  Effect
  <2>1. pc[t] = "new" /\ t = current => state[t] # "BLOCKED"
    BY <1>0 DEF ThreadsInv, NoRunWhileBlocked
  <2> QED BY <1>0, <1>5, <2>1 DEF ThreadEntry, ThreadExit, Goto
<1>6. ASSUME NEW n \in Thread, pc[n] = "new", ThreadActivate(Main, n)
      PROVE  Effect
  BY <1>0, <1>6 DEF ThreadActivate, thread_activate
<1>7. CASE Interrupt
  BY <1>2, <1>7 DEF Interrupt
<1>8. CASE Supervise
  BY <1>3, <1>4, <1>6, <1>8 DEF Supervise, MainStep
<1>9. ASSUME NEW t \in Thread, Outside(t) PROVE Effect
  BY <1>3, <1>5, <1>9 DEF Outside, At
<1> QED BY <1>7, <1>8, <1>9

-----------------------------------------------------------------------------
(* The scheduler's contract *)

\* Every step inside mutex.c and condition.c is one Threads.tla allows.
LEMMA ClientStepIsThreadStep ==
    ASSUME SyncInv, NEW t \in Thread, Call(t) \/ InOperation(t)
    PROVE  ThreadsNext \/ UNCHANGED threadVars
<1> DEFINE Allowed == PrimitiveStep(t) \/ UNCHANGED threadVars
<1> SUFFICES Allowed
  BY DEF ThreadsNext
<1>0. /\ ThreadsInv /\ OpsMatchScheduler /\ ArgsMatchOps /\ QueuesMatchOps
      /\ preempt_cnt \in Nat /\ MaxNest \in Nat /\ op \in [Thread -> Ops]
      /\ \A u \in Thread : mtx[u] # NoMutex => mtx[u] \in Mutex
      /\ \A u \in Thread : cond[u] # NoCond => cond[u] \in Cond
      /\ \A m \in Mutex : waitqueue[m] \in Seq(Thread)
      /\ \A c \in Cond : cwaitqueue[c] \in Seq(Thread)
      /\ \A u \in Thread : list[u] \in Seq(Thread)
  BY DEF SyncInv, SyncTypeOK, ThreadsTypeOK
<1>1. ASSUME Lock(t), current = t, pc[t] \in {"run", "wait"}, preempt_cnt < 2
      PROVE  Allowed
  BY <1>0, <1>1 DEF PrimitiveStep, SpinLock, InClient
<1>2. ASSUME Unlock(t), current = t, pc[t] \in {"run", "wait"}, preempt_cnt > 0
      PROVE  Allowed
  BY <1>0, <1>2 DEF PrimitiveStep, SpinUnlock, InClient
<1>3. ASSUME NEW u \in Thread, thread_activate(u), current = t,
             pc[t] \in {"run", "wait"}, u # t, state[u] = "BLOCKED", op[u] # "none"
      PROVE  Allowed
  <2>1. pc[u] # "new"
    BY <1>0, <1>3 DEF OpsMatchScheduler
  <2> QED BY <1>0, <1>3, <2>1 DEF PrimitiveStep, ThreadActivate, InClient
<1>4. ASSUME current = t, op[t] # "none"
      PROVE  pc[t] \in {"run", "wait"} /\ t \in Clients /\ preempt_cnt = Depth(t)
  BY <1>0, <1>4 DEF OpsMatchScheduler
<1>5. CASE Call(t)
  <2>1. Lock(t) /\ Free(t)
    BY <1>5 DEF Call, MutexLock, MutexUnlock, ConditionWait, ConditionSignal,
                ConditionBroadcast, ConditionCall, At
  <2>2. preempt_cnt = 0 /\ current = t /\ pc[t] = "run"
    BY <1>0, <2>1 DEF Free, At, OpsMatchScheduler, Depth, Preemptible
  <2> QED BY <1>1, <2>1, <2>2
<1>6. CASE \/ \E m \in Mutex : At(t, "cw_ret") /\ MutexLock(t, m)
           \/ \E m \in Mutex : At(t, "cw_unlock") /\ MutexUnlock(t, m)
  <2>1. /\ Lock(t) /\ current = t /\ op[t] # "none"
        /\ op[t] \in {"cw_ret", "cw_unlock"}
    BY <1>6 DEF MutexLock, MutexUnlock, At
  <2>2. preempt_cnt < 2
    BY <1>4, <2>1 DEF Depth, Preemptible
  <2> QED BY <1>1, <1>4, <2>1, <2>2
<1>7. CASE LockTake(t) \/ UnlockFree(t) \/ BroadcastSplice(t) \/ BroadcastReturn(t)
  BY <1>7 DEF LockTake, UnlockFree, BroadcastSplice, BroadcastReturn
<1>8. CASE LockQueue(t) \/ WaitQueue(t)
  <2>1. current = t /\ op[t] \in {"ml_test", "cw_queue"} /\ MarkBlocked(t)
    BY <1>8 DEF LockQueue, WaitQueue, At
  <2>2. preempt_cnt > 0
    BY <1>4, <2>1 DEF Depth, Preemptible
  <2>3. pc[t] = "run"
    BY <1>0, <2>1 DEF OpsMatchScheduler, BeforeSchedule
  <2> QED BY <1>4, <2>1, <2>2, <2>3 DEF PrimitiveStep, Block
<1>9. CASE LockSchedule(t) \/ WaitSchedule(t)
  <2>1. current = t /\ op[t] \in {"ml_sched", "cw_sched"} /\ CallSchedule(t)
    BY <1>9 DEF LockSchedule, WaitSchedule, At
  <2>2. preempt_cnt = 0
    BY <1>4, <2>1 DEF Depth, Preemptible
  <2>3. pc[t] = "wait"
    BY <1>0, <2>1 DEF OpsMatchScheduler, BeforeSchedule
  <2> QED BY <2>1, <2>2, <2>3 DEF PrimitiveStep, Schedule
<1>10. CASE \/ LockUnlockSpin(t) \/ LockReturn(t) \/ UnlockReturn(t)
            \/ WaitUnlockSpin(t) \/ SignalReturn(t) \/ BroadcastUnlockSpin(t)
  <2>1. CASE UNCHANGED threadVars
    BY <2>1
  <2>2. CASE /\ Unlock(t) /\ current = t
             /\ op[t] \in {"ml_queued", "ml_taken", "mu_done", "cw_unlocked",
                           "cs_test", "cs_done", "cb_spliced"}
    <3>1. preempt_cnt > 0
      BY <1>4, <2>2 DEF Depth, Preemptible
    <3> QED BY <1>2, <1>4, <2>2, <3>1
  <2> QED BY <1>10, <2>1, <2>2 DEF LockUnlockSpin, LockReturn, UnlockReturn,
          WaitUnlockSpin, SignalReturn, BroadcastUnlockSpin, At
<1>11. CASE UnlockHandOver(t)
  <2>1. /\ current = t /\ op[t] = "mu_test" /\ waitqueue[mtx[t]] # <<>>
        /\ thread_activate(Head(waitqueue[mtx[t]]))
    BY <1>11 DEF UnlockHandOver, At
  <2>2. mtx[t] \in Mutex
    BY <1>0, <2>1 DEF ArgsMatchOps
  <2>3. /\ Head(waitqueue[mtx[t]]) \in Thread
        /\ Contains(waitqueue[mtx[t]], Head(waitqueue[mtx[t]]))
    BY <1>0, <2>1, <2>2, TailMembers
  <2> QED BY <1>0, <1>3, <1>4, <2>1, <2>2, <2>3 DEF QueuesMatchOps, LockWaits
<1>12. CASE SignalWake(t)
  <2>1. /\ current = t /\ op[t] = "cs_test" /\ cwaitqueue[cond[t]] # <<>>
        /\ thread_activate(Head(cwaitqueue[cond[t]]))
    BY <1>12 DEF SignalWake, At
  <2>2. cond[t] \in Cond
    BY <1>0, <2>1 DEF ArgsMatchOps, LockWaits
  <2>3. /\ Head(cwaitqueue[cond[t]]) \in Thread
        /\ Contains(cwaitqueue[cond[t]], Head(cwaitqueue[cond[t]]))
    BY <1>0, <2>1, <2>2, TailMembers
  <2> QED BY <1>0, <1>3, <1>4, <2>1, <2>2, <2>3 DEF QueuesMatchOps, CondWaits
<1>13. CASE BroadcastWake(t)
  <2>1. /\ current = t /\ op[t] = "cb_loop" /\ list[t] # <<>>
        /\ thread_activate(Head(list[t]))
    BY <1>13 DEF BroadcastWake, At
  <2>2. Head(list[t]) \in Thread /\ Contains(list[t], Head(list[t]))
    BY <1>0, <2>1, TailMembers
  <2> QED BY <1>0, <1>3, <1>4, <2>1, <2>2 DEF QueuesMatchOps, CondWaits
<1> QED BY <1>5, <1>6, <1>7, <1>8, <1>9, <1>10, <1>11, <1>12, <1>13 DEF InOperation

-----------------------------------------------------------------------------
(* The invariant *)

\* No wait node of t is linked anywhere.
Unlinked(t) ==
    /\ \A m \in Mutex : ~ Contains(waitqueue[m], t)
    /\ \A c \in Cond : ~ Contains(cwaitqueue[c], t)
    /\ \A u \in Thread : ~ Contains(list[u], t)

LEMMA UnlinkedIsEmpty ==
    ASSUME NEW t \in Thread
    PROVE  Linked(t) = {} <=> Unlinked(t)
BY DEF Linked, Unlinked

\* mutex_setup(), condition_setup() and threads_setup() establish it.
LEMMA SyncInitInv == SyncInit => SyncInv
<1> SUFFICES ASSUME SyncInit PROVE SyncInv
  OBVIOUS
<1>1. ThreadsInv
  BY ThreadsInitInv DEF SyncInit
<1>2. /\ ThreadsTypeOK /\ current \in Thread /\ preempt_cnt = 0
      /\ \A t \in Thread : pc[t] # "wait" /\ state[t] # "BLOCKED"
  BY <1>1 DEF SyncInit, ThreadsInit, ThreadsInv
<1>3. SyncTypeOK
  BY <1>2 DEF SyncInit, SyncTypeOK, Ops
<1>4. OpsMatchScheduler /\ ArgsMatchOps
  BY <1>2 DEF SyncInit, OpsMatchScheduler, ArgsMatchOps, Depth, Preemptible,
              LockWaits
<1>5. LockedIffOwned
  BY DEF SyncInit, LockedIffOwned, MutualExclusion, Owns
<1>6. QueuesMatchOps /\ QueuesSound
  BY <1>2, EmptyMembers DEF SyncInit, QueuesMatchOps, QueuesSound, FallingAsleep
<1>7. NoLostWakeup
  BY <1>2 DEF NoLostWakeup
<1> QED BY <1>1, <1>3, <1>4, <1>5, <1>6, <1>7 DEF SyncInv

\* What goes on outside of the two files does not disturb it.
LEMMA OutsideInv ==
    ASSUME SyncInv, MainNeverBlocks,
           Interrupt \/ Supervise \/ \E t \in Thread : Outside(t)
    PROVE  SyncInv'
<1>1. /\ ThreadsNext
      /\ UNCHANGED <<locked, waitqueue, cwaitqueue, op, mtx, cond, list, holds>>
      /\ preempt_cnt' = preempt_cnt
      /\ current' = current \/ preempt_cnt = 0
      /\ \A u \in Thread :
           /\ op[u] # "none" => pc'[u] = pc[u] /\ state'[u] = state[u]
           /\ op[u] = "none" => pc'[u] # "wait"
           /\ state'[u] = "BLOCKED" /\ pc'[u] # "new" =>
                state[u] = "BLOCKED" /\ pc[u] # "new"
  BY OutsideEffect DEF syncVars
<1>2. ThreadsInv'
  BY <1>1, ThreadsNextInv DEF SyncInv
<1>3. current' \in Thread /\ ThreadsTypeOK'
  BY <1>2 DEF ThreadsInv, ThreadsTypeOK
<1>4. SyncTypeOK'
  BY <1>1, <1>3 DEF SyncInv, SyncTypeOK
<1>5. current \in Thread /\ op \in [Thread -> Ops]
  BY DEF SyncInv, SyncTypeOK, ThreadsTypeOK
<1>6. current' # current => op[current] \in Preemptible /\ op[current'] \in Preemptible
  BY <1>1, <1>3, <1>5 DEF SyncInv, OpsMatchScheduler, Depth
<1>7. OpsMatchScheduler'
  BY <1>1, <1>3, <1>5, <1>6
     DEF SyncInv, OpsMatchScheduler, Depth, BeforeSchedule
<1>8. ArgsMatchOps' /\ LockedIffOwned'
  BY <1>1 DEF SyncInv, ArgsMatchOps, LockedIffOwned, MutualExclusion, Owns
<1>9. QueuesMatchOps'
  BY <1>1 DEF SyncInv, QueuesMatchOps, LockWaits, CondWaits
<1>10. QueuesSound'
  BY <1>1, <1>3, <1>5, <1>6 DEF SyncInv, QueuesSound, FallingAsleep, Preemptible
<1>11. NoLostWakeup'
  <2>1. \A t \in Thread : Linked(t)' = Linked(t)
    BY <1>1 DEF Linked
  <2> QED BY <1>1, <2>1 DEF SyncInv, NoLostWakeup
<1> QED BY <1>2, <1>4, <1>7, <1>8, <1>9, <1>10, <1>11 DEF SyncInv

\* Nobody gets or loses a mutex, queues for one, falls asleep or is woken.
SameMonitor ==
    /\ \A u \in Thread, m \in Mutex : Owns(u, m)' <=> Owns(u, m)
    /\ UNCHANGED <<locked, waitqueue>>
    /\ \A c \in Cond : Sleepers(c)' = Sleepers(c)

\* Calls, returns and the steps between that move neither node nor mutex.
LEMMA MoveInv ==
    ASSUME SyncInv, ThreadsInv', NEW t \in Thread,
           \/ \E m \in Mutex : MutexLock(t, m)
           \/ LockUnlockSpin(t) \/ UnlockReturn(t)
           \/ \E c \in Cond, m \in Mutex : ConditionWait(t, c, m)
           \/ WaitUnlockSpin(t)
           \/ \E c \in Cond : ConditionSignal(t, c) \/ ConditionBroadcast(t, c)
           \/ SignalReturn(t) \/ BroadcastUnlockSpin(t) \/ BroadcastReturn(t)
           \/ LockSchedule(t) \/ WaitSchedule(t)
    PROVE  SyncInv' /\ SameMonitor
<1> USE DEF SyncInv
<1>0. /\ current \in Thread /\ preempt_cnt \in Nat /\ preempt_cnt = Depth(current)
      /\ op \in [Thread -> Ops] /\ pc \in [Thread -> PCs]
      /\ mtx \in [Thread -> Mutex \cup {NoMutex}]
      /\ cond \in [Thread -> Cond \cup {NoCond}]
      /\ holds \in [Thread -> SUBSET Mutex]
  BY DEF SyncTypeOK, ThreadsTypeOK, OpsMatchScheduler
<1>1. /\ UNCHANGED <<locked, waitqueue, cwaitqueue, list, holds>>
      /\ current = t
  BY DEF MutexLock, LockUnlockSpin, UnlockReturn, ConditionWait, WaitUnlockSpin,
         ConditionSignal, ConditionBroadcast, ConditionCall, SignalReturn,
         BroadcastUnlockSpin, BroadcastReturn, LockSchedule, WaitSchedule, Free, At
<1>2. /\ ThreadsTypeOK' /\ current' \in Thread
  BY DEF ThreadsInv, ThreadsTypeOK
<1>3. CASE /\ op[t] \in {"ml_sched", "cw_sched"}
           /\ CallSchedule(t)
           /\ UNCHANGED <<mtx, cond>>
           /\ op' = [op EXCEPT ![t] = IF op[t] = "ml_sched" THEN "ml_ret" ELSE "cw_ret"]
  <2>1. preempt_cnt = 0
    BY <1>0, <1>1, <1>3 DEF Depth, Preemptible
  <2>2. /\ preempt_cnt' = 0
        /\ pc' = [pc EXCEPT ![t] = "run"]
        /\ \A u \in Thread : pc[u] # "exit" => state'[u] = state[u]
    BY <2>1, <1>3, CallScheduleEffect
  <2>3. \A u \in Thread : pc[u] = "exit" => op[u] = "none" /\ state'[u] # "BLOCKED"
    BY <1>1, <1>2, <1>3, <2>2 DEF OpsMatchScheduler, ThreadsInv, PcMatchesState
  <2>4. SyncTypeOK'
    BY <1>0, <1>1, <1>2, <1>3 DEF SyncTypeOK, Ops
  <2>5. OpsMatchScheduler'
    BY <1>0, <1>1, <1>2, <1>3, <2>2
       DEF OpsMatchScheduler, Depth, Preemptible, BeforeSchedule
  <2>6. ArgsMatchOps'
    BY <1>0, <1>1, <1>3 DEF ArgsMatchOps, LockWaits
  <2>7. \A u \in Thread, x \in Mutex : Owns(u, x)' <=> Owns(u, x)
    BY <1>0, <1>1, <1>3 DEF Owns
  <2>8. LockedIffOwned'
    BY <1>1, <2>7 DEF LockedIffOwned, MutualExclusion
  <2>9. QueuesMatchOps'
    BY <1>0, <1>1, <1>3, <2>2, <2>3 DEF QueuesMatchOps, LockWaits, CondWaits
  <2>10. QueuesSound'
    BY <1>0, <1>1, <1>2, <1>3 DEF QueuesSound, FallingAsleep, OpsMatchScheduler, Preemptible
  <2>11. NoLostWakeup'
    <3>1. \A u \in Thread : Linked(u)' = Linked(u)
      BY <1>1 DEF Linked
    <3> QED BY <1>0, <1>3, <2>2, <2>3, <3>1 DEF NoLostWakeup, OpsMatchScheduler, BeforeSchedule
  <2>12. SameMonitor
    <3>1. \A c \in Cond : ~ FallingAsleep(c) /\ ~ FallingAsleep(c)'
      BY <1>0, <1>1, <1>2, <1>3 DEF FallingAsleep, OpsMatchScheduler, Preemptible
    <3> QED BY <1>1, <2>7, <3>1 DEF SameMonitor, Sleepers
  <2> QED BY <2>4, <2>5, <2>6, <2>8, <2>9, <2>10, <2>11, <2>12
<1>4. op[t] = "cw_ret" => state[t] # "BLOCKED"
  BY <1>0, <1>1 DEF OpsMatchScheduler, BeforeSchedule, ThreadsInv, NoRunWhileBlocked
<1>5. ASSUME UNCHANGED <<current, state, pc>>,
             NEW o \in Ops, NEW m \in Mutex \cup {NoMutex}, NEW c \in Cond \cup {NoCond},
             op' = [op EXCEPT ![t] = o],
             mtx' = [mtx EXCEPT ![t] = m],
             cond' = [cond EXCEPT ![t] = c],
             \/ /\ op[t] = "none" /\ t \in Clients /\ pc[t] = "run"
                /\ preempt_cnt' = preempt_cnt + 1
                /\ \/ o = "ml_test" /\ m \in Mutex \ holds[t] /\ c = NoCond
                   \/ o = "cw_queue" /\ m \in holds[t] /\ c \in Cond
                   \/ o \in {"cs_test", "cb_splice"} /\ m = mtx[t] /\ c \in Cond
             \/ /\ preempt_cnt' = preempt_cnt + 1
                /\ op[t] = "cw_ret" /\ o = "ml_test" /\ m = mtx[t] /\ c = NoCond
             \/ /\ preempt_cnt' = preempt_cnt - 1 /\ c = cond[t]
                /\ \/ op[t] = "ml_queued" /\ o = "ml_sched" /\ m = mtx[t]
                   \/ op[t] = "mu_done" /\ c = NoCond /\ o = "none" /\ m = NoMutex
                   \/ op[t] = "mu_done" /\ c # NoCond /\ o = "cw_unlocked" /\ m = mtx[t]
                   \/ op[t] = "cw_unlocked" /\ o = "cw_sched" /\ m = mtx[t]
                   \/ op[t] = "cb_spliced" /\ o = "cb_loop" /\ m = mtx[t]
             \/ /\ preempt_cnt' = preempt_cnt - 1 /\ c = NoCond /\ m = mtx[t]
                /\ op[t] \in {"cs_test", "cs_done"} /\ o = "none"
             \/ /\ preempt_cnt' = preempt_cnt /\ c = NoCond /\ m = mtx[t]
                /\ op[t] = "cb_loop" /\ o = "none" /\ list[t] = <<>>
      PROVE  SyncInv' /\ SameMonitor
  <2>1. SyncTypeOK'
    BY <1>0, <1>1, <1>2, <1>5 DEF SyncTypeOK
  <2>2. OpsMatchScheduler'
    BY <1>0, <1>1, <1>5 DEF OpsMatchScheduler, Depth, Preemptible, BeforeSchedule
  <2>3. ArgsMatchOps'
    BY <1>0, <1>1, <1>5 DEF ArgsMatchOps, LockWaits
  <2>4. \A u \in Thread, x \in Mutex : Owns(u, x)' <=> Owns(u, x)
    <3> SUFFICES ASSUME NEW u \in Thread, NEW x \in Mutex
                 PROVE  Owns(u, x)' <=> Owns(u, x)
      OBVIOUS
    <3>1. u # t => op'[u] = op[u] /\ mtx'[u] = mtx[u]
      BY <1>0, <1>5
    <3>2. op'[t] = o /\ mtx'[t] = m
      BY <1>0, <1>5
    <3> QED BY <1>1, <1>5, <3>1, <3>2 DEF Owns
  <2>5. LockedIffOwned'
    BY <1>1, <2>4 DEF LockedIffOwned, MutualExclusion
  <2>6. QueuesMatchOps'
    BY <1>0, <1>1, <1>5, <1>4 DEF QueuesMatchOps, LockWaits, CondWaits
  <2>7. QueuesSound'
    BY <1>0, <1>1, <1>2, <1>5 DEF QueuesSound, FallingAsleep
  <2>8. NoLostWakeup'
    <3>1. \A u \in Thread : Linked(u)' = Linked(u)
      BY <1>1 DEF Linked
    <3> QED BY <1>5, <3>1 DEF NoLostWakeup
  <2>9. SameMonitor
    <3>1. \A x \in Cond : FallingAsleep(x)' <=> FallingAsleep(x)
      BY <1>0, <1>1, <1>5 DEF FallingAsleep
    <3> QED BY <1>1, <2>4, <3>1 DEF SameMonitor, Sleepers
  <2> QED BY <2>1, <2>2, <2>3, <2>5, <2>6, <2>7, <2>8, <2>9
<1>6. ASSUME Lock(t) PROVE preempt_cnt' = preempt_cnt + 1 /\ UNCHANGED <<current, state, pc>>
  BY <1>6 DEF Lock, spin_lock
<1>7. ASSUME Unlock(t) PROVE preempt_cnt' = preempt_cnt - 1 /\ UNCHANGED <<current, state, pc>>
  BY <1>7 DEF Unlock, spin_unlock
<1>8. mtx' = mtx => mtx' = [mtx EXCEPT ![t] = mtx[t]]
  BY <1>0
<1>9. cond' = cond => cond' = [cond EXCEPT ![t] = cond[t]]
  BY <1>0
<1>10. mtx[t] \in Mutex \cup {NoMutex} /\ cond[t] \in Cond \cup {NoCond}
  BY <1>0
<1>11. ASSUME NEW m \in Mutex, MutexLock(t, m) PROVE SyncInv' /\ SameMonitor
  BY <1>5, <1>6, <1>11 DEF MutexLock, Free, At, Step, Ops
<1>12. ASSUME NEW c \in Cond, NEW m \in Mutex, ConditionWait(t, c, m) PROVE SyncInv' /\ SameMonitor
  BY <1>5, <1>6, <1>12 DEF ConditionWait, Free, At, Step, Ops
<1>13. ASSUME NEW c \in Cond, ConditionSignal(t, c) \/ ConditionBroadcast(t, c)
       PROVE  SyncInv' /\ SameMonitor
  BY <1>5, <1>6, <1>8, <1>10, <1>13
     DEF ConditionSignal, ConditionBroadcast, ConditionCall, Free, At, Step, Ops
<1>14. CASE LockUnlockSpin(t) \/ WaitUnlockSpin(t) \/ BroadcastUnlockSpin(t)
  BY <1>5, <1>7, <1>8, <1>9, <1>10, <1>14
     DEF LockUnlockSpin, WaitUnlockSpin, BroadcastUnlockSpin, At, Step, Ops
<1>15. CASE UnlockReturn(t)
  BY <1>5, <1>7, <1>8, <1>9, <1>10, <1>15 DEF UnlockReturn, At, Step, Ops
<1>16. CASE SignalReturn(t)
  BY <1>5, <1>7, <1>8, <1>10, <1>16 DEF SignalReturn, At, Step, Ops
<1>17. CASE BroadcastReturn(t)
  BY <1>5, <1>8, <1>10, <1>17 DEF BroadcastReturn, At, Step, Ops, threadVars
<1>18. CASE LockSchedule(t) \/ WaitSchedule(t)
  BY <1>3, <1>18 DEF LockSchedule, WaitSchedule, At, Step
<1> QED BY <1>11, <1>12, <1>13, <1>14, <1>15, <1>16, <1>17, <1>18

\* Taking and releasing a mutex nobody waits for.
LEMMA OwnershipInv ==
    ASSUME SyncInv, ThreadsInv', NEW t \in Thread,
           \/ LockTake(t) \/ LockReturn(t) \/ UnlockFree(t)
           \/ \E m \in Mutex : MutexUnlock(t, m)
    PROVE  SyncInv'
<1> USE DEF SyncInv
<1>0. /\ current \in Thread /\ preempt_cnt \in Nat /\ preempt_cnt = Depth(current)
      /\ op \in [Thread -> Ops] /\ pc \in [Thread -> PCs]
      /\ mtx \in [Thread -> Mutex \cup {NoMutex}]
      /\ cond \in [Thread -> Cond \cup {NoCond}]
      /\ holds \in [Thread -> SUBSET Mutex]
      /\ locked \in [Mutex -> BOOLEAN]
  BY DEF SyncTypeOK, ThreadsTypeOK, OpsMatchScheduler
<1>1. /\ UNCHANGED <<current, state, pc, waitqueue, cwaitqueue, list, cond>>
      /\ current = t
  BY DEF LockTake, LockReturn, UnlockFree, MutexUnlock, Free, At, Lock, spin_lock,
         Unlock, spin_unlock, threadVars
<1>2. ThreadsTypeOK'
  BY DEF ThreadsInv
<1>3. \A u \in Thread : Linked(u)' = Linked(u)
  BY <1>1 DEF Linked
<1>4. NoLostWakeup'
  BY <1>1, <1>3 DEF NoLostWakeup
<1>5. CASE LockTake(t)
  <2>1. /\ op[t] = "ml_test" /\ op' = [op EXCEPT ![t] = "ml_taken"]
        /\ ~ locked[mtx[t]] /\ locked' = [locked EXCEPT ![mtx[t]] = TRUE]
        /\ UNCHANGED <<preempt_cnt, mtx, holds>>
    BY <1>5 DEF LockTake, At, Step, threadVars
  <2>2. mtx[t] \in Mutex
    BY <1>0, <2>1 DEF ArgsMatchOps
  <2>3. SyncTypeOK'
    BY <1>0, <1>1, <1>2, <2>1 DEF SyncTypeOK, Ops
  <2>4. OpsMatchScheduler'
    BY <1>0, <1>1, <2>1 DEF OpsMatchScheduler, Depth, Preemptible, BeforeSchedule
  <2>5. ArgsMatchOps' /\ QueuesMatchOps'
    BY <1>0, <1>1, <2>1 DEF ArgsMatchOps, QueuesMatchOps, LockWaits, CondWaits
  <2>6. QueuesSound'
    BY <1>0, <1>1, <2>1, <2>2 DEF QueuesSound, FallingAsleep
  <2>7. \A u \in Thread, x \in Mutex :
          Owns(u, x)' <=> Owns(u, x) \/ (u = t /\ x = mtx[t])
    BY <1>0, <1>1, <2>1 DEF Owns
  <2>8. LockedIffOwned'
    BY <1>0, <2>1, <2>2, <2>7 DEF LockedIffOwned, MutualExclusion
  <2> QED BY <1>4, <2>3, <2>4, <2>5, <2>6, <2>8
<1>6. CASE LockReturn(t)
  <2>1. /\ op[t] = "ml_taken" \/ op[t] = "ml_ret"
        /\ op[t] = "ml_taken" => preempt_cnt' = preempt_cnt - 1
        /\ op[t] = "ml_ret" => preempt_cnt' = preempt_cnt
        /\ op' = [op EXCEPT ![t] = "none"]
        /\ holds' = [holds EXCEPT ![t] = @ \cup {mtx[t]}]
        /\ mtx' = [mtx EXCEPT ![t] = NoMutex]
        /\ UNCHANGED locked
    BY <1>6 DEF LockReturn, At, Step, threadVars, Unlock, spin_unlock
  <2>2. mtx[t] \in Mutex
    BY <1>0, <2>1 DEF ArgsMatchOps
  <2>3. state[t] # "BLOCKED" /\ pc[t] = "run"
    BY <1>0, <1>1, <2>1 DEF OpsMatchScheduler, BeforeSchedule, ThreadsInv,
         NoRunWhileBlocked
  <2>4. SyncTypeOK'
    BY <1>0, <1>1, <1>2, <2>1, <2>2 DEF SyncTypeOK, Ops
  <2>5. OpsMatchScheduler'
    BY <1>0, <1>1, <2>1, <2>3 DEF OpsMatchScheduler, Depth, Preemptible, BeforeSchedule
  <2>6. ArgsMatchOps'
    BY <1>0, <1>1, <2>1, <2>2 DEF ArgsMatchOps, LockWaits
  <2>7. QueuesMatchOps' /\ QueuesSound'
    BY <1>0, <1>1, <2>1, <2>3
       DEF QueuesMatchOps, QueuesSound, FallingAsleep, LockWaits, CondWaits
  <2>8. \A u \in Thread, x \in Mutex : Owns(u, x)' <=> Owns(u, x)
    BY <1>0, <1>1, <2>1, <2>2, <2>3 DEF Owns, QueuesMatchOps
  <2>9. \A u \in Thread, x \in Mutex : x \in holds'[u] => Owns(u, x)
    BY <1>0, <2>1, <2>2, <2>8 DEF Owns
  <2>10. LockedIffOwned'
    BY <1>0, <2>1, <2>8, <2>9 DEF LockedIffOwned, MutualExclusion, Owns
  <2> QED BY <1>4, <2>4, <2>5, <2>6, <2>7, <2>10
<1>7. CASE UnlockFree(t)
  <2>1. /\ op[t] = "mu_test" /\ op' = [op EXCEPT ![t] = "mu_done"]
        /\ waitqueue[mtx[t]] = <<>> /\ locked' = [locked EXCEPT ![mtx[t]] = FALSE]
        /\ UNCHANGED <<preempt_cnt, mtx, holds>>
    BY <1>7 DEF UnlockFree, At, Step, threadVars
  <2>2. mtx[t] \in Mutex /\ mtx[t] \notin holds[t]
    BY <1>0, <2>1 DEF ArgsMatchOps
  <2>3. SyncTypeOK'
    BY <1>0, <1>1, <1>2, <2>1 DEF SyncTypeOK, Ops
  <2>4. OpsMatchScheduler'
    BY <1>0, <1>1, <2>1 DEF OpsMatchScheduler, Depth, Preemptible, BeforeSchedule
  <2>5. ArgsMatchOps' /\ QueuesMatchOps'
    BY <1>0, <1>1, <2>1 DEF ArgsMatchOps, QueuesMatchOps, LockWaits, CondWaits
  <2>6. QueuesSound'
    BY <1>0, <1>1, <2>1, <2>2 DEF QueuesSound, FallingAsleep
  <2>7. \A u \in Thread, x \in Mutex :
          Owns(u, x)' <=> Owns(u, x) /\ ~ (u = t /\ x = mtx[t])
    BY <1>0, <1>1, <2>1, <2>2 DEF Owns
  <2>8. Owns(t, mtx[t])
    BY <2>1 DEF Owns
  <2>9. LockedIffOwned'
    BY <1>0, <2>1, <2>2, <2>7, <2>8 DEF LockedIffOwned, MutualExclusion
  <2> QED BY <1>4, <2>3, <2>4, <2>5, <2>6, <2>9
<1>8. ASSUME NEW m \in Mutex, MutexUnlock(t, m) PROVE SyncInv'
  <2>1. /\ \/ op[t] = "none" /\ t \in Clients /\ pc[t] = "run" /\ m \in holds[t]
           \/ op[t] = "cw_unlock" /\ m = mtx[t]
        /\ preempt_cnt' = preempt_cnt + 1
        /\ op' = [op EXCEPT ![t] = "mu_test"]
        /\ mtx' = [mtx EXCEPT ![t] = m]
        /\ holds' = [holds EXCEPT ![t] = @ \ {m}]
        /\ UNCHANGED locked
    BY <1>8 DEF MutexUnlock, Free, At, Step, Lock, spin_lock
  <2>2. m \in holds[t]
    BY <2>1 DEF ArgsMatchOps
  <2>3. SyncTypeOK'
    BY <1>0, <1>1, <1>2, <2>1 DEF SyncTypeOK, Ops
  <2>4. OpsMatchScheduler'
    BY <1>0, <1>1, <2>1
       DEF OpsMatchScheduler, Depth, Preemptible, BeforeSchedule, ArgsMatchOps, LockWaits
  <2>5. ArgsMatchOps'
    BY <1>0, <1>1, <2>1 DEF ArgsMatchOps, LockWaits
  <2>6. QueuesMatchOps'
    BY <1>0, <1>1, <2>1 DEF QueuesMatchOps, LockWaits, CondWaits
  <2>7. QueuesSound'
    BY <1>0, <1>1, <2>1 DEF QueuesSound, FallingAsleep, ArgsMatchOps, LockWaits
  <2>8. \A u \in Thread, x \in Mutex : Owns(u, x)' <=> Owns(u, x)
    BY <1>0, <1>1, <2>1, <2>2 DEF Owns
  <2>9. LockedIffOwned'
    BY <1>0, <2>1, <2>8 DEF LockedIffOwned, MutualExclusion
  <2> QED BY <1>4, <2>3, <2>4, <2>5, <2>6, <2>7, <2>9
<1> QED BY <1>5, <1>6, <1>7, <1>8

\* Blocking: the caller marks itself BLOCKED and queues itself, in one go.
LEMMA QueueingInv ==
    ASSUME SyncInv, ThreadsInv', NEW t \in Thread, LockQueue(t) \/ WaitQueue(t)
    PROVE  SyncInv'
<1> USE DEF SyncInv
<1>0. /\ current \in Thread /\ preempt_cnt \in Nat /\ preempt_cnt = Depth(current)
      /\ op \in [Thread -> Ops] /\ pc \in [Thread -> PCs]
      /\ state \in [Thread -> States]
      /\ mtx \in [Thread -> Mutex \cup {NoMutex}]
      /\ cond \in [Thread -> Cond \cup {NoCond}]
      /\ waitqueue \in [Mutex -> Seq(Thread)]
      /\ cwaitqueue \in [Cond -> Seq(Thread)]
  BY DEF SyncTypeOK, ThreadsTypeOK, OpsMatchScheduler
<1>1. /\ current = t /\ op[t] \in {"ml_test", "cw_queue"}
      /\ state' = [state EXCEPT ![t] = "BLOCKED"]
      /\ pc' = [pc EXCEPT ![t] = "wait"]
      /\ UNCHANGED <<current, preempt_cnt, locked, mtx, cond, list, holds>>
  BY DEF LockQueue, WaitQueue, At, MarkBlocked, Goto
<1>2. ThreadsTypeOK'
  BY DEF ThreadsInv
<1>3. Unlinked(t) /\ t \in Clients /\ pc[t] = "run"
  BY <1>0, <1>1 DEF Unlinked, QueuesMatchOps, LockWaits, CondWaits,
         OpsMatchScheduler, BeforeSchedule
<1>4. CASE LockQueue(t)
  <2> DEFINE m == mtx[t]
  <2>1. /\ op[t] = "ml_test" /\ op' = [op EXCEPT ![t] = "ml_queued"]
        /\ locked[m] /\ cwaitqueue' = cwaitqueue
        /\ waitqueue' = [waitqueue EXCEPT ![m] = Append(waitqueue[m], t)]
    BY <1>4 DEF LockQueue, At, Step
  <2>2. m \in Mutex /\ m \notin holds[t] /\ cond[t] = NoCond
    BY <1>0, <2>1 DEF ArgsMatchOps
  <2>3. /\ waitqueue'[m] = Append(waitqueue[m], t)
        /\ \A x \in Mutex \ {m} : waitqueue'[x] = waitqueue[x]
    BY <1>0, <2>1, <2>2
  <2>4. /\ waitqueue'[m] \in Seq(Thread)
        /\ IsInjective(waitqueue'[m])
        /\ \A y : Contains(waitqueue'[m], y) <=> Contains(waitqueue[m], y) \/ y = t
    BY <1>0, <1>3, <2>2, <2>3, AppendMembers DEF Unlinked, QueuesSound
  <2> HIDE DEF m
  <2>5. SyncTypeOK'
    BY <1>0, <1>1, <1>2, <2>1, <2>2, <2>4 DEF SyncTypeOK, Ops
  <2>6. OpsMatchScheduler'
    BY <1>0, <1>1, <1>3, <2>1 DEF OpsMatchScheduler, Depth, Preemptible, BeforeSchedule
  <2>7. ArgsMatchOps'
    BY <1>0, <1>1, <2>1 DEF ArgsMatchOps, LockWaits
  <2>8. QueuesMatchOps'
    BY <1>0, <1>1, <1>3, <2>1, <2>2, <2>3, <2>4
       DEF QueuesMatchOps, LockWaits, CondWaits, Unlinked, m
  <2>9. QueuesSound'
    BY <1>0, <1>1, <2>1, <2>2, <2>3, <2>4 DEF QueuesSound, FallingAsleep
  <2>10. \A u \in Thread, x \in Mutex : Owns(u, x)' <=> Owns(u, x)
    BY <1>0, <1>1, <2>1, <2>2, <2>3, <2>4 DEF Owns, m
  <2>11. LockedIffOwned'
    BY <1>1, <2>10 DEF LockedIffOwned, MutualExclusion
  <2>12. NoLostWakeup'
    <3>1. ASSUME NEW u \in Thread, Unlinked(u)' PROVE Unlinked(u) /\ u # t
      BY <1>1, <2>1, <2>2, <2>3, <2>4, <3>1 DEF Unlinked
    <3>2. ASSUME NEW u \in Thread PROVE Linked(u)' = {} => Unlinked(u)'
      BY DEF Linked, Unlinked
    <3> QED BY <1>0, <1>1, <3>1, <3>2, UnlinkedIsEmpty DEF NoLostWakeup
  <2> QED BY <2>5, <2>6, <2>7, <2>8, <2>9, <2>11, <2>12
<1>5. CASE WaitQueue(t)
  <2> DEFINE c == cond[t]
  <2>1. /\ op[t] = "cw_queue" /\ op' = [op EXCEPT ![t] = "cw_unlock"]
        /\ waitqueue' = waitqueue
        /\ cwaitqueue' = [cwaitqueue EXCEPT ![c] = Append(cwaitqueue[c], t)]
    BY <1>5 DEF WaitQueue, At, Step
  <2>2. c \in Cond
    BY <1>0, <2>1 DEF ArgsMatchOps, LockWaits
  <2>3. /\ cwaitqueue'[c] = Append(cwaitqueue[c], t)
        /\ \A x \in Cond \ {c} : cwaitqueue'[x] = cwaitqueue[x]
    BY <1>0, <2>1, <2>2
  <2>4. /\ cwaitqueue'[c] \in Seq(Thread) /\ cwaitqueue'[c] # <<>>
        /\ IsInjective(cwaitqueue'[c])
        /\ \A y : Contains(cwaitqueue'[c], y) <=> Contains(cwaitqueue[c], y) \/ y = t
        /\ Last(cwaitqueue'[c]) = t
    BY <1>0, <1>3, <2>2, <2>3, AppendMembers, FrontOfAppend DEF Unlinked, QueuesSound
  <2> HIDE DEF c
  <2>5. SyncTypeOK'
    BY <1>0, <1>1, <1>2, <2>1, <2>2, <2>4 DEF SyncTypeOK, Ops
  <2>6. OpsMatchScheduler'
    BY <1>0, <1>1, <1>3, <2>1 DEF OpsMatchScheduler, Depth, Preemptible, BeforeSchedule
  <2>7. ArgsMatchOps'
    BY <1>0, <1>1, <2>1 DEF ArgsMatchOps, LockWaits
  <2>8. QueuesMatchOps'
    BY <1>0, <1>1, <1>3, <2>1, <2>2, <2>3, <2>4
       DEF QueuesMatchOps, LockWaits, CondWaits, Unlinked, c
  <2>9. QueuesSound'
    BY <1>0, <1>1, <2>1, <2>2, <2>3, <2>4 DEF QueuesSound, FallingAsleep, c
  <2>10. \A u \in Thread, x \in Mutex : Owns(u, x)' <=> Owns(u, x)
    BY <1>0, <1>1, <2>1 DEF Owns
  <2>11. LockedIffOwned'
    BY <1>1, <2>10 DEF LockedIffOwned, MutualExclusion
  <2>12. NoLostWakeup'
    <3>1. ASSUME NEW u \in Thread, Unlinked(u)' PROVE Unlinked(u) /\ u # t
      BY <1>1, <2>1, <2>2, <2>3, <2>4, <3>1 DEF Unlinked
    <3>2. ASSUME NEW u \in Thread PROVE Linked(u)' = {} => Unlinked(u)'
      BY DEF Linked, Unlinked
    <3> QED BY <1>0, <1>1, <3>1, <3>2, UnlinkedIsEmpty DEF NoLostWakeup
  <2> QED BY <2>5, <2>6, <2>7, <2>8, <2>9, <2>11, <2>12
<1> QED BY <1>4, <1>5

\* mutex_unlock() hands the mutex to the first thread of the queue.
LEMMA HandOverInv ==
    ASSUME SyncInv, ThreadsInv', NEW t \in Thread, UnlockHandOver(t)
    PROVE  SyncInv'
<1> USE DEF SyncInv
<1> SUFFICES ASSUME NEW m, m = mtx[t], NEW h, h = Head(waitqueue[m])
             PROVE  SyncInv'
  OBVIOUS
<1>0. /\ current \in Thread /\ preempt_cnt = Depth(current)
      /\ op \in [Thread -> Ops] /\ state \in [Thread -> States]
      /\ mtx \in [Thread -> Mutex \cup {NoMutex}]
      /\ waitqueue \in [Mutex -> Seq(Thread)]
  BY DEF SyncTypeOK, ThreadsTypeOK, OpsMatchScheduler
<1>1. /\ current = t /\ op[t] = "mu_test" /\ waitqueue[m] # <<>>
      /\ op' = [op EXCEPT ![t] = "mu_done"]
      /\ state' = [state EXCEPT ![h] = "ACTIVE"]
      /\ waitqueue' = [waitqueue EXCEPT ![m] = Tail(waitqueue[m])]
      /\ UNCHANGED <<current, preempt_cnt, pc, locked, cwaitqueue, mtx, cond, list, holds>>
  BY DEF UnlockHandOver, At, Step, thread_activate
<1>2. ThreadsTypeOK'
  BY DEF ThreadsInv
<1>3. m \in Mutex /\ m \notin holds[t]
  BY <1>0, <1>1 DEF ArgsMatchOps
<1>4. /\ waitqueue'[m] = Tail(waitqueue[m])
      /\ \A x \in Mutex \ {m} : waitqueue'[x] = waitqueue[x]
  BY <1>0, <1>1, <1>3
<1>5. /\ h \in Thread
      /\ waitqueue'[m] \in Seq(Thread)
      /\ IsInjective(waitqueue'[m])
      /\ \A y : Contains(waitqueue[m], y) <=> Contains(waitqueue'[m], y) \/ y = h
      /\ ~ Contains(waitqueue'[m], h)
      /\ Contains(waitqueue[m], h)
  BY <1>0, <1>1, <1>3, <1>4, TailMembers DEF QueuesSound
<1>6. h # t /\ mtx[h] = m /\ op[h] \in LockWaits
  BY <1>1, <1>3, <1>5 DEF QueuesMatchOps, LockWaits
<1>7. SyncTypeOK'
  BY <1>0, <1>1, <1>2, <1>3, <1>5 DEF SyncTypeOK, Ops
<1>8. OpsMatchScheduler'
  BY <1>0, <1>1 DEF OpsMatchScheduler, Depth, Preemptible, BeforeSchedule
<1>9. ArgsMatchOps'
  BY <1>0, <1>1 DEF ArgsMatchOps, LockWaits
<1>10. QueuesMatchOps'
  <2>1. \A x \in Mutex, u \in Thread : Contains(waitqueue'[x], u) =>
          Contains(waitqueue[x], u) /\ u # h
    BY <1>3, <1>4, <1>5, <1>6 DEF QueuesMatchOps
  <2>2. \A u \in Thread : /\ \A c \in Cond : Contains(cwaitqueue[c], u) => u # h
                         /\ \A v \in Thread : Contains(list[v], u) => u # h
    BY <1>6 DEF QueuesMatchOps, LockWaits, CondWaits
  <2> QED BY <1>0, <1>1, <1>5, <2>1, <2>2 DEF QueuesMatchOps, LockWaits, CondWaits
<1>11. QueuesSound'
  BY <1>0, <1>1, <1>3, <1>4, <1>5 DEF QueuesSound, FallingAsleep
<1>12. /\ \A u \in Thread, x \in Mutex \ {m} : Owns(u, x)' <=> Owns(u, x)
       /\ Owns(t, m) /\ locked[m]
       /\ \A u \in Thread : Owns(u, m)' <=> u = h
  <2>1. \A u \in Thread, x \in Mutex \ {m} : Owns(u, x)' <=> Owns(u, x)
    BY <1>0, <1>1, <1>3, <1>4 DEF Owns
  <2>2. Owns(t, m) /\ locked[m]
    BY <1>1, <1>3 DEF Owns, QueuesSound
  <2>3. \A u \in Thread : Owns(u, m) => u = t
    BY <1>3, <2>2 DEF LockedIffOwned
  <2>4. Owns(h, m)'
    BY <1>0, <1>1, <1>5, <1>6 DEF Owns, LockWaits
  <2>5. ASSUME NEW u \in Thread, Owns(u, m)', u # h PROVE FALSE
    <3>1. u # t
      BY <1>0, <1>1, <1>3, <2>5 DEF Owns
    <3>2. Owns(u, m)
      BY <1>0, <1>1, <1>3, <1>5, <2>5, <3>1 DEF Owns
    <3> QED BY <2>3, <3>1, <3>2
  <2> QED BY <2>1, <2>2, <2>4, <2>5
<1>13. LockedIffOwned'
  BY <1>1, <1>3, <1>5, <1>12 DEF LockedIffOwned, MutualExclusion
<1>14. NoLostWakeup'
  <2>1. ASSUME NEW u \in Thread, Unlinked(u)' PROVE Unlinked(u) \/ u = h
    BY <1>1, <1>3, <1>4, <1>5, <2>1 DEF Unlinked
  <2>2. ASSUME NEW u \in Thread PROVE Linked(u)' = {} => Unlinked(u)'
    BY DEF Linked, Unlinked
  <2> QED BY <1>0, <1>1, <1>5, <2>1, <2>2, UnlinkedIsEmpty DEF NoLostWakeup
<1> QED BY <1>7, <1>8, <1>9, <1>10, <1>11, <1>13, <1>14

\* condition_signal() wakes the first sleeper.
LEMMA SignalInv ==
    ASSUME SyncInv, ThreadsInv', NEW t \in Thread, SignalWake(t)
    PROVE  SyncInv'
<1> USE DEF SyncInv
<1> DEFINE c == cond[t]
           h == Head(cwaitqueue[c])
<1>0. /\ current \in Thread /\ preempt_cnt = Depth(current)
      /\ op \in [Thread -> Ops] /\ state \in [Thread -> States]
      /\ cond \in [Thread -> Cond \cup {NoCond}]
      /\ cwaitqueue \in [Cond -> Seq(Thread)]
  BY DEF SyncTypeOK, ThreadsTypeOK, OpsMatchScheduler
<1>1. /\ current = t /\ op[t] = "cs_test" /\ cwaitqueue[c] # <<>>
      /\ op' = [op EXCEPT ![t] = "cs_done"]
      /\ state' = [state EXCEPT ![h] = "ACTIVE"]
      /\ cwaitqueue' = [cwaitqueue EXCEPT ![c] = Tail(cwaitqueue[c])]
      /\ UNCHANGED <<current, preempt_cnt, pc, locked, waitqueue, mtx, cond, list, holds>>
  BY DEF SignalWake, At, Step, thread_activate
<1>2. ThreadsTypeOK'
  BY DEF ThreadsInv
<1>3. c \in Cond
  BY <1>0, <1>1 DEF ArgsMatchOps, LockWaits
<1>4. /\ cwaitqueue'[c] = Tail(cwaitqueue[c])
      /\ \A x \in Cond \ {c} : cwaitqueue'[x] = cwaitqueue[x]
  BY <1>0, <1>1, <1>3
<1>5. /\ h \in Thread
      /\ cwaitqueue'[c] \in Seq(Thread)
      /\ IsInjective(cwaitqueue'[c])
      /\ \A y : Contains(cwaitqueue[c], y) <=> Contains(cwaitqueue'[c], y) \/ y = h
      /\ ~ Contains(cwaitqueue'[c], h)
      /\ Contains(cwaitqueue[c], h)
  BY <1>0, <1>1, <1>3, <1>4, TailMembers DEF QueuesSound
<1> HIDE DEF c, h
<1>6. h # t /\ cond[h] = c /\ op[h] \in CondWaits
  BY <1>1, <1>3, <1>5 DEF QueuesMatchOps, CondWaits
<1>7. SyncTypeOK'
  BY <1>0, <1>1, <1>2, <1>3, <1>5 DEF SyncTypeOK, Ops
<1>8. OpsMatchScheduler'
  BY <1>0, <1>1 DEF OpsMatchScheduler, Depth, Preemptible, BeforeSchedule
<1>9. ArgsMatchOps'
  BY <1>0, <1>1 DEF ArgsMatchOps, LockWaits
<1>10. QueuesMatchOps'
  <2>1. \A x \in Cond, u \in Thread : Contains(cwaitqueue'[x], u) =>
          Contains(cwaitqueue[x], u) /\ u # h
    BY <1>3, <1>4, <1>5, <1>6 DEF QueuesMatchOps
  <2>2. \A u \in Thread : /\ \A x \in Mutex : Contains(waitqueue[x], u) => u # h
                         /\ \A v \in Thread : Contains(list[v], u) => u # h
    BY <1>3, <1>5, <1>6 DEF QueuesMatchOps, LockWaits, CondWaits
  <2> QED BY <1>0, <1>1, <1>5, <2>1, <2>2 DEF QueuesMatchOps, LockWaits, CondWaits
<1>11. QueuesSound'
  BY <1>0, <1>1, <1>3, <1>4, <1>5 DEF QueuesSound, FallingAsleep
<1>12. \A u \in Thread, x \in Mutex : Owns(u, x)' <=> Owns(u, x)
  BY <1>0, <1>1 DEF Owns
<1>13. LockedIffOwned'
  BY <1>1, <1>12 DEF LockedIffOwned, MutualExclusion
<1>14. NoLostWakeup'
  <2>1. ASSUME NEW u \in Thread, Unlinked(u)' PROVE Unlinked(u) \/ u = h
    BY <1>1, <1>3, <1>4, <1>5, <2>1 DEF Unlinked
  <2>2. ASSUME NEW u \in Thread PROVE Linked(u)' = {} => Unlinked(u)'
    BY DEF Linked, Unlinked
  <2> QED BY <1>0, <1>1, <1>5, <2>1, <2>2, UnlinkedIsEmpty DEF NoLostWakeup
<1> QED BY <1>7, <1>8, <1>9, <1>10, <1>11, <1>13, <1>14

\* condition_broadcast() moves the sleepers to its own list.
LEMMA SpliceInv ==
    ASSUME SyncInv, ThreadsInv', NEW t \in Thread, BroadcastSplice(t)
    PROVE  SyncInv'
<1> USE DEF SyncInv
<1> DEFINE c == cond[t]
<1>0. /\ current \in Thread /\ preempt_cnt = Depth(current)
      /\ op \in [Thread -> Ops]
      /\ cond \in [Thread -> Cond \cup {NoCond}]
      /\ cwaitqueue \in [Cond -> Seq(Thread)]
      /\ list \in [Thread -> Seq(Thread)]
  BY DEF SyncTypeOK, ThreadsTypeOK, OpsMatchScheduler
<1>1. /\ current = t /\ op[t] = "cb_splice"
      /\ op' = [op EXCEPT ![t] = "cb_spliced"]
      /\ list' = [list EXCEPT ![t] = cwaitqueue[c]]
      /\ cwaitqueue' = [cwaitqueue EXCEPT ![c] = <<>>]
      /\ UNCHANGED <<current, preempt_cnt, pc, state, locked, waitqueue, mtx, cond, holds>>
  BY DEF BroadcastSplice, At, Step, threadVars
<1>2. ThreadsTypeOK'
  BY DEF ThreadsInv
<1>3. c \in Cond /\ list[t] = <<>>
  BY <1>0, <1>1 DEF ArgsMatchOps, LockWaits
<1>4. /\ list'[t] = cwaitqueue[c] /\ cwaitqueue'[c] = <<>>
      /\ \A u \in Thread \ {t} : list'[u] = list[u]
      /\ \A x \in Cond \ {c} : cwaitqueue'[x] = cwaitqueue[x]
  BY <1>0, <1>1, <1>3
<1> HIDE DEF c
<1>5. SyncTypeOK'
  BY <1>0, <1>1, <1>2, <1>3 DEF SyncTypeOK, Ops
<1>6. OpsMatchScheduler'
  BY <1>0, <1>1 DEF OpsMatchScheduler, Depth, Preemptible, BeforeSchedule
<1>7. ArgsMatchOps'
  BY <1>0, <1>1, <1>4 DEF ArgsMatchOps, LockWaits
<1>8. QueuesMatchOps'
  <2>1. ASSUME NEW u \in Thread, NEW v \in Thread, Contains(list'[v], u)
        PROVE  /\ cond[u] # NoCond /\ op[u] \in CondWaits /\ state[u] = "BLOCKED"
               /\ v = t => Contains(cwaitqueue[c], u)
               /\ v # t => Contains(list[v], u)
    BY <1>3, <1>4, <2>1 DEF QueuesMatchOps
  <2>2. ASSUME NEW u \in Thread, NEW x \in Cond, Contains(cwaitqueue'[x], u)
        PROVE  x # c /\ Contains(cwaitqueue[x], u)
    BY <1>4, <2>2, EmptyMembers
  <2>3. \A u \in Thread : op[u] \in LockWaits \cup CondWaits => op'[u] = op[u]
    BY <1>0, <1>1 DEF LockWaits, CondWaits
  <2> QED BY <1>1, <1>3, <2>1, <2>2, <2>3 DEF QueuesMatchOps
<1>9. QueuesSound'
  BY <1>0, <1>1, <1>3, <1>4, EmptyMembers DEF QueuesSound, FallingAsleep
<1>10. \A u \in Thread, x \in Mutex : Owns(u, x)' <=> Owns(u, x)
  BY <1>0, <1>1 DEF Owns
<1>11. LockedIffOwned'
  BY <1>1, <1>10 DEF LockedIffOwned, MutualExclusion
<1>12. NoLostWakeup'
  <2>1. ASSUME NEW u \in Thread, Unlinked(u)' PROVE Unlinked(u)
    BY <1>1, <1>3, <1>4, <2>1, EmptyMembers DEF Unlinked
  <2>2. ASSUME NEW u \in Thread PROVE Linked(u)' = {} => Unlinked(u)'
    BY DEF Linked, Unlinked
  <2> QED BY <1>1, <2>1, <2>2, UnlinkedIsEmpty DEF NoLostWakeup
<1> QED BY <1>5, <1>6, <1>7, <1>8, <1>9, <1>11, <1>12

\* It then wakes them one by one, with no spin lock held.
LEMMA BroadcastWakeInv ==
    ASSUME SyncInv, ThreadsInv', NEW t \in Thread, BroadcastWake(t)
    PROVE  SyncInv'
<1> USE DEF SyncInv
<1> DEFINE h == Head(list[t])
<1>0. /\ current \in Thread /\ preempt_cnt = Depth(current)
      /\ op \in [Thread -> Ops] /\ state \in [Thread -> States]
      /\ list \in [Thread -> Seq(Thread)]
  BY DEF SyncTypeOK, ThreadsTypeOK, OpsMatchScheduler
<1>1. /\ current = t /\ op[t] = "cb_loop" /\ list[t] # <<>>
      /\ state' = [state EXCEPT ![h] = "ACTIVE"]
      /\ list' = [list EXCEPT ![t] = Tail(list[t])]
      /\ UNCHANGED <<current, preempt_cnt, pc, op, locked, waitqueue, cwaitqueue,
                     mtx, cond, holds>>
  BY DEF BroadcastWake, At, thread_activate
<1>2. ThreadsTypeOK'
  BY DEF ThreadsInv
<1>3. /\ list'[t] = Tail(list[t])
      /\ \A u \in Thread \ {t} : list'[u] = list[u]
  BY <1>0, <1>1
<1>4. /\ h \in Thread
      /\ list'[t] \in Seq(Thread)
      /\ IsInjective(list'[t])
      /\ \A y : Contains(list[t], y) <=> Contains(list'[t], y) \/ y = h
      /\ ~ Contains(list'[t], h)
      /\ Contains(list[t], h)
  BY <1>0, <1>1, <1>3, TailMembers DEF QueuesSound
<1> HIDE DEF h
<1>5. SyncTypeOK'
  BY <1>0, <1>1, <1>2, <1>4 DEF SyncTypeOK
<1>6. OpsMatchScheduler' /\ ArgsMatchOps'
  BY <1>0, <1>1, <1>3 DEF OpsMatchScheduler, ArgsMatchOps, Depth, BeforeSchedule
<1>7. QueuesMatchOps'
  <2>1. \A u, v \in Thread : Contains(list'[v], u) => Contains(list[v], u) /\ u # h
    BY <1>3, <1>4 DEF QueuesMatchOps
  <2>2. \A u \in Thread : /\ \A x \in Mutex : Contains(waitqueue[x], u) => u # h
                         /\ \A x \in Cond : Contains(cwaitqueue[x], u) => u # h
    BY <1>4 DEF QueuesMatchOps, LockWaits, CondWaits
  <2> QED BY <1>0, <1>1, <1>4, <2>1, <2>2 DEF QueuesMatchOps
<1>8. QueuesSound' /\ LockedIffOwned'
  BY <1>0, <1>1, <1>3, <1>4
     DEF QueuesSound, FallingAsleep, LockedIffOwned, MutualExclusion, Owns
<1>9. NoLostWakeup'
  <2>1. ASSUME NEW u \in Thread, Unlinked(u)' PROVE Unlinked(u) \/ u = h
    BY <1>1, <1>3, <1>4, <2>1 DEF Unlinked
  <2>2. ASSUME NEW u \in Thread PROVE Linked(u)' = {} => Unlinked(u)'
    BY DEF Linked, Unlinked
  <2> QED BY <1>0, <1>1, <1>4, <2>1, <2>2, UnlinkedIsEmpty DEF NoLostWakeup
<1> QED BY <1>5, <1>6, <1>7, <1>8, <1>9

\* Every step of the system keeps the invariant.
LEMMA SyncNextInv ==
    ASSUME MainNeverBlocks, SyncInv, [Next]_vars
    PROVE  SyncInv' /\ [ThreadsNext]_threadVars
<1>1. CASE UNCHANGED vars
  <2>1. ThreadsInv'
    BY <1>1, ThreadsNextInv DEF vars, SyncInv
  <2>2. /\ UNCHANGED <<locked, waitqueue, cwaitqueue, op, mtx, cond, list, holds>>
        /\ UNCHANGED <<current, preempt_cnt, pc, state>>
        /\ UNCHANGED threadVars
    BY <1>1 DEF vars, syncVars, threadVars
  <2>3. SyncTypeOK' /\ OpsMatchScheduler' /\ ArgsMatchOps'
    BY <2>1, <2>2 DEF SyncInv, SyncTypeOK, ThreadsInv, OpsMatchScheduler, Depth,
         BeforeSchedule, ArgsMatchOps
  <2>4. LockedIffOwned' /\ QueuesMatchOps' /\ QueuesSound' /\ NoLostWakeup'
    BY <2>2 DEF SyncInv, LockedIffOwned, MutualExclusion, Owns, QueuesMatchOps,
         QueuesSound, FallingAsleep, NoLostWakeup, Linked
  <2> QED BY <2>1, <2>2, <2>3, <2>4 DEF SyncInv
<1>2. CASE Interrupt \/ Supervise \/ \E t \in Thread : Outside(t)
  BY <1>2, OutsideInv, OutsideEffect
<1>3. ASSUME NEW t \in Thread, Call(t) \/ InOperation(t)
      PROVE  SyncInv' /\ [ThreadsNext]_threadVars
  <2>1. [ThreadsNext]_threadVars
    BY <1>3, ClientStepIsThreadStep
  <2>2. ThreadsInv'
    BY <2>1, ThreadsNextInv DEF SyncInv
  <2>3. SyncInv'
    BY <1>3, <2>2, MoveInv, OwnershipInv, QueueingInv, HandOverInv, SignalInv,
       SpliceInv, BroadcastWakeInv DEF Call, InOperation
  <2> QED BY <2>1, <2>3
<1> QED BY <1>1, <1>2, <1>3 DEF Next

-----------------------------------------------------------------------------
(* What clients see *)

\* The invariant says where every linked wait node belongs.
LEMMA InvWaitNodesLive == SyncInv => WaitNodesLive
<1> SUFFICES ASSUME SyncInv PROVE WaitNodesLive
  OBVIOUS
<1>1. SyncTypeOK /\ QueuesMatchOps /\ QueuesSound
  BY DEF SyncInv
<1>2. ASSUME NEW t \in Thread, Linked(t) # {}
      PROVE  /\ state[t] = "BLOCKED"
             /\ \E l \in Linked(t) :
                  /\ Linked(t) = {l}
                  /\ l[1] = "mutex" =>
                       l[2] = mtx[t] /\ op[t] \in {"ml_queued", "ml_sched", "ml_ret"}
                  /\ l[1] # "mutex" => op[t] \in
                       {"cw_unlock", "mu_test", "mu_done", "cw_unlocked",
                        "cw_sched", "cw_ret"}
  <2>1. ASSUME NEW m \in Mutex, Contains(waitqueue[m], t)
        PROVE  /\ Linked(t) = {<<"mutex", m>>} /\ mtx[t] = m
               /\ state[t] = "BLOCKED" /\ op[t] \in LockWaits
    <3>1. mtx[t] = m /\ op[t] \in LockWaits /\ state[t] = "BLOCKED"
      BY <1>1, <2>1 DEF QueuesMatchOps
    <3>2. /\ \A x \in Mutex : Contains(waitqueue[x], t) => x = m
          /\ \A c \in Cond : ~ Contains(cwaitqueue[c], t)
          /\ \A u \in Thread : ~ Contains(list[u], t)
      BY <1>1, <3>1 DEF QueuesMatchOps, LockWaits, CondWaits
    <3> QED BY <2>1, <3>1, <3>2 DEF Linked
  <2>2. ASSUME NEW c \in Cond, Contains(cwaitqueue[c], t)
        PROVE  /\ Linked(t) = {<<"cond", c>>}
               /\ state[t] = "BLOCKED" /\ op[t] \in CondWaits
    <3>1. cond[t] = c /\ op[t] \in CondWaits /\ state[t] = "BLOCKED"
      BY <1>1, <2>2 DEF QueuesMatchOps
    <3>2. /\ \A x \in Cond : Contains(cwaitqueue[x], t) => x = c
          /\ \A m \in Mutex : ~ Contains(waitqueue[m], t)
          /\ \A u \in Thread : ~ Contains(list[u], t)
      BY <1>1, <2>2, <3>1 DEF QueuesMatchOps, LockWaits, CondWaits
    <3> QED BY <2>2, <3>1, <3>2 DEF Linked
  <2>3. ASSUME NEW u \in Thread, Contains(list[u], t)
        PROVE  /\ Linked(t) = {<<"list", u>>}
               /\ state[t] = "BLOCKED" /\ op[t] \in CondWaits
    <3>1. op[t] \in CondWaits /\ state[t] = "BLOCKED"
      BY <1>1, <2>3 DEF QueuesMatchOps
    <3>2. /\ \A v \in Thread : Contains(list[v], t) => v = u
          /\ \A m \in Mutex : ~ Contains(waitqueue[m], t)
          /\ \A c \in Cond : ~ Contains(cwaitqueue[c], t)
      BY <1>1, <2>3, <3>1 DEF QueuesMatchOps, LockWaits, CondWaits
    <3> QED BY <2>3, <3>1, <3>2 DEF Linked
  <2>4. ~ Unlinked(t)
    BY <1>2, UnlinkedIsEmpty
  <2>5. CASE \E m \in Mutex : Contains(waitqueue[m], t)
    <3>1. PICK m \in Mutex : Contains(waitqueue[m], t)
      BY <2>5
    <3>2. /\ Linked(t) = {<<"mutex", m>>} /\ mtx[t] = m
          /\ state[t] = "BLOCKED" /\ op[t] \in LockWaits
      BY <2>1, <3>1
    <3>3. <<"mutex", m>>[1] = "mutex" /\ <<"mutex", m>>[2] = m
      OBVIOUS
    <3> QED BY <3>2, <3>3 DEF LockWaits
  <2>6. CASE \E c \in Cond : Contains(cwaitqueue[c], t)
    BY <2>2, <2>6 DEF CondWaits
  <2>7. CASE \E u \in Thread : Contains(list[u], t)
    BY <2>3, <2>7 DEF CondWaits
  <2> QED BY <2>4, <2>5, <2>6, <2>7 DEF Unlinked
<1>3. \A q \in Range(waitqueue) \cup Range(cwaitqueue) \cup Range(list) : IsInjective(q)
  BY <1>1 DEF SyncTypeOK, QueuesSound, Range
<1> QED BY <1>1, <1>2, <1>3 DEF WaitNodesLive

(***************************************************************************)
(* The invariant of mutex.c and condition.c holds in every reachable state *)
(* of the scheduler and its clients together.                              *)
(***************************************************************************)
THEOREM SyncInvariant ==
    ASSUME MainNeverBlocks
    PROVE  Spec => []SyncInv
<1>1. SyncInit => SyncInv
  BY SyncInitInv
<1>2. SyncInv /\ [Next]_vars => SyncInv'
  BY SyncNextInv
<1> QED BY <1>1, <1>2, PTL DEF Spec

(***************************************************************************)
(* Mutual exclusion: a mutex is locked exactly when one thread has it or   *)
(* has been handed it by mutex_unlock(), and never two.                    *)
(***************************************************************************)
THEOREM MutexHasOneOwner ==
    ASSUME MainNeverBlocks
    PROVE  Spec => []LockedIffOwned
<1>1. SyncInv => LockedIffOwned
  BY DEF SyncInv
<1> QED BY <1>1, SyncInvariant, PTL

(***************************************************************************)
(* No list of mutex.c or condition.c ever points into the stack of a       *)
(* thread that has left the call whose wait node is linked.                *)
(***************************************************************************)
THEOREM LinkedNodesAreLive ==
    ASSUME MainNeverBlocks
    PROVE  Spec => []WaitNodesLive
<1> QED BY InvWaitNodesLive, SyncInvariant, PTL

(***************************************************************************)
(* No wake-up is lost: a thread that blocked in mutex_lock() or            *)
(* condition_wait() is on a list where its waker finds it.                 *)
(***************************************************************************)
THEOREM WakeupsAreNotLost ==
    ASSUME MainNeverBlocks
    PROVE  Spec => []NoLostWakeup
<1>1. SyncInv => NoLostWakeup
  BY DEF SyncInv
<1> QED BY <1>1, SyncInvariant, PTL

(***************************************************************************)
(* mutex.c and condition.c use the scheduler only as Threads.tla allows,   *)
(* so all that is proved of the scheduler holds of it together with them.  *)
(***************************************************************************)
THEOREM SchedulerContractKept ==
    ASSUME MainNeverBlocks
    PROVE  Spec => KeepsSchedulerContract
<1>1. SyncInit => ThreadsInit
  BY DEF SyncInit
<1>2. SyncInv /\ [Next]_vars => [ThreadsNext]_threadVars
  BY SyncNextInv
<1> QED BY <1>1, <1>2, SyncInvariant, PTL DEF Spec, KeepsSchedulerContract, ThreadsSpec

-----------------------------------------------------------------------------
(* The abstract monitor *)

\* Owner(m) is the thread that has m.
OwnerExact ==
    \A m \in Mutex :
        /\ \A t \in Thread : Owns(t, m) => Owner(m) = t
        /\ ~ locked[m] => Owner(m) = NoThread
        /\ locked[m] => Owner(m) \in Thread /\ Owns(Owner(m), m)

LEMMA InvOwnerExact == SyncInv => OwnerExact
<1> SUFFICES ASSUME SyncInv, NEW m \in Mutex
             PROVE  /\ \A t \in Thread : Owns(t, m) => Owner(m) = t
                    /\ ~ locked[m] => Owner(m) = NoThread
                    /\ locked[m] => Owner(m) \in Thread /\ Owns(Owner(m), m)
  BY DEF OwnerExact
<1>1. /\ locked[m] <=> \E t \in Thread : Owns(t, m)
      /\ \A t, u \in Thread : Owns(t, m) /\ Owns(u, m) => t = u
  BY DEF SyncInv, LockedIffOwned
<1>2. CASE locked[m]
  <2>1. Owner(m) = CHOOSE t \in Thread : Owns(t, m)
    BY <1>1, <1>2 DEF Owner
  <2>2. Owner(m) \in Thread /\ Owns(Owner(m), m)
    BY <1>1, <1>2, <2>1
  <2> QED BY <1>1, <1>2, <2>2
<1>3. CASE ~ locked[m]
  BY <1>1, <1>3 DEF Owner
<1> QED BY <1>2, <1>3

\* Whoever is not linked anywhere waits for nothing in the monitor.
LEMMA UnlinkedNotWaiting ==
    ASSUME SyncInv, NEW t \in Thread, \A m \in Mutex : ~ Contains(waitqueue[m], t),
           \A c \in Cond : Contains(cwaitqueue[c], t) => FallingAsleep(c) /\ t = current
    PROVE  ~ M!Waiting(t)
<1>0. \A q, x : M!Contains(q, x) <=> Contains(q, x)
  BY DEF M!Contains, Contains
<1> SUFFICES ASSUME NEW c \in Cond, Contains(Sleepers(c), t) PROVE FALSE
  BY <1>0 DEF M!Waiting
<1>1. /\ cwaitqueue[c] \in Seq(Thread) /\ IsInjective(cwaitqueue[c])
      /\ FallingAsleep(c) => cwaitqueue[c] # <<>> /\ Last(cwaitqueue[c]) = current
  BY DEF SyncInv, SyncTypeOK, QueuesSound
<1>2. CASE FallingAsleep(c)
  BY <1>1, <1>2, FrontAndLast DEF Sleepers
<1>3. CASE ~ FallingAsleep(c)
  BY <1>3 DEF Sleepers
<1> QED BY <1>2, <1>3

\* Where nothing changes for the monitor, its variables stay the same.
LEMMA SameMonitorStutters ==
    ASSUME OwnerExact, OwnerExact', SameMonitor
    PROVE  UNCHANGED M!monitorVars
<1>1. ASSUME NEW m \in Mutex PROVE Owner(m)' = Owner(m)
  BY DEF OwnerExact, SameMonitor
<1>2. [m \in Mutex |-> Owner(m)]' = [m \in Mutex |-> Owner(m)]
  BY <1>1
<1>3. [c \in Cond |-> Sleepers(c)]' = [c \in Cond |-> Sleepers(c)]
  BY DEF SameMonitor
<1> QED BY <1>2, <1>3 DEF SameMonitor, M!monitorVars

\* Steps of mutexes and conditions that the monitor takes too.
LEMMA MonitorSteps ==
    ASSUME SyncInv, OwnerExact, OwnerExact', SyncInv', NEW t \in Thread,
           \/ LockTake(t) \/ LockQueue(t) \/ UnlockFree(t) \/ UnlockHandOver(t)
           \/ SignalWake(t) \/ BroadcastSplice(t)
    PROVE  M!MonitorNext
<1>0. /\ current \in Thread /\ op \in [Thread -> Ops]
      /\ cond \in [Thread -> Cond \cup {NoCond}]
      /\ locked \in [Mutex -> BOOLEAN]
      /\ waitqueue \in [Mutex -> Seq(Thread)]
      /\ cwaitqueue \in [Cond -> Seq(Thread)]
      /\ ArgsMatchOps /\ QueuesMatchOps /\ QueuesSound /\ OpsMatchScheduler
  BY DEF SyncInv, SyncTypeOK, ThreadsTypeOK
<1>1. CASE LockTake(t)
  <2> SUFFICES ASSUME NEW m, m = mtx[t] PROVE M!MonitorNext
    OBVIOUS
  <2>1. /\ current = t /\ op[t] = "ml_test" /\ op' = [op EXCEPT ![t] = "ml_taken"]
        /\ ~ locked[m] /\ locked' = [locked EXCEPT ![m] = TRUE]
        /\ UNCHANGED <<current, mtx, cond, holds, waitqueue, cwaitqueue>>
    BY <1>1 DEF LockTake, At, Step, threadVars
  <2>2. m \in Mutex
    BY <1>0, <2>1 DEF ArgsMatchOps, SyncInv, SyncTypeOK
  <2>3. ~ M!Waiting(t)
    BY <1>0, <2>1, UnlinkedNotWaiting DEF QueuesMatchOps, LockWaits, CondWaits
  <2>4. \A u \in Thread, x \in Mutex \ {m} : Owns(u, x) => Owns(u, x)'
    BY <1>0, <2>1 DEF Owns
  <2>5. Owner(m) = NoThread /\ Owner(m)' = t
    <3>1. Owns(t, m)'
      BY <1>0, <2>1 DEF Owns
    <3> QED BY <2>1, <2>2, <3>1 DEF OwnerExact
  <2>6. \A x \in Mutex \ {m} : Owner(x)' = Owner(x)
    BY <1>0, <2>1, <2>2, <2>4 DEF OwnerExact
  <2>7. \A c \in Cond : Sleepers(c)' = Sleepers(c)
    BY <1>0, <2>1 DEF Sleepers, FallingAsleep
  <2>8. M!Acquire(t, m)
    BY <2>1, <2>2, <2>3, <2>5, <2>6, <2>7 DEF M!Acquire
  <2> QED BY <2>2, <2>8 DEF M!MonitorNext
<1>2. CASE LockQueue(t)
  <2> SUFFICES ASSUME NEW m, m = mtx[t] PROVE M!MonitorNext
    OBVIOUS
  <2>1. /\ current = t /\ op[t] = "ml_test" /\ op' = [op EXCEPT ![t] = "ml_queued"]
        /\ locked[m] /\ waitqueue' = [waitqueue EXCEPT ![m] = Append(@, t)]
        /\ UNCHANGED <<current, locked, mtx, cond, holds, cwaitqueue>>
    BY <1>2 DEF LockQueue, At, Step, MarkBlocked
  <2>2. m \in Mutex /\ m \notin holds[t] /\ mtx[t] = m
    BY <1>0, <2>1 DEF ArgsMatchOps, SyncInv, SyncTypeOK
  <2>3. ~ M!Waiting(t)
    BY <1>0, <2>1, UnlinkedNotWaiting DEF QueuesMatchOps, LockWaits, CondWaits
  <2>4. Contains(waitqueue'[m], t) /\
        \A y : Contains(waitqueue'[m], y) => Contains(waitqueue[m], y) \/ y = t
    BY <1>0, <2>1, <2>2, AppendMembers
  <2>5. \A u \in Thread, x \in Mutex : Owns(u, x) => Owns(u, x)'
    <3> SUFFICES ASSUME NEW u \in Thread, NEW x \in Mutex, Owns(u, x)
                 PROVE  Owns(u, x)'
      OBVIOUS
    <3>1. u = t => x \in holds[t]
      BY <2>1 DEF Owns
    <3>2. x # m => waitqueue'[x] = waitqueue[x]
      BY <1>0, <2>1
    <3> QED BY <1>0, <2>1, <2>4, <3>1, <3>2 DEF Owns
  <2>6. \A x \in Mutex : Owner(x)' = Owner(x)
    BY <2>1, <2>5 DEF OwnerExact
  <2>7. Owner(m) \notin {NoThread, t}
    BY <2>1, <2>2 DEF OwnerExact, Owns
  <2>8. \A c \in Cond : Sleepers(c)' = Sleepers(c)
    BY <1>0, <2>1 DEF Sleepers, FallingAsleep
  <2>9. M!Enter(t, m)
    BY <2>1, <2>2, <2>3, <2>6, <2>7, <2>8 DEF M!Enter
  <2> QED BY <2>2, <2>9 DEF M!MonitorNext
<1>3. CASE UnlockFree(t) \/ UnlockHandOver(t)
  <2> SUFFICES ASSUME NEW m, m = mtx[t] PROVE M!MonitorNext
    OBVIOUS
  <2>1. /\ current = t /\ op[t] = "mu_test" /\ op' = [op EXCEPT ![t] = "mu_done"]
        /\ UNCHANGED <<current, mtx, cond, holds, cwaitqueue>>
    BY <1>3 DEF UnlockFree, UnlockHandOver, At, Step, threadVars, thread_activate
  <2>2. /\ m \in Mutex /\ m \notin holds[t] /\ mtx[t] = m
        /\ Owns(t, m) /\ Owner(m) = t
    BY <1>0, <2>1 DEF ArgsMatchOps, SyncInv, SyncTypeOK, OwnerExact, Owns
  <2>3. M!PassOn(m)
    <3>1. CASE UnlockFree(t)
      <4>1. /\ waitqueue[m] = <<>> /\ waitqueue' = waitqueue
            /\ locked' = [locked EXCEPT ![m] = FALSE]
        BY <3>1 DEF UnlockFree
      <4>2. \A u \in Thread, x \in Mutex \ {m} : Owns(u, x) => Owns(u, x)'
        BY <1>0, <2>1, <2>2, <4>1 DEF Owns
      <4>3. \A x \in Mutex \ {m} : Owner(x)' = Owner(x)
        BY <1>0, <4>1, <4>2 DEF OwnerExact
      <4>4. Owner(m)' = NoThread
        BY <1>0, <2>2, <4>1 DEF OwnerExact
      <4> QED BY <2>2, <4>1, <4>3, <4>4 DEF M!PassOn
    <3>2. CASE UnlockHandOver(t)
      <4> SUFFICES ASSUME NEW h, h = Head(waitqueue[m]) PROVE M!PassOn(m)
        OBVIOUS
      <4>1. /\ waitqueue[m] # <<>> /\ locked' = locked
            /\ waitqueue' = [waitqueue EXCEPT ![m] = Tail(@)]
        BY <3>2 DEF UnlockHandOver
      <4>2. \A u \in Thread, x \in Mutex \ {m} : Owns(u, x) => Owns(u, x)'
        BY <1>0, <2>1, <2>2, <4>1 DEF Owns
      <4>3. \A x \in Mutex \ {m} : Owner(x)' = Owner(x)
        BY <1>0, <4>1, <4>2 DEF OwnerExact
      <4>4. /\ h \in Thread /\ Contains(waitqueue[m], h)
            /\ ~ Contains(waitqueue'[m], h)
        BY <1>0, <2>2, <4>1, TailMembers DEF QueuesSound
      <4>5. h # t /\ mtx[h] = m /\ op[h] \in LockWaits
        BY <1>0, <2>1, <2>2, <4>4 DEF QueuesMatchOps, LockWaits
      <4>6. Owns(h, m)'
        BY <1>0, <2>1, <4>4, <4>5 DEF Owns, LockWaits
      <4>7. Owner(m)' = h
        BY <2>2, <4>4, <4>6 DEF OwnerExact
      <4> QED BY <2>2, <4>1, <4>3, <4>7 DEF M!PassOn
    <3> QED BY <1>3, <3>1, <3>2
  <2>4. CASE cond[t] = NoCond
    <3>1. \A c \in Cond : Sleepers(c)' = Sleepers(c)
      BY <1>0, <2>1, <2>4 DEF Sleepers, FallingAsleep
    <3>2. M!Release(t, m)
      BY <2>2, <2>3, <3>1 DEF M!Release
    <3> QED BY <2>2, <3>2 DEF M!MonitorNext
  <2>5. CASE cond[t] # NoCond
    <3> SUFFICES ASSUME NEW c \in Cond, c = cond[t] PROVE M!MonitorNext
      BY <1>0, <2>5
    <3>1. \A x \in Cond : (FallingAsleep(x) <=> x = c) /\ ~ FallingAsleep(x)'
      BY <1>0, <2>1 DEF FallingAsleep
    <3>2. cwaitqueue[c] = Append(Front(cwaitqueue[c]), t)
      BY <1>0, <2>1, <3>1, FrontAndLast DEF QueuesSound
    <3>3. /\ Sleepers(c)' = Append(Sleepers(c), t)
          /\ \A x \in Cond \ {c} : Sleepers(x)' = Sleepers(x)
      BY <2>1, <3>1, <3>2 DEF Sleepers
    <3>4. ~ M!Waiting(t)
      BY <1>0, <2>1, <3>1, UnlinkedNotWaiting DEF QueuesMatchOps, LockWaits
    <3>5. M!Wait(t, c, m)
      BY <2>2, <2>3, <3>3, <3>4 DEF M!Wait
    <3> QED BY <2>2, <3>5 DEF M!MonitorNext
  <2> QED BY <2>4, <2>5
<1>4. CASE SignalWake(t) \/ BroadcastSplice(t)
  <2> SUFFICES ASSUME NEW c, c = cond[t] PROVE M!MonitorNext
    OBVIOUS
  <2>1. /\ current = t /\ op[t] \in {"cs_test", "cb_splice"}
        /\ op' = [op EXCEPT ![t] = IF op[t] = "cs_test" THEN "cs_done" ELSE "cb_spliced"]
        /\ UNCHANGED <<current, locked, mtx, cond, holds, waitqueue>>
    BY <1>4 DEF SignalWake, BroadcastSplice, At, Step, threadVars, thread_activate
  <2>2. c \in Cond
    BY <1>0, <2>1 DEF ArgsMatchOps, LockWaits
  <2>3. \A x \in Mutex : Owner(x)' = Owner(x)
    <3>1. \A u \in Thread, x \in Mutex : Owns(u, x) => Owns(u, x)'
      BY <1>0, <2>1 DEF Owns
    <3> QED BY <2>1, <3>1 DEF OwnerExact
  <2>4. \A x \in Cond : Sleepers(x) = cwaitqueue[x] /\ Sleepers(x)' = cwaitqueue'[x]
    BY <1>0, <2>1 DEF Sleepers, FallingAsleep
  <2>5. CASE SignalWake(t)
    <3>1. /\ cwaitqueue[c] # <<>>
          /\ cwaitqueue' = [cwaitqueue EXCEPT ![c] = Tail(@)]
      BY <2>5 DEF SignalWake
    <3>2. M!Signal(c)
      BY <1>0, <2>1, <2>2, <2>3, <2>4, <3>1 DEF M!Signal
    <3> QED BY <2>2, <3>2 DEF M!MonitorNext
  <2>6. CASE BroadcastSplice(t)
    <3>1. cwaitqueue' = [cwaitqueue EXCEPT ![c] = <<>>]
      BY <2>6 DEF BroadcastSplice
    <3>2. M!Broadcast(c)
      BY <1>0, <2>1, <2>2, <2>3, <2>4, <3>1 DEF M!Broadcast
    <3> QED BY <2>2, <3>2 DEF M!MonitorNext
  <2> QED BY <1>4, <2>5, <2>6
<1> QED BY <1>1, <1>2, <1>3, <1>4

\* All other steps leave the monitor alone.
LEMMA QuietSteps ==
    ASSUME MainNeverBlocks, SyncInv, SyncInv', NEW t \in Thread,
           \/ Interrupt \/ Supervise \/ Outside(t)
           \/ LockReturn(t) \/ WaitQueue(t) \/ BroadcastWake(t)
           \/ \E m \in Mutex : MutexUnlock(t, m)
    PROVE  SameMonitor
<1>0. /\ current \in Thread /\ current' \in Thread /\ op \in [Thread -> Ops]
      /\ mtx \in [Thread -> Mutex \cup {NoMutex}]
      /\ cond \in [Thread -> Cond \cup {NoCond}]
      /\ holds \in [Thread -> SUBSET Mutex]
      /\ cwaitqueue \in [Cond -> Seq(Thread)]
      /\ ArgsMatchOps /\ QueuesMatchOps /\ OpsMatchScheduler /\ ThreadsInv
  BY DEF SyncInv, SyncTypeOK, ThreadsTypeOK
<1>1. CASE Interrupt \/ Supervise \/ Outside(t)
  <2>1. /\ UNCHANGED <<locked, waitqueue, cwaitqueue, op, mtx, cond, list, holds>>
        /\ current' = current \/ preempt_cnt = 0
    BY <1>1, OutsideEffect DEF syncVars
  <2>2. current' # current => op[current] \in Preemptible /\ op[current'] \in Preemptible
    BY <1>0, <2>1 DEF OpsMatchScheduler, Depth
  <2>3. \A c \in Cond : FallingAsleep(c)' <=> FallingAsleep(c)
    BY <2>1, <2>2 DEF FallingAsleep, Preemptible
  <2> QED BY <2>1, <2>3 DEF SameMonitor, Sleepers, Owns
<1>2. CASE LockReturn(t)
  <2>1. /\ current = t /\ op[t] \in {"ml_taken", "ml_ret"}
        /\ op' = [op EXCEPT ![t] = "none"]
        /\ holds' = [holds EXCEPT ![t] = @ \cup {mtx[t]}]
        /\ mtx' = [mtx EXCEPT ![t] = NoMutex]
        /\ UNCHANGED <<current, locked, waitqueue, cwaitqueue, cond>>
    BY <1>2 DEF LockReturn, At, Step, threadVars, Unlock
  <2>2. mtx[t] \in Mutex
    BY <1>0, <2>1 DEF ArgsMatchOps
  <2>3. ~ Contains(waitqueue[mtx[t]], t)
    BY <1>0, <2>1, <2>2 DEF QueuesMatchOps, OpsMatchScheduler, BeforeSchedule,
         ThreadsInv, NoRunWhileBlocked
  <2>4. \A u \in Thread, x \in Mutex : Owns(u, x)' <=> Owns(u, x)
    BY <1>0, <2>1, <2>2, <2>3 DEF Owns
  <2>5. \A c \in Cond : ~ FallingAsleep(c) /\ ~ FallingAsleep(c)'
    BY <1>0, <2>1 DEF FallingAsleep
  <2> QED BY <2>1, <2>4, <2>5 DEF SameMonitor, Sleepers
<1>3. CASE WaitQueue(t)
  <2> SUFFICES ASSUME NEW c, c = cond[t] PROVE SameMonitor
    OBVIOUS
  <2>1. /\ current = t /\ op[t] = "cw_queue" /\ op' = [op EXCEPT ![t] = "cw_unlock"]
        /\ cwaitqueue' = [cwaitqueue EXCEPT ![c] = Append(@, t)]
        /\ UNCHANGED <<current, locked, waitqueue, mtx, cond, holds>>
    BY <1>3 DEF WaitQueue, At, Step, MarkBlocked
  <2>2. c \in Cond
    BY <1>0, <2>1 DEF ArgsMatchOps, LockWaits
  <2>3. \A x \in Cond : ~ FallingAsleep(x) /\ (FallingAsleep(x)' <=> x = c)
    BY <1>0, <2>1 DEF FallingAsleep
  <2>4. /\ Front(cwaitqueue'[c]) = cwaitqueue[c]
        /\ \A x \in Cond \ {c} : cwaitqueue'[x] = cwaitqueue[x]
    BY <1>0, <2>1, <2>2, FrontOfAppend
  <2>5. \A x \in Cond : Sleepers(x)' = Sleepers(x)
    BY <2>3, <2>4 DEF Sleepers
  <2>6. \A u \in Thread, x \in Mutex : Owns(u, x)' <=> Owns(u, x)
    BY <1>0, <2>1 DEF Owns
  <2> QED BY <2>1, <2>5, <2>6 DEF SameMonitor
<1>4. CASE BroadcastWake(t)
  BY <1>4 DEF BroadcastWake, thread_activate, SameMonitor, Owns, Sleepers, FallingAsleep
<1>5. ASSUME NEW m \in Mutex, MutexUnlock(t, m) PROVE SameMonitor
  <2>1. /\ current = t
        /\ \/ op[t] = "none" /\ m \in holds[t]
           \/ op[t] = "cw_unlock" /\ m = mtx[t]
        /\ op' = [op EXCEPT ![t] = "mu_test"]
        /\ mtx' = [mtx EXCEPT ![t] = m]
        /\ holds' = [holds EXCEPT ![t] = @ \ {m}]
        /\ UNCHANGED <<current, locked, waitqueue, cwaitqueue, cond>>
    BY <1>5 DEF MutexUnlock, Free, At, Step, Lock
  <2>2. m \in holds[t]
    BY <1>0, <2>1 DEF ArgsMatchOps
  <2>3. \A u \in Thread, x \in Mutex : Owns(u, x)' <=> Owns(u, x)
    BY <1>0, <2>1, <2>2 DEF Owns
  <2>4. \A c \in Cond : FallingAsleep(c)' <=> FallingAsleep(c)
    BY <1>0, <2>1 DEF FallingAsleep, ArgsMatchOps
  <2> QED BY <2>1, <2>3, <2>4 DEF SameMonitor, Sleepers
<1> QED BY <1>1, <1>2, <1>3, <1>4, <1>5

\* Each step of the system is a step of the monitor or leaves it alone.
LEMMA StepRefinesMonitor ==
    ASSUME MainNeverBlocks, SyncInv, SyncInv', OwnerExact, OwnerExact', [Next]_vars
    PROVE  [M!MonitorNext]_(M!monitorVars)
<1>1. CASE UNCHANGED vars
  <2>1. SameMonitor
    BY <1>1 DEF vars, syncVars, threadVars, SameMonitor, Owns, Sleepers, FallingAsleep
  <2> QED BY <2>1, SameMonitorStutters
<1>2. CASE Interrupt \/ Supervise \/ \E t \in Thread : Outside(t)
  BY <1>2, QuietSteps, SameMonitorStutters
<1>3. ASSUME NEW t \in Thread, Call(t) \/ InOperation(t)
      PROVE  M!MonitorNext \/ SameMonitor
  <2>1. ThreadsInv'
    BY DEF SyncInv
  <2> QED BY <1>3, <2>1, MonitorSteps, QuietSteps, MoveInv DEF Call, InOperation
<1> QED BY <1>1, <1>2, <1>3, SameMonitorStutters DEF Next

(***************************************************************************)
(* mutex.c and condition.c implement the monitor: a mutex goes to those    *)
(* who wait for it in the order they came, and condition_wait() releases   *)
(* it and falls asleep as if in one step.                                  *)
(***************************************************************************)
THEOREM MonitorImplemented ==
    ASSUME MainNeverBlocks
    PROVE  Spec => ImplementsMonitor
<1>1. ASSUME SyncInit PROVE M!MonitorInit
  <2>1. /\ locked = [m \in Mutex |-> FALSE]
        /\ waitqueue = [m \in Mutex |-> <<>>]
        /\ cwaitqueue = [c \in Cond |-> <<>>]
        /\ current \in Thread /\ op = [t \in Thread |-> "none"]
    BY <1>1 DEF SyncInit, ThreadsInit
  <2>2. \A m \in Mutex : Owner(m) = NoThread
    BY <1>1, <2>1, InvOwnerExact, SyncInitInv DEF OwnerExact
  <2>3. \A c \in Cond : Sleepers(c) = <<>>
    BY <2>1 DEF Sleepers, FallingAsleep
  <2> QED BY <2>1, <2>2, <2>3 DEF M!MonitorInit
<1>2. /\ SyncInv /\ SyncInv' /\ OwnerExact /\ OwnerExact' /\ [Next]_vars
      => [M!MonitorNext]_(M!monitorVars)
  BY StepRefinesMonitor
<1>3. SyncInv => OwnerExact
  BY InvOwnerExact
<1> QED BY <1>1, <1>2, <1>3, SyncInvariant, PTL DEF Spec, ImplementsMonitor, M!MonitorSpec
=============================================================================
