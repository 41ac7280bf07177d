------------------------------ MODULE Monitor ------------------------------
(***************************************************************************)
(* What mutexes and condition variables promise, without scheduler, spin   *)
(* locks or run queue: a mutex has at most one owner, those who wait for   *)
(* it get it in the order they came, and waiting on a condition releases   *)
(* the mutex and goes to sleep in one step, so that a signal given by the  *)
(* next owner of the mutex finds the sleeper.                              *)
(***************************************************************************)
EXTENDS Sequences, SequencesExt

CONSTANTS Thread, Mutex, Cond, NoThread

VARIABLES owner,      \* owner[m]: who has mutex m, or NoThread
          entry,      \* entry[m]: threads waiting for mutex m, first first
          sleepers    \* sleepers[c]: threads asleep on condition c

monitorVars == <<owner, entry, sleepers>>

MonitorInit ==
    /\ owner = [m \in Mutex |-> NoThread]
    /\ entry = [m \in Mutex |-> <<>>]
    /\ sleepers = [c \in Cond |-> <<>>]

Waiting(t) ==
    \/ \E m \in Mutex : Contains(entry[m], t)
    \/ \E c \in Cond : Contains(sleepers[c], t)

Acquire(t, m) ==
    /\ ~ Waiting(t)
    /\ owner[m] = NoThread
    /\ owner' = [owner EXCEPT ![m] = t]
    /\ UNCHANGED <<entry, sleepers>>

Enter(t, m) ==
    /\ ~ Waiting(t)
    /\ owner[m] \notin {NoThread, t}
    /\ entry' = [entry EXCEPT ![m] = Append(@, t)]
    /\ UNCHANGED <<owner, sleepers>>

\* The mutex goes to the first thread that waits for it, if there is one.
PassOn(m) ==
    IF entry[m] = <<>>
    THEN /\ owner' = [owner EXCEPT ![m] = NoThread]
         /\ UNCHANGED entry
    ELSE /\ owner' = [owner EXCEPT ![m] = Head(entry[m])]
         /\ entry' = [entry EXCEPT ![m] = Tail(@)]

Release(t, m) ==
    /\ owner[m] = t
    /\ PassOn(m)
    /\ UNCHANGED sleepers

Wait(t, c, m) ==
    /\ ~ Waiting(t)
    /\ owner[m] = t
    /\ PassOn(m)
    /\ sleepers' = [sleepers EXCEPT ![c] = Append(@, t)]

Signal(c) ==
    /\ sleepers[c] # <<>>
    /\ sleepers' = [sleepers EXCEPT ![c] = Tail(@)]
    /\ UNCHANGED <<owner, entry>>

Broadcast(c) ==
    /\ sleepers' = [sleepers EXCEPT ![c] = <<>>]
    /\ UNCHANGED <<owner, entry>>

MonitorNext ==
    \/ \E t \in Thread, m \in Mutex :
         \/ Acquire(t, m) \/ Enter(t, m) \/ Release(t, m)
         \/ \E c \in Cond : Wait(t, c, m)
    \/ \E c \in Cond : Signal(c) \/ Broadcast(c)

MonitorSpec == MonitorInit /\ [][MonitorNext]_monitorVars
=============================================================================
