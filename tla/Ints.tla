-------------------------------- MODULE Ints --------------------------------
(***************************************************************************)
(* Interrupts: ints.c, the interrupt controllers of i8259a.c, the timer of *)
(* time.c and what threads.c does to the interrupt flag.                   *)
(*                                                                         *)
(* Two controllers of PIC_IRQS lines each, the second behind line 2 of the *)
(* first: a line that is raised is latched in irr, delivered when no line  *)
(* of its or a higher priority is in service, and in service (isr) until   *)
(* it is acknowledged.  Interrupt gates clear the interrupt flag.  The     *)
(* code between an interrupt and its iret runs with that flag clear, so a  *)
(* step of it is everything up to the next place where another thread may  *)
(* be switched to.                                                         *)
(*                                                                         *)
(* pic_mask() and pic_unmask() take no lock and leave the flag alone: a    *)
(* thread that calls them loads pic_irq_mask, stores it, loads it again    *)
(* and writes it to a controller in four steps (built without              *)
(* optimisation), with ticks and other threads' updates in between.        *)
(***************************************************************************)
EXTENDS Integers, Sequences

CONSTANTS Line,         \* lines with a device: PIT_IRQ and those of drivers
          CPUThread,    \* threads
          BootThread    \* the one that runs main()

PIT_IRQ == 0
PIC_IRQS == 8
PIC_SLAVE_IRQ == 2
IRQS == 16
ERRORS == 32
PIC_OFFSET == ERRORS
IRQ == 0 .. IRQS - 1

ASSUME IntsAssumption ==
    /\ PIT_IRQ \in Line /\ Line \subseteq IRQ \ {PIC_SLAVE_IRQ}
    /\ BootThread \in CPUThread

VARIABLES irq_handler,   \* lines with a handler
          pic_irq_mask,  \* the variable of i8259a.c: masked lines
          imr,           \* the controllers' masks
          irr, isr,      \* their requests, and lines in service
          offset,        \* the first vector of each controller
          iflag,         \* RFLAGS.IF
          running,       \* the thread on the CPU
          where,         \* where each thread is
          intno,         \* of the interrupt just taken
          update,        \* the update of the mask each thread is in
          ready,         \* threads_setup() is done
          hung,          \* unexpected_interrupt(), or a fault in a handler
          stage,         \* calls of main() that have returned
          overlap,       \* history: updates in progress have overlapped
          stale          \* history: lines whose controller may have missed one

maskVars == <<pic_irq_mask, imr, update, overlap, stale>>

intVars == <<irq_handler, pic_irq_mask, imr, irr, isr, offset, iflag, running,
             where, intno, update, ready, hung, stage, overlap, stale>>

\* "code"; "locked": between spin_lock_irqsave() and its end; "entry": on the
\* way to __int_handler(); "timer" and "driver": in a handler; "return": on the
\* way to iret; "sched": switched away in a schedule() of its own; "new":
\* before thread_entry().
Wheres == {"code", "locked", "entry", "timer", "driver", "return", "sched", "new"}

\* What a thread in pic_mask() or pic_unmask() does next, of which line, and the
\* mask it has in a register.
Update == [next : {"none", "store", "reload", "out"}, irq : IRQ, mask : SUBSET IRQ]
NoUpdate == [next |-> "none", irq |-> 0, mask |-> {}]

IntsInit ==
    /\ irq_handler = {}
    /\ pic_irq_mask = IRQ \ {PIC_SLAVE_IRQ}
    /\ imr = {} /\ irr = {} /\ isr = {}
    /\ offset = [master |-> 8, slave |-> 112]   \* as the BIOS leaves them
    /\ iflag = FALSE
    /\ running = BootThread
    /\ where = [t \in CPUThread |-> IF t = BootThread THEN "code" ELSE "new"]
    /\ intno = 0
    /\ update = [t \in CPUThread |-> NoUpdate]
    /\ ready = FALSE
    /\ hung = FALSE
    /\ stage = 0
    /\ overlap = FALSE /\ stale = {}

-----------------------------------------------------------------------------
(* The controllers *)

IsMaster(l) == l < PIC_IRQS
Input(l) == IF IsMaster(l) THEN l ELSE PIC_SLAVE_IRQ
ChipOf(l) == {k \in IRQ : IsMaster(k) = IsMaster(l)}

\* A request of line l would be passed on.
Passes(l) ==
    /\ l \notin imr /\ Input(l) \notin imr
    /\ \A k \in isr : /\ IsMaster(k) => Input(l) < k
                      /\ ~ IsMaster(k) /\ ~ IsMaster(l) => l < k

\* The request that comes first.
Delivered(l) ==
    /\ l \in irr /\ Passes(l)
    /\ \A k \in irr : Passes(k) => Input(l) < Input(k) \/ (Input(l) = Input(k) /\ l <= k)

Vector(l) == IF IsMaster(l) THEN offset.master + l ELSE offset.slave + l - PIC_IRQS

Raise(l) ==
    /\ irr' = irr \cup {l}
    /\ UNCHANGED <<irq_handler, maskVars, isr, offset, iflag, running, where,
                   intno, ready, hung>>

\* The first command resets a controller; the masks are written last.
pic_setup(first) ==
    /\ offset' = [master |-> first, slave |-> first + PIC_IRQS]
    /\ irr' = {} /\ isr' = {}
    /\ imr' = pic_irq_mask

\* The masks pic_mask() and pic_unmask() of line l compute from one they load.
pic_mask(mask, l) == mask \cup {l}
pic_unmask(mask, l) == mask \ {l}

\* Both write the mask of the line's controller only.
WriteMask(l, mask) == imr' = (imr \ ChipOf(l)) \cup (mask \cap ChipOf(l))

\* Wrong: the line of the second controller is not acknowledged (mutant).
pic_ack_one(service, l) == service \ {l}

\* What is in service after pic_ack().
pic_ack(service, l) == service \ {l, Input(l)}

-----------------------------------------------------------------------------
(* Interrupts *)

At(t, label) == where' = [where EXCEPT ![t] = label]

\* The CPU takes an interrupt: the flag is cleared, the request in service.
Interrupt(l) ==
    /\ iflag /\ ~ hung /\ Delivered(l)
    /\ iflag' = FALSE
    /\ irr' = irr \ {l}
    /\ isr' = isr \cup {l, Input(l)}
    /\ intno' = Vector(l)
    /\ At(running, "entry")
    /\ UNCHANGED <<irq_handler, maskVars, offset, running, ready, hung>>

\* __int_handler() acknowledges the interrupt and calls its handler.
int_handler ==
    LET irq == intno - ERRORS
        known == irq \in irq_handler
    IN  /\ ~ hung /\ where[running] = "entry"
        /\ isr' = IF known THEN pic_ack(isr, irq) ELSE isr
        /\ hung' = ~ known
        /\ At(running, IF irq = PIT_IRQ THEN "timer" ELSE "driver")
        /\ intno' = 0
        /\ UNCHANGED <<irq_handler, maskVars, irr, offset, iflag, running, ready>>

\* A handler returns.  pit_handler() calls schedule(), which needs `current`.
HandlerReturn ==
    /\ ~ hung /\ where[running] \in {"timer", "driver"}
    /\ hung' = (where[running] = "timer" /\ ~ ready)
    /\ At(running, "return")
    /\ UNCHANGED <<irq_handler, maskVars, intno, irr, isr, offset, iflag,
                   running, ready>>

\* schedule() in pit_handler() switches to another thread.
TimerSwitch(u) ==
    /\ ~ hung /\ where[running] = "timer" /\ ready
    /\ u # running
    /\ running' = u
    /\ At(running, "return")
    /\ UNCHANGED <<irq_handler, maskVars, intno, irr, isr, offset, iflag,
                   ready, hung>>

\* iret restores the flag, which was set when the interrupt came.
Iret ==
    /\ ~ hung /\ where[running] = "return"
    /\ iflag' = TRUE
    /\ At(running, "code")
    /\ UNCHANGED <<irq_handler, maskVars, intno, irr, isr, offset, running,
                   ready, hung>>

-----------------------------------------------------------------------------
(* Threads *)

InCode == ~ hung /\ where[running] = "code" /\ iflag /\ update[running] = NoUpdate

\* force_schedule() or schedule() of a thread; its callers have interrupts on.
Yield(u) ==
    /\ InCode /\ ready
    /\ u # running
    /\ running' = u
    /\ iflag' = FALSE
    /\ At(running, "sched")
    /\ UNCHANGED <<irq_handler, maskVars, intno, irr, isr, offset, ready, hung>>

\* The end of that schedule(): if (enable) enable_ints().
YieldReturn ==
    /\ ~ hung /\ where[running] = "sched"
    /\ iflag' = TRUE
    /\ At(running, "code")
    /\ UNCHANGED <<irq_handler, maskVars, intno, irr, isr, offset, running,
                   ready, hung>>

\* Wrong: interrupts are not enabled (mutant).
thread_entry_disabled ==
    /\ ~ hung /\ where[running] = "new"
    /\ At(running, "code")
    /\ UNCHANGED <<irq_handler, maskVars, intno, irr, isr, offset, iflag,
                   running, ready, hung>>

\* A thread starts with interrupts disabled.
thread_entry ==
    /\ ~ hung /\ where[running] = "new"
    /\ iflag' = TRUE
    /\ At(running, "code")
    /\ UNCHANGED <<irq_handler, maskVars, intno, irr, isr, offset, running,
                   ready, hung>>

spin_lock_irqsave ==
    /\ InCode
    /\ iflag' = FALSE
    /\ At(running, "locked")
    /\ UNCHANGED <<irq_handler, maskVars, intno, irr, isr, offset, running,
                   ready, hung>>

spin_unlock_irqrestore ==
    /\ ~ hung /\ where[running] = "locked"
    /\ iflag' = TRUE
    /\ At(running, "code")
    /\ UNCHANGED <<irq_handler, maskVars, intno, irr, isr, offset, running,
                   ready, hung>>

-----------------------------------------------------------------------------
(* Setting up *)

ints_setup ==
    /\ pic_setup(PIC_OFFSET)
    /\ UNCHANGED <<irq_handler, pic_irq_mask, update, overlap, stale, iflag,
                   running, where, intno, ready, hung>>

\* Interrupts are still disabled: the mask is changed and written at once.
time_setup ==
    /\ irq_handler' = irq_handler \cup {PIT_IRQ}
    /\ pic_irq_mask' = pic_unmask(pic_irq_mask, PIT_IRQ)
    /\ WriteMask(PIT_IRQ, pic_irq_mask')
    /\ UNCHANGED <<update, overlap, stale, irr, isr, offset, iflag, running, where,
                   intno, ready, hung>>

threads_setup ==
    /\ ready' = TRUE
    /\ UNCHANGED <<irq_handler, maskVars, intno, irr, isr, offset, iflag,
                   running, where, hung>>

enable_ints ==
    /\ iflag' = TRUE
    /\ UNCHANGED <<irq_handler, maskVars, intno, irr, isr, offset, running,
                   where, ready, hung>>

\* Wrong: interrupts are enabled as soon as there is a timer (mutant).
CallsEarly == <<"ints_setup", "time_setup", "enable_ints", "paging_setup",
                "kmap_setup", "threads_setup">>

\* The order of main(); the calls that matter neither here nor in Boot.tla are
\* left out.
Calls == <<"ints_setup", "time_setup", "paging_setup", "kmap_setup",
           "threads_setup", "enable_ints">>

Up == stage = Len(Calls)

MainCall ==
    /\ ~ Up /\ ~ hung /\ running = BootThread /\ where[BootThread] = "code"
    /\ stage' = stage + 1
    /\ \/ Calls[stage + 1] = "ints_setup" /\ ints_setup
       \/ Calls[stage + 1] = "time_setup" /\ time_setup
       \/ Calls[stage + 1] = "threads_setup" /\ threads_setup
       \/ Calls[stage + 1] = "enable_ints" /\ enable_ints
       \/ /\ Calls[stage + 1] \in {"paging_setup", "kmap_setup"}
          /\ UNCHANGED <<irq_handler, maskVars, intno, irr, isr, offset, iflag,
                         running, where, ready, hung>>

-----------------------------------------------------------------------------
(* Drivers register a handler before they activate its line. *)

register_irq_handler(l) ==
    /\ InCode
    /\ irq_handler' = irq_handler \cup {l}
    /\ UNCHANGED <<maskVars, irr, isr, offset, iflag, running, where, intno, ready,
                   hung>>

Updating(t) == update[t].next # "none"

\* pic_irq_mask is loaded and the line's bit changed in a register.
BeginUpdate(l, mask) ==
    /\ update' = [update EXCEPT ![running] = [next |-> "store", irq |-> l, mask |-> mask]]
    /\ overlap' = \E t \in CPUThread : Updating(t)
    /\ stale' = IF overlap' THEN IRQ ELSE stale
    /\ UNCHANGED <<irq_handler, pic_irq_mask, imr, irr, isr, offset, iflag, running,
                   where, intno, ready, hung>>

activate_irq(l) ==
    /\ InCode /\ l \in irq_handler
    /\ BeginUpdate(l, pic_unmask(pic_irq_mask, l))

deactivate_irq(l) ==
    /\ InCode /\ l # PIT_IRQ
    /\ BeginUpdate(l, pic_mask(pic_irq_mask, l))

AtUpdate(next) ==
    /\ ~ hung /\ where[running] = "code" /\ iflag
    /\ update[running].next = next
    /\ UNCHANGED <<irq_handler, irr, isr, offset, iflag, running, where, intno,
                   ready, hung>>

MaskStore ==
    /\ AtUpdate("store")
    /\ pic_irq_mask' = update[running].mask
    /\ update' = [update EXCEPT ![running].next = "reload"]
    /\ UNCHANGED <<imr, overlap, stale>>

\* The mask is loaded again for out8().
MaskReload ==
    /\ AtUpdate("reload")
    /\ update' = [update EXCEPT ![running].next = "out", ![running].mask = pic_irq_mask]
    /\ UNCHANGED <<pic_irq_mask, imr, overlap, stale>>

MaskOut ==
    /\ AtUpdate("out")
    /\ WriteMask(update[running].irq, update[running].mask)
    /\ update' = [update EXCEPT ![running] = NoUpdate]
    /\ stale' = IF overlap THEN stale ELSE stale \ ChipOf(update[running].irq)
    /\ overlap' = (overlap /\ \E t \in CPUThread \ {running} : Updating(t))
    /\ UNCHANGED pic_irq_mask

\* What goes on by itself once the code has got there.
Proceed ==
    \/ int_handler \/ HandlerReturn \/ Iret \/ YieldReturn \/ thread_entry
    \/ spin_unlock_irqrestore
    \/ \E u \in CPUThread : TimerSwitch(u)

Activity ==
    /\ \/ Proceed
       \/ \E l \in Line :
            \/ Raise(l) \/ Interrupt(l)
            \/ register_irq_handler(l) \/ activate_irq(l) \/ deactivate_irq(l)
       \/ \E u \in CPUThread : Yield(u)
       \/ spin_lock_irqsave
       \/ MaskStore \/ MaskReload \/ MaskOut
    /\ UNCHANGED stage

IntsNext == MainCall \/ Activity

IntsSpec == IntsInit /\ [][IntsNext]_intVars

-----------------------------------------------------------------------------
(* Properties *)

IntsTypeOK ==
    /\ irq_handler \subseteq IRQ /\ pic_irq_mask \subseteq IRQ
    /\ imr \subseteq IRQ /\ irr \subseteq IRQ /\ isr \subseteq IRQ /\ stale \subseteq IRQ
    /\ iflag \in BOOLEAN /\ ready \in BOOLEAN /\ hung \in BOOLEAN /\ overlap \in BOOLEAN
    /\ running \in CPUThread /\ where \in [CPUThread -> Wheres] /\ intno \in Nat
    /\ update \in [CPUThread -> Update]
    /\ stage \in 0 .. Len(Calls)

(***************************************************************************)
(* No interrupt comes that the kernel cannot take: none at a vector of the *)
(* CPU's exceptions or without a handler (ints.c:51, 59), and no tick      *)
(* before there is a current thread, though the timer is activated early   *)
(* in main() (main.c:315, time.c:60).                                      *)
(***************************************************************************)
NoUnexpectedInterrupt == ~ hung

\* A line that no thread is just masking or unmasking, and whose controller was
\* last written by an update that overlapped with no other.
Settled(l) ==
    l \notin stale /\ \A t \in CPUThread : Updating(t) => update[t].irq # l

(***************************************************************************)
(* Whenever interrupts are enabled no line is in service, whichever thread *)
(* that is and however it came to run.  pit_handler() may switch to a      *)
(* thread that enables interrupts long before its own iret, so the         *)
(* acknowledgement must come first and reach both controllers (ints.c:64,  *)
(* i8259a.c:57-59).  The tick gets through whatever updates of the mask    *)
(* race, and a settled line just when pic_irq_mask says so: no interrupt   *)
(* or switch of threads in the middle of an update can lose it, and one    *)
(* that runs alone makes good what racing ones left of its controller.     *)
(* Updates that overlap may lose each other, as nothing protects           *)
(* pic_irq_mask (i8259a.c:39-43, 48-52): of their lines nothing is said.   *)
(***************************************************************************)
LinesOpenWhenEnabled ==
    /\ IntsTypeOK
    /\ iflag /\ ready =>
         /\ isr = {}
         /\ Passes(PIT_IRQ)
         /\ \A l \in Line : Settled(l) => (Passes(l) <=> l \notin pic_irq_mask)

(***************************************************************************)
(* A timer interrupt that is raised is taken, whatever threads were        *)
(* switched to: interrupts do not stay disabled and the line does not stay *)
(* in service (threads.c:87, 205, ints.c:64).                              *)
(***************************************************************************)
TicksGoOn == PIT_IRQ \in irr ~> PIT_IRQ \notin irr

-----------------------------------------------------------------------------
(* The inductive invariant *)

\* What main() has set up so far; until it is done nothing else runs.
BootOrder ==
    /\ ~ Up => /\ running = BootThread /\ where[BootThread] = "code" /\ ~ iflag
               /\ \A t \in CPUThread : ~ Updating(t)
    /\ ready <=> stage >= 5
    /\ stage >= 1 => offset = [master |-> PIC_OFFSET, slave |-> PIC_OFFSET + PIC_IRQS]

\* Interrupts are enabled just where the running thread may be interrupted, and
\* the others are where schedule() left them.
FlagMatchesCode ==
    /\ Up => (iflag <=> where[running] = "code")
    /\ \A t \in CPUThread \ {running} : where[t] \in {"new", "sched", "return"}

\* A mask that a controller may be given, however updates race: only lines with
\* a handler are open, and the second controller and the timer always are.
MaskSound(mask) ==
    /\ PIC_SLAVE_IRQ \notin mask
    /\ Line \ mask \subseteq irq_handler
    /\ stage >= 2 => PIT_IRQ \notin mask

\* Every mask is sound, and only an interrupt not yet acknowledged is in service.
LinesHandled ==
    /\ irr \subseteq Line
    /\ IF where[running] = "entry"
       THEN \E l \in Line \cap irq_handler : intno = ERRORS + l /\ isr = {l, Input(l)}
       ELSE isr = {}
    /\ MaskSound(pic_irq_mask)
    /\ stage >= 1 => MaskSound(imr)
    /\ \A t \in CPUThread : Updating(t) => MaskSound(update[t].mask)

\* A controller has the variable's mask of every line that is settled, as an
\* update that runs alone has a mask that differs in its own line at most.
MasksAgree ==
    /\ stage >= 1 => \A l \in IRQ : Settled(l) => (l \in imr <=> l \in pic_irq_mask)
    /\ \A t \in CPUThread : Updating(t) =>
         \/ stale = IRQ /\ overlap
         \/ /\ ~ overlap
            /\ \A u \in CPUThread \ {t} : ~ Updating(u)
            /\ update[t].next = "store" =>
                 \A l \in IRQ \ {update[t].irq} : l \in update[t].mask <=> l \in pic_irq_mask
            /\ update[t].next = "out" => update[t].mask = pic_irq_mask

(***************************************************************************)
(* NoUnexpectedInterrupt depends on what main() has done by the time       *)
(* interrupts are first enabled, and afterwards on every line in service   *)
(* being acknowledged before any thread can enable them again, and on      *)
(* every mask some thread is still about to store or write.                *)
(***************************************************************************)
IntsInv ==
    /\ IntsTypeOK
    /\ NoUnexpectedInterrupt
    /\ BootOrder
    /\ FlagMatchesCode
    /\ LinesHandled
    /\ MasksAgree
=============================================================================
