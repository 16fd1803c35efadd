-------------------------- MODULE CriticalSection --------------------------
(***************************************************************************)
(* The critical section of the target: hal::concurrency_policy over        *)
(* hal::disable_interrupts and hal::enable_interrupts, on one Cortex-M4    *)
(* core with the main program and interrupt handlers of several            *)
(* priorities.                                                             *)
(*                                                                         *)
(* disable_count counts the nested locks; PRIMASK is the hardware bit that *)
(* really masks interrupts, set by the lock that moves the count from zero *)
(* and cleared by the unlock that moves it back.  The count and the bit    *)
(* are written by different instructions, and an interrupt can come in     *)
(* between.                                                                *)
(***************************************************************************)
EXTENDS Integers, Sequences, FiniteSets

CONSTANTS
    Main,           \* the main program
    Isrs,           \* the interrupt handlers
    Prio,           \* NVIC priority of each handler, 0 the most urgent
    MaxDepth,       \* bound: locks nested in one context
    BootInterrupts, \* TRUE: a peripheral may request before the boot is over
    BootMask        \* PRIMASK when app_run starts

ASSUME CSAssumption ==
    /\ Main \notin Isrs /\ IsFiniteSet(Isrs)
    /\ Prio \in [Isrs -> 0..15]
    /\ MaxDepth \in Nat \ {0}
    /\ BootInterrupts \in BOOLEAN
    /\ BootMask \in BOOLEAN

Contexts == Isrs \cup {Main}

VARIABLES
    count,      \* disable_count
    primask,    \* the core's PRIMASK bit
    active,     \* the contexts on the core's stack, the running one first
    pc,         \* "run", or between a change of the count and its cpsid/cpsie
    depth,      \* locks each context holds
    boot,       \* "irqs_off", "irqs_on" (interrupt_manager.init), "enabled"
    waiting,    \* Main is in call_in_critical_section with a predicate
    event       \* what the predicate reads: some handler has signalled

vars == <<count, primask, active, pc, depth, boot, waiting, event>>

Running(c) == Head(active) = c
Level(c) == IF c = Main THEN 16 ELSE Prio[c]

\* Inside a critical section.
Inside(c) == depth[c] > 0

-----------------------------------------------------------------------------
(***************************************************************************)
(* disable_interrupts and enable_interrupts                                *)
(***************************************************************************)

\* the lock is taken
Enter(c) == depth' = [depth EXCEPT ![c] = @ + 1]

\* Seeded fault: the first lock counts and does not mask.
NeedsMask_Never(old) == FALSE

\* only the lock that finds the count at zero masks
NeedsMask(old) == old = 0

\* Seeded fault: the inner unlock unmasks.
NeedsUnmask_Always(old) == TRUE

\* Seeded fault: the outermost unlock leaves the mask set.
NeedsUnmask_Never(old) == FALSE

\* only the unlock that brings the count back to zero unmasks
NeedsUnmask(old) == old = 1

\* Seeded fault: the count is a flag, set again by a nested lock.
FetchAdd_Flag(c) ==
    /\ count' = 1
    /\ IF NeedsMask(count)
       THEN pc' = [pc EXCEPT ![c] = "mask"] /\ UNCHANGED depth
       ELSE Enter(c) /\ UNCHANGED pc

\* fetch_add(1), seen by c as the old value
FetchAdd(c) ==
    /\ count' = count + 1
    /\ IF NeedsMask(count)
       THEN pc' = [pc EXCEPT ![c] = "mask"] /\ UNCHANGED depth
       ELSE Enter(c) /\ UNCHANGED pc

\* fetch_sub(1)
FetchSub(c) ==
    /\ count' = count - 1
    /\ depth' = [depth EXCEPT ![c] = @ - 1]
    /\ pc' = IF NeedsUnmask(count) THEN [pc EXCEPT ![c] = "unmask"] ELSE pc

\* Main polls: it holds the lock only to look at the predicate.
Polling(c) == c = Main /\ waiting

\* A lock without predicate; or, retrying, the next turn of the loop.
Disable(c) ==
    /\ Running(c)
    /\ pc[c] = "run"
    /\ depth[c] < MaxDepth
    /\ Polling(c) => depth[c] = 0
    /\ FetchAdd(c)
    /\ UNCHANGED <<primask, active, boot, waiting, event>>

\* cpsid i
Mask(c) ==
    /\ Running(c)
    /\ pc[c] = "mask"
    /\ primask' = TRUE
    /\ Enter(c)
    /\ pc' = [pc EXCEPT ![c] = "run"]
    /\ UNCHANGED <<count, active, boot, waiting, event>>

\* the lock's destructor, after f has returned
Enable(c) ==
    /\ Running(c)
    /\ pc[c] = "run"
    /\ Inside(c)
    /\ ~Polling(c)
    /\ FetchSub(c)
    /\ UNCHANGED <<primask, active, boot, waiting, event>>

\* cpsie i
Unmask(c) ==
    /\ Running(c)
    /\ pc[c] = "unmask"
    /\ primask' = FALSE
    /\ pc' = [pc EXCEPT ![c] = "run"]
    /\ UNCHANGED <<count, active, depth, boot, waiting, event>>

-----------------------------------------------------------------------------
(***************************************************************************)
(* call_in_critical_section with a predicate, called by Main with no lock  *)
(* held: each turn takes the lock, looks, and lets go of it again.         *)
(***************************************************************************)
BeginWait ==
    /\ Running(Main)
    /\ pc[Main] = "run"
    /\ depth[Main] = 0
    /\ boot = "enabled"
    /\ ~waiting
    /\ waiting' = TRUE
    /\ UNCHANGED <<count, primask, active, pc, depth, boot, event>>

\* Seeded fault: the loop keeps the lock while the predicate is false.
Retry_Locked == UNCHANGED <<count, depth, pc>>

\* the lock goes out of scope at the end of each turn
Retry == FetchSub(Main)

\* the predicate: f runs and consumes the event, or another turn is needed
Test ==
    /\ Running(Main)
    /\ pc[Main] = "run"
    /\ waiting
    /\ depth[Main] = 1
    /\ \/ /\ event
          /\ event' = FALSE
          /\ waiting' = FALSE
          /\ UNCHANGED <<count, depth, pc>>
       \/ /\ ~event
          /\ Retry
          /\ UNCHANGED <<event, waiting>>
    /\ UNCHANGED <<primask, active, boot>>

-----------------------------------------------------------------------------
(***************************************************************************)
(* Interrupts                                                              *)
(***************************************************************************)

\* The core takes interrupt i: unmasked, enabled in the NVIC, and more
\* urgent than what is running.
Preempt(i) ==
    /\ ~primask
    /\ boot = "enabled" \/ (boot = "irqs_on" /\ BootInterrupts)
    /\ Level(i) < Level(Head(active))
    /\ active' = <<i>> \o active
    /\ UNCHANGED <<count, primask, pc, depth, boot, waiting, event>>

\* the handler makes the predicate true, under the lock
Signal(i) ==
    /\ Running(i)
    /\ pc[i] = "run"
    /\ Inside(i)
    /\ event' = TRUE
    /\ UNCHANGED <<count, primask, active, pc, depth, boot, waiting>>

\* the handler returns; it has released its locks
ReturnFromIsr(i) ==
    /\ Running(i)
    /\ pc[i] = "run"
    /\ ~Inside(i)
    /\ active' = Tail(active)
    /\ UNCHANGED <<count, primask, pc, depth, boot, waiting, event>>

-----------------------------------------------------------------------------
(***************************************************************************)
(* app_run                                                                 *)
(***************************************************************************)

\* interrupt_manager.init: irq_init enables the lines in the NVIC
InitInterrupts ==
    /\ Running(Main)
    /\ pc[Main] = "run"
    /\ ~Inside(Main)
    /\ boot = "irqs_off"
    /\ boot' = "irqs_on"
    /\ UNCHANGED <<count, primask, active, pc, depth, waiting, event>>

\* hal::enable_interrupts() before the main loop
EnableInterrupts ==
    /\ Running(Main)
    /\ pc[Main] = "run"
    /\ ~Inside(Main)
    /\ boot = "irqs_on"
    /\ boot' = "enabled"
    /\ count' = count - 1
    /\ pc' = IF NeedsUnmask(count) THEN [pc EXCEPT ![Main] = "unmask"] ELSE pc
    /\ UNCHANGED <<primask, active, depth, waiting, event>>

Init ==
    /\ count = 1
    /\ primask = BootMask
    /\ active = <<Main>>
    /\ pc = [c \in Contexts |-> "run"]
    /\ depth = [c \in Contexts |-> 0]
    /\ boot = "irqs_off"
    /\ waiting = FALSE
    /\ event = FALSE

Next == \/ \E c \in Contexts : Disable(c) \/ Mask(c) \/ Enable(c) \/ Unmask(c)
        \/ BeginWait
        \/ Test
        \/ \E i \in Isrs : Preempt(i) \/ Signal(i) \/ ReturnFromIsr(i)
        \/ InitInterrupts
        \/ EnableInterrupts

Spec == Init /\ [][Next]_vars

(***************************************************************************)
(* Fairness: the core executes the next instruction of a lock or unlock,   *)
(* and interrupts leave the main program time for its own; sections of     *)
(* every depth end, handlers return, and the boot goes on.                 *)
(***************************************************************************)
Fairness ==
    /\ WF_vars(\E c \in Contexts : Mask(c) \/ Unmask(c) \/ Enable(c))
    /\ SF_vars(Mask(Main) \/ Unmask(Main))
    /\ \A d \in 1..MaxDepth : SF_vars(\E c \in Contexts : depth[c] = d /\ Enable(c))
    /\ SF_vars(\E i \in Isrs : ReturnFromIsr(i))
    /\ SF_vars(InitInterrupts \/ EnableInterrupts)

(***************************************************************************)
(* For the wait alone: a waiting main program takes its turns; an          *)
(* interrupt is requested again and again, is taken when the mask is       *)
(* cleared again and again, and a handler takes the lock and signals.      *)
(***************************************************************************)
Waking ==
    /\ SF_vars(waiting /\ Disable(Main))
    /\ SF_vars(Test)
    /\ SF_vars(\E i \in Isrs : Preempt(i))
    /\ SF_vars(\E i \in Isrs : Disable(i))
    /\ SF_vars(\E i \in Isrs : Signal(i))

FairSpec == Spec /\ Fairness /\ Waking

-----------------------------------------------------------------------------
\* Every variable has its type; the locks never nest beyond the bound.
TypeOK ==
    /\ count \in Nat
    /\ primask \in BOOLEAN
    /\ active \in Seq(Contexts) /\ active # <<>>
    /\ pc \in [Contexts -> {"run", "mask", "unmask"}]
    /\ depth \in [Contexts -> 0..MaxDepth]
    /\ boot \in {"irqs_off", "irqs_on", "enabled"}
    /\ waiting \in BOOLEAN
    /\ event \in BOOLEAN

\* A critical section excludes every other: two contexts are never inside
\* at once (concurrency_hal.hpp:16-25, relied on by region.hpp:46-56 and
\* memory_sink.hpp:50-52).
MutualExclusion ==
    \A c, d \in Contexts : Inside(c) /\ Inside(d) => c = d

\* "initial condition is that we are disabled" (interrupt_hal.hpp:44): no
\* handler runs before app_run enables interrupts.
NoInterruptDuringBoot == boot # "enabled" => active = <<Main>>

\* What a section is protected by once the boot is over: the mask, or, for a
\* handler that broke in between Main's count and its cpsid, the fact that
\* no other handler is more urgent.
Sheltered ==
    boot = "enabled" =>
        \A c \in Contexts : Inside(c) => primask \/ (c # Main /\ pc[Main] = "mask")

\* Whatever the priorities, a section of the main program is masked, and no
\* handler is in progress during it.
MainProtected ==
    boot = "enabled" /\ Inside(Main) => primask /\ active = <<Main>>

\* The sum of a function over the contexts.
SumOver(w) ==
    LET Sum[S \in SUBSET Contexts] ==
            IF S = {} THEN 0
            ELSE LET c == CHOOSE c \in S : TRUE
                 IN  w[c] + Sum[S \ {c}]
    IN  Sum[Contexts]

\* What a context has added to disable_count and not yet taken from it: the
\* locks it holds, and the one on its way from fetch_add to cpsid.
Share(c) == depth[c] + (IF pc[c] = "mask" THEN 1 ELSE 0)

\* disable_count is exactly the locks held, plus one during the boot, plus
\* one for a lock on its way to cpsid.  An interrupt handler leaves it as
\* found.
CountIsNesting ==
    count = SumOver([c \in Contexts |-> Share(c)])
                + (IF boot = "enabled" THEN 0 ELSE 1)

\* Interrupts do not stay off: whatever masked them unmasks them.
Unmasks == primask ~> ~primask

\* A predicate that handlers keep making true ends the wait.
WaitEnds == waiting ~> ~waiting
=============================================================================
