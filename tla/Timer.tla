------------------------------- MODULE Timer -------------------------------
(***************************************************************************)
(* The functions of stm32_timer.hpp over TIM2, fed by the clock tree of    *)
(* module Clock.  They are called in any order.  The prescaler register is *)
(* a preload: it takes effect at an update event, which the counter raises *)
(* when it wraps around and EGR.UG raises at once.                         *)
(***************************************************************************)
EXTENDS Clock

CONSTANT Period     \* number of values of the counter (2^32 on the target)

ASSUME PeriodAssumption == Period \in Nat \ {0, 1}

VARIABLES
    tpc,    \* "idle", or "update": initialize_timer has EGR.UG still to write
    tim     \* TIM2: psc (preload), div (prescaler in effect), cnt, cen;
            \* set: initialize_timer has run since the reset

timerVars == <<tpc, tim>>

timer_tick == 16
tim2_psc == sysclk \div timer_tick - 1

ResetTim == [psc |-> 0, div |-> 0, cnt |-> 0, cen |-> FALSE, set |-> FALSE]

TimerWrite(from, to, t) == tpc = from /\ tpc' = to /\ tim' = t

\* the configuration, with the counter stopped
initialize_timer ==
    TimerWrite("idle", "update", [tim EXCEPT !.cen = FALSE, !.psc = tim2_psc])

\* Seeded fault: the new prescaler is left to the next overflow.
ForceUpdate_Never == TimerWrite("update", "idle", [tim EXCEPT !.set = TRUE])

\* EGR.UG reloads the prescaler and clears the counter
ForceUpdate ==
    TimerWrite("update", "idle",
               [tim EXCEPT !.div = tim.psc, !.cnt = 0, !.set = TRUE])

enable_timer  == TimerWrite("idle", "idle", [tim EXCEPT !.cen = TRUE])
disable_timer == TimerWrite("idle", "idle", [tim EXCEPT !.cen = FALSE])
reset_timer   == TimerWrite("idle", "idle", [tim EXCEPT !.cnt = 0])

\* The compare register gets the target, and the counter is let go; what the
\* compare output does is left out.
start_timer == enable_timer

TimerDriver ==
    \/ initialize_timer \/ ForceUpdate
    \/ enable_timer \/ disable_timer \/ reset_timer

\* The counter counts up; where it wraps it raises an update event.
Tick ==
    LET n == (tim.cnt + 1) % Period
    IN  /\ tim.cen
        /\ tim' = [tim EXCEPT !.cnt = n,
                              !.div = IF n = 0 THEN tim.psc ELSE @]
        /\ UNCHANGED tpc

TimerReset   == tpc' = "idle" /\ tim' = ResetTim
TimerReenter == tpc' = "idle" /\ UNCHANGED tim
TimerInit    == tpc = "idle" /\ tim = ResetTim

\* Once initialised, the timer never counts at any rate but the one the
\* scheduler's time type is made of: clock tree, prescaler in effect and tick
\* agree, through re-initialisations and restarts (stm32_timer.hpp:23-35,
\* 67-72).
TicksAtRate ==
    tim.set /\ tim.cen => Apb1TimerMHz = timer_tick * (tim.div + 1)
=============================================================================
