------------------------------- MODULE Board -------------------------------
(***************************************************************************)
(* The board from its reset to its main loop: SystemInit brings the clock  *)
(* up, app_run's pre_init flow the log sinks; from then on the flows log,  *)
(* and the loop may use the timer.  The chip may be reset at any point,    *)
(* and the program entered again without one, Restarts times in all.       *)
(***************************************************************************)
EXTENDS Clock, Serial, Timer

CONSTANT Restarts   \* bound: resets and re-entries

ASSUME RestartsAssumption == Restarts \in Nat

VARIABLES
    boot,       \* how far app_run is
    restarts    \* restarts so far

boardVars == <<boot, restarts>>
vars == <<clockVars, serialVars, timerVars, boardVars>>

Boots == {"SystemInit", "pre_init", "flows", "start", "loop"}

Stage(from, to) == boot = from /\ boot' = to /\ UNCHANGED <<restarts, timerVars>>

\* SystemInit is over; main, app_run, and INIT_SINKS in the pre_init flow
PreInit == cpc = "done" /\ Stage("SystemInit", "pre_init") /\ UsartInit

\* "Booting", the first line of the log; then the flows log theirs
Booting == spc = "idle" /\ Stage("pre_init", "flows") /\ Log(1)
Flows   == spc = "idle" /\ Stage("flows", "start") /\ Log(1)

\* "Entering main loop"
Entering == spc = "idle" /\ Stage("start", "loop") /\ Log(1)

\* the loop flow: log, drain, initialise the sink again, run the timer
InLoop == boot = "loop" /\ tpc = "idle" /\ UNCHANGED boardVars
LoopLogs ==
    InLoop /\ (\E n \in {1, 2} : Log(n)) /\ UNCHANGED timerVars
LoopDrains == InLoop /\ (Drain \/ (spc = "drained" /\ UsartInit)) /\ UNCHANGED timerVars
LoopTimes ==
    /\ boot = "loop"
    /\ spc \in {"idle", "drained"}
    /\ TimerDriver
    /\ UNCHANGED <<boardVars, clockVars, serialVars>>

ClockSteps ==
    /\ (boot = "SystemInit" /\ ClockDriver) \/ ClockHardware
    /\ UNCHANGED <<serialVars, timerVars, boardVars>>
SerialSteps ==
    /\ SerialInitSteps \/ WriteByte \/ SerialHardware
    /\ UNCHANGED <<timerVars, boardVars>>
TimerTicks == Tick /\ UNCHANGED <<clockVars, serialVars, boardVars>>

Restart ==
    /\ restarts < Restarts
    /\ restarts' = restarts + 1
    /\ boot' = "SystemInit"
    /\ \/ ClockReset /\ SerialReset /\ TimerReset
       \/ ClockReenter /\ SerialReenter /\ TimerReenter

Init ==
    /\ ClockInit /\ SerialInit /\ TimerInit
    /\ boot = "SystemInit"
    /\ restarts = 0

Next ==
    \/ ClockSteps \/ PreInit \/ Booting \/ Flows \/ Entering
    \/ LoopLogs \/ LoopDrains \/ LoopTimes
    \/ SerialSteps \/ TimerTicks \/ Restart

Spec == Init /\ [][Next]_vars

(***************************************************************************)
(* Fairness: the program goes on up to the main loop and finishes what it  *)
(* has called; the flash, the oscillator, the PLL, the USART and the line  *)
(* do their part in finite time.                                           *)
(***************************************************************************)
FairSpec ==
    /\ Spec
    /\ WF_vars(ClockSteps)
    /\ WF_vars(SerialSteps)
    /\ WF_vars(tpc = "update" /\ LoopTimes)
    /\ WF_vars(PreInit) /\ WF_vars(Booting) /\ WF_vars(Flows) /\ WF_vars(Entering)

-----------------------------------------------------------------------------
\* Whatever the chip was doing when it was restarted, the program gets to
\* its main loop: no wait of the bring-up is for ever.
ReachesLoop == []<>(boot = "loop")

\* A receiver attached before the target starts finds every byte at its place
\* in a little-endian word, as long as no restart has come in between
\* (docs/logging.org:333-336).
InPlace == restarts = 0 /\ heard # Junk => (heard + 1) % 4 = place
=============================================================================
