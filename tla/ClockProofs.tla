---------------------------- MODULE ClockProofs ----------------------------
(***************************************************************************)
(* The clock tree for every behaviour of hal::clock::init, the hardware,   *)
(* resets and re-entries.  FlashKeepsUp does not follow from where init is *)
(* alone: a re-entry finds any setting an earlier run left, so the         *)
(* invariant ties the switch to what must precede it (Switched) and each   *)
(* point of init to what it has done so far (Progress).                    *)
(***************************************************************************)
EXTENDS Clock, TLAPS

\* What holds from the moment the switch to the PLL is asked for.
Switched ==
    /\ ready.sws = "PLL" => rcc.sw = "PLL"
    /\ rcc.sw = "PLL" =>
        /\ rcc.latency = 4 /\ ready.latency = 4
        /\ rcc.pll /\ ready.pll
        /\ rcc.cfg = PllConfig
        /\ cpc \in {"sws", "done"} \/ (cpc = "entry" /\ ready.sws = "PLL")

\* What init has achieved where it stands.
Progress ==
    /\ cpc = "latency" => rcc.latency = 4
    /\ cpc \in {"hsion", "plloff", "pllcfg", "pllon", "sw"} =>
        rcc.latency = 4 /\ ready.latency = 4
    /\ cpc \in {"plloff", "pllcfg"} => ~rcc.pll
    /\ cpc = "pllcfg" => ~ready.pll
    /\ cpc \in {"pllcfg", "pllon", "sw"} => rcc.cfg = PllConfig
    /\ cpc \in {"pllon", "sw"} => rcc.pll
    /\ cpc = "sw" => ready.pll
    /\ cpc \in {"sws", "done"} => rcc.sw = "PLL"
    /\ cpc = "done" => ready.sws = "PLL"

ClockInv == ClockTypeOK /\ Switched /\ Progress

\* The frequencies of the two clock sources and what they ask of the flash.
LEMMA Frequencies ==
    /\ PllMHz(PllConfig) = 80
    /\ FlashNeeds(80) = 4
    /\ FlashNeeds(4) = 0
    /\ PllConfig \in PllFields
  BY DEF PllMHz, PllConfig, FlashNeeds, PllFields, hsi16, pll_n

\* The invariant keeps the core within its flash.
LEMMA InvariantKeepsUp == ClockInv => FlashKeepsUp
  <1> SUFFICES ASSUME ClockInv PROVE FlashKeepsUp
    OBVIOUS
  <1>1. rcc.hpre = 1 /\ ready.latency \in {0, 4}
    BY DEF ClockInv, ClockTypeOK
  <1>2. CASE ready.sws = "PLL"
    <2>1. ready.latency = 4 /\ rcc.cfg = PllConfig
      BY <1>2 DEF ClockInv, Switched
    <2>2. HclkMHz = 80
      BY <1>1, <1>2, <2>1, Frequencies DEF HclkMHz
    <2> QED
      BY <2>1, <2>2, Frequencies DEF FlashKeepsUp, sysclk
  <1>3. CASE ready.sws # "PLL"
    <2>1. HclkMHz = 4
      BY <1>1, <1>3 DEF HclkMHz
    <2> QED
      BY <1>1, <2>1, Frequencies DEF FlashKeepsUp, sysclk
  <1> QED
    BY <1>2, <1>3

LEMMA ClockInitInv == ClockInit => ClockInv
  BY DEF ClockInit, ResetRcc, ResetReady, ClockInv, ClockTypeOK, Switched,
         Progress, ClockPoints, PllFields

LEMMA ClockStepInv == ClockInv /\ [ClockNext]_clockVars => ClockInv'
  <1> SUFFICES ASSUME ClockInv, [ClockNext]_clockVars PROVE ClockInv'
    OBVIOUS
  <1> USE DEF ClockInv, ClockTypeOK, Switched, Progress, ClockPoints
  <1>1. CASE SetLatency
    BY <1>1 DEF SetLatency, Goes, sysclk_is_pll
  <1>2. CASE HsiOn
    BY <1>2 DEF HsiOn, Goes, latency_is
  <1>3. CASE PllOff
    BY <1>3 DEF PllOff, Goes
  <1>4. CASE ProgramPll
    BY <1>4, Frequencies DEF ProgramPll, Goes
  <1>5. CASE PllOn
    BY <1>5 DEF PllOn, Goes
  <1>6. CASE Prescale
    BY <1>6 DEF Prescale, Goes
  <1>7. CASE SwitchToPll
    BY <1>7 DEF SwitchToPll, Goes
  <1>8. CASE ClockReturns
    BY <1>8 DEF ClockReturns, Goes, sysclk_is_pll
  <1>9. CASE ClockHardware
    BY <1>9 DEF ClockHardware, FlashSettles, HsiSettles, PllSettles,
                SwitchSettles, Follows
  <1>10. CASE ClockReset
    BY <1>10 DEF ClockReset, ResetRcc, ResetReady, PllFields
  <1>11. CASE ClockReenter
    BY <1>11 DEF ClockReenter, ClockSettled
  <1>12. CASE HsiRequest
    BY <1>12 DEF HsiRequest
  <1>13. CASE UNCHANGED clockVars
    BY <1>13 DEF clockVars
  <1> QED
    BY <1>1, <1>2, <1>3, <1>4, <1>5, <1>6, <1>7, <1>8, <1>9, <1>10, <1>11,
       <1>12, <1>13 DEF ClockNext, ClockDriver

\* The invariant holds of every behaviour of the clock tree.
THEOREM ClockInvariance == ClockSpec => []ClockInv
  BY ClockInitInv, ClockStepInv, PTL DEF ClockSpec

\* The registers and where init stands keep their types.
THEOREM ClockTypeCorrectness == ClockSpec => []ClockTypeOK
  <1>1. ClockInv => ClockTypeOK
    BY DEF ClockInv
  <1> QED
    BY <1>1, ClockInvariance, PTL

\* The core never runs faster than its flash, through any number of resets
\* and re-entries.
THEOREM FlashSafety == ClockSpec => []FlashKeepsUp
  BY ClockInvariance, InvariantKeepsUp, PTL

\* A step of init leaves the PLL alone unless it is off or unused.
THEOREM PllSafety == ClockSpec => PllUndisturbed
  <1> DEFINE Undisturbed ==
        \/ ClockReset
        \/ /\ rcc'.cfg # rcc.cfg => ~rcc.pll /\ ~ready.pll
           /\ rcc.pll /\ ~rcc'.pll => rcc.sw # "PLL" /\ ready.sws # "PLL"
  <1>1. ClockInv /\ [ClockNext]_clockVars => [Undisturbed]_clockVars
    <2> SUFFICES ASSUME ClockInv, ClockNext, ~ClockReset
                 PROVE  /\ rcc'.cfg # rcc.cfg => ~rcc.pll /\ ~ready.pll
                        /\ rcc.pll /\ ~rcc'.pll =>
                            rcc.sw # "PLL" /\ ready.sws # "PLL"
      OBVIOUS
    <2> USE DEF ClockInv, ClockTypeOK, Switched, Progress
    <2>1. CASE PllOff
      BY <2>1 DEF PllOff, Goes
    <2>2. CASE ProgramPll
      BY <2>2 DEF ProgramPll, Goes
    <2>3. CASE SetLatency \/ HsiOn \/ PllOn \/ Prescale \/ SwitchToPll
      BY <2>3 DEF SetLatency, HsiOn, PllOn, Prescale, SwitchToPll, Goes
    <2>4. CASE ClockReturns \/ ClockHardware \/ ClockReenter \/ HsiRequest
      BY <2>4 DEF ClockReturns, ClockHardware, FlashSettles, HsiSettles,
                  PllSettles, SwitchSettles, Follows, ClockReenter, HsiRequest,
                  Goes
    <2> QED
      BY <2>1, <2>2, <2>3, <2>4 DEF ClockNext, ClockDriver
  <1> QED
    BY <1>1, ClockInvariance, PTL DEF ClockSpec, PllUndisturbed
=============================================================================
