------------------------------- MODULE Clock -------------------------------
(***************************************************************************)
(* hal::clock::init (clock_hal.hpp) against the flash and the clock tree   *)
(* of the STM32L432.  rcc holds what the program has written, ready what   *)
(* the hardware has made of it; the hardware follows in its own time.      *)
(* Frequencies are in MHz.                                                 *)
(***************************************************************************)
EXTENDS Integers

VARIABLES
    cpc,    \* where init is; a wait stands before the step it holds up
    rcc,    \* control bits of RCC and FLASH
    ready   \* their status: latency, HSIRDY, PLLRDY, SWS

clockVars == <<cpc, rcc, ready>>

\* SYSCLK, HCLK, PCLK1 and PCLK2 as clock_hal.hpp declares them
sysclk == 80
pll_n  == 20
hsi16  == 16

ClockPoints == {"entry", "latency", "hsion", "plloff", "pllcfg", "pllon",
                "sw", "sws", "done"}

PllFields == [src : {"none", "HSI16"}, m : 1..8, n : 8..86, r : {2, 4, 6, 8}]

\* The registers after a reset: MSI drives the core at 4 MHz.
ResetRcc == [latency |-> 0, hsi |-> FALSE, pll |-> FALSE,
             cfg |-> [src |-> "none", m |-> 1, n |-> 16, r |-> 2],
             hpre |-> 1, ppre1 |-> 1, sw |-> "MSI"]
ResetReady == [latency |-> 0, hsi |-> FALSE, pll |-> FALSE, sws |-> "MSI"]

PllConfig == [src |-> "HSI16", m |-> 2, n |-> pll_n, r |-> 2]

PllMHz(cfg) == ((hsi16 \div cfg.m) * cfg.n) \div cfg.r

\* AHB clock, APB1 clock, and the clock of the timers on APB1, which is
\* doubled when the bus is divided
HclkMHz  == (IF ready.sws = "PLL" THEN PllMHz(rcc.cfg) ELSE 4) \div rcc.hpre
Pclk1MHz == HclkMHz \div rcc.ppre1
Apb1TimerMHz == IF rcc.ppre1 = 1 THEN Pclk1MHz ELSE 2 * Pclk1MHz

\* Wait states the flash needs at a core clock, VCORE range 1.
FlashNeeds(mhz) == (mhz - 1) \div 16

-----------------------------------------------------------------------------
(***************************************************************************)
(* init: one action per register write, each behind the wait before it     *)
(***************************************************************************)
sysclk_is_pll == ready.sws = "PLL"

\* Seeded fault: the latency written is taken for the latency in effect.
latency_is_Written(ws) == rcc.latency = ws

latency_is(ws) == ready.latency = ws

Goes(from, to) == cpc = from /\ cpc' = to /\ UNCHANGED ready

\* Seeded fault: a second call runs the whole sequence again.
SetLatency_Always ==
    Goes("entry", "latency") /\ rcc' = [rcc EXCEPT !.latency = 4]

\* nothing to do when the PLL drives the core already
SetLatency ==
    IF sysclk_is_pll
    THEN Goes("entry", "done") /\ UNCHANGED rcc
    ELSE Goes("entry", "latency") /\ rcc' = [rcc EXCEPT !.latency = 4]

\* Seeded fault: the oscillator is taken to be on for the USART already.
HsiOn_Assumed == Goes("latency", "hsion") /\ latency_is(4) /\ UNCHANGED rcc

HsiOn ==
    /\ Goes("latency", "hsion")
    /\ latency_is(4)
    /\ rcc' = [rcc EXCEPT !.hsi = TRUE]

PllOff ==
    /\ Goes("hsion", "plloff")
    /\ ready.hsi
    /\ rcc' = [rcc EXCEPT !.pll = FALSE]

ProgramPll ==
    /\ Goes("plloff", "pllcfg")
    /\ ~ready.pll
    /\ rcc' = [rcc EXCEPT !.cfg = PllConfig]

PllOn == Goes("pllcfg", "pllon") /\ rcc' = [rcc EXCEPT !.pll = TRUE]

Prescale ==
    /\ Goes("pllon", "sw")
    /\ ready.pll
    /\ rcc' = [rcc EXCEPT !.hpre = 1, !.ppre1 = 1]

SwitchToPll == Goes("sw", "sws") /\ rcc' = [rcc EXCEPT !.sw = "PLL"]

ClockReturns == Goes("sws", "done") /\ sysclk_is_pll /\ UNCHANGED rcc

ClockDriver ==
    \/ SetLatency \/ HsiOn \/ PllOff \/ ProgramPll \/ PllOn \/ Prescale
    \/ SwitchToPll \/ ClockReturns

-----------------------------------------------------------------------------
(***************************************************************************)
(* The hardware: each status follows its control bit.  The PLL locks on a  *)
(* running HSI16, and the core switches to a locked PLL only.              *)
(***************************************************************************)
Follows(status) == ready' = status /\ ready' # ready /\ UNCHANGED <<cpc, rcc>>

FlashSettles == Follows([ready EXCEPT !.latency = rcc.latency])
HsiSettles   == Follows([ready EXCEPT !.hsi = rcc.hsi])
PllSettles ==
    /\ rcc.pll => ready.hsi /\ rcc.cfg.src = "HSI16"
    /\ Follows([ready EXCEPT !.pll = rcc.pll])
SwitchSettles ==
    /\ rcc.sw = "PLL" => ready.pll
    /\ Follows([ready EXCEPT !.sws = rcc.sw])

ClockHardware == FlashSettles \/ HsiSettles \/ PllSettles \/ SwitchSettles

\* the hardware has caught up with the program
ClockSettled ==
    ready = [latency |-> rcc.latency, hsi |-> rcc.hsi, pll |-> rcc.pll,
             sws |-> rcc.sw]

\* a reset of the chip
ClockReset == cpc' = "entry" /\ rcc' = ResetRcc /\ ready' = ResetReady

\* The program is started again and the chip is not reset, as after `load`
\* and `c` in the debugger; the core was halted long enough to settle.
ClockReenter == ClockSettled /\ cpc' = "entry" /\ UNCHANGED <<rcc, ready>>

\* HSION set by the USART driver
HsiRequest == rcc' = [rcc EXCEPT !.hsi = TRUE] /\ UNCHANGED <<cpc, ready>>

ClockInit == cpc = "entry" /\ rcc = ResetRcc /\ ready = ResetReady

ClockNext ==
    ClockDriver \/ ClockHardware \/ ClockReset \/ ClockReenter \/ HsiRequest

ClockSpec == ClockInit /\ [][ClockNext]_clockVars

-----------------------------------------------------------------------------
ClockTypeOK ==
    /\ cpc \in ClockPoints
    /\ rcc \in [latency : {0, 4}, hsi : BOOLEAN, pll : BOOLEAN, cfg : PllFields,
                hpre : {1}, ppre1 : {1}, sw : {"MSI", "PLL"}]
    /\ ready \in [latency : {0, 4}, hsi : BOOLEAN, pll : BOOLEAN,
                  sws : {"MSI", "PLL"}]

\* The core never runs faster than its flash: the wait states in effect cover
\* the clock in effect, whichever of the two the hardware changes first
\* (clock_hal.hpp:69-80).
FlashKeepsUp == FlashNeeds(HclkMHz) <= ready.latency /\ HclkMHz <= sysclk

\* Short of a reset, the PLL is programmed only while it is off and stopped,
\* and never taken away from a core that runs from it or is about to: a
\* second call is harmless (clock_hal.hpp:56-60, 89-90).
PllUndisturbed ==
    [][\/ ClockReset
       \/ /\ rcc'.cfg # rcc.cfg => ~rcc.pll /\ ~ready.pll
          /\ rcc.pll /\ ~rcc'.pll => rcc.sw # "PLL" /\ ready.sws # "PLL"]_clockVars
=============================================================================
