---------------------------- MODULE BoardProofs ----------------------------
(***************************************************************************)
(* The board from reset to its loop, for any number of restarts and any    *)
(* range of the timer.  The clock tree keeps its promises here because the *)
(* board implements it; on top of that one invariant carries the pin, the  *)
(* wire and the timer through every stage of the bring-up.                 *)
(***************************************************************************)
EXTENDS Board, ClockProofs, SequenceTheorems

Kept == {"idle", "write", "drained"}

Registers == [clocked : BOOLEAN, kernel : {"PCLK1", "HSI16"}, odr : BOOLEAN,
              mode : {"analog", "output", "alternate"}, ue : BOOLEAN,
              te : BOOLEAN, brr : Nat]

SerialTypeOK ==
    /\ spc \in {"down", "hsi", "kernel", "park", "output", "disable", "baud",
                "enable", "teack"} \cup Kept
    /\ reg \in Registers
    /\ teack \in BOOLEAN
    /\ tdr \in Byte \cup {None}
    /\ shift \in Byte \cup {None}
    /\ frame \in Byte \cup {None, Junk}
    /\ todo \in Seq(Byte)
    /\ word \in {0, 1}
    /\ flight \in Seq(Byte)

\* The pin never drives the line low by itself, whatever init has reached
\* and whatever an earlier run had reached before it.
PinSafe ==
    /\ reg.mode # "analog" => reg.odr /\ reg.clocked
    /\ reg.mode = "alternate" => reg.ue /\ reg.te

\* What usart2_tx::init has achieved where it stands.
Achieved ==
    /\ spc \notin {"down", "hsi"} => reg.clocked
    /\ spc \notin {"down", "hsi", "kernel"} => reg.kernel = "HSI16"
    /\ spc \in {"output", "disable", "baud", "enable", "teack"} => reg.odr
    /\ spc \in {"disable", "baud", "enable", "teack"} => reg.mode = "output"
    /\ spc = "baud" => ~reg.ue
    /\ spc \in {"enable", "teack"} \cup Kept => reg.brr = divisor(baud)
    /\ spc = "teack" => reg.ue /\ reg.te
    /\ spc \in Kept => reg.mode = "alternate"

OnItsWay ==
    IF shift = None THEN IF tdr = None THEN <<>> ELSE <<tdr>>
    ELSE IF tdr = None THEN <<shift>> ELSE <<shift, tdr>>

\* What is on its way is what the two registers hold, the wire carries the
\* shift register, and both are empty outside of logging.
Wire ==
    /\ flight = OnItsWay
    /\ IF shift = None THEN frame \in {None, Junk} ELSE frame = shift
    /\ spc \notin {"idle", "write"} => tdr = None /\ shift = None
    /\ spc = "write" => todo # <<>>

\* A frame garbled by a reset is over before the first line has been sent.
Garbled ==
    /\ frame = Junk /\ boot \notin {"SystemInit", "pre_init"} =>
        tdr # None \/ spc = "write"
    /\ spc = "drained" => frame # Junk

\* The timer runs from the PLL, at the prescaler initialize_timer left.
Prescaled ==
    /\ tim \in [psc : {0, 4}, div : {0, 4}, cnt : Nat, cen : BOOLEAN,
                set : BOOLEAN]
    /\ tpc = "update" => tim.psc = 4 /\ boot = "loop"
    /\ tim.set => tim.psc = 4 /\ tim.div = 4 /\ ready.sws = "PLL"

Booted ==
    /\ boot \in Boots
    /\ boot # "SystemInit" => cpc = "done"

SerialInv == SerialTypeOK /\ PinSafe /\ Achieved /\ Wire

BoardInv == SerialInv /\ Garbled /\ Prescaled /\ Booted

SerialAction ==
    \/ UsartInit \/ SerialInitSteps \/ (\E n \in {1, 2} : Log(n)) \/ WriteByte
    \/ Drain \/ SerialHardware \/ SerialReset \/ SerialReenter

-----------------------------------------------------------------------------
(***************************************************************************)
(* The clock tree within the board                                         *)
(***************************************************************************)
LEMMA ClockStep == [Next]_vars => [ClockNext]_clockVars
  <1> SUFFICES ASSUME [Next]_vars PROVE [ClockNext]_clockVars
    OBVIOUS
  <1>1. CASE ClockSteps
    BY <1>1 DEF ClockSteps, ClockNext
  <1>2. CASE PreInit
    BY <1>2 DEF PreInit, UsartInit, ClockNext
  <1>3. CASE Booting \/ Flows \/ Entering \/ LoopLogs
    BY <1>3 DEF Booting, Flows, Entering, LoopLogs, Log, Keep
  <1>4. CASE LoopDrains
    BY <1>4 DEF LoopDrains, Drain, Keep, UsartInit, ClockNext
  <1>5. CASE LoopTimes \/ TimerTicks
    BY <1>5 DEF LoopTimes, TimerTicks
  <1>6. CASE SerialSteps
    BY <1>6 DEF SerialSteps, SerialInitSteps, ClockPeripherals, SelectKernel,
                Park, TakePin, Disable, SetBaud, Enable, HandOver, WriteByte,
                SerialHardware, Acknowledge, Shift, FrameEnds, Keep
  <1>7. CASE Restart
    BY <1>7 DEF Restart, ClockNext
  <1>8. CASE UNCHANGED vars
    BY <1>8 DEF vars
  <1> QED
    BY <1>1, <1>2, <1>3, <1>4, <1>5, <1>6, <1>7, <1>8 DEF Next

\* Every behaviour of the board is one of the clock tree.
THEOREM BoardRunsClock == Spec => ClockSpec
  <1>1. Init => ClockInit
    BY DEF Init
  <1> QED
    BY <1>1, ClockStep, PTL DEF Spec, ClockSpec

\* On the board, too, the core never outruns its flash.
THEOREM BoardFlashSafety == Spec => []FlashKeepsUp
  BY BoardRunsClock, FlashSafety, PTL

\* On the board, too, the PLL is left alone while it is needed.
THEOREM BoardPllSafety == Spec => PllUndisturbed
  BY BoardRunsClock, PllSafety, PTL

-----------------------------------------------------------------------------
(***************************************************************************)
(* The serial line                                                         *)
(***************************************************************************)
LEMMA RateIsLegible ==
    reg.kernel = "HSI16" /\ reg.brr = divisor(baud) => Legible
  <1>1. divisor(baud) = 139
    BY DEF divisor, baud, hsi16
  <1>2. (hsi16 * 1000000) \div 50 = 320000
    BY DEF hsi16
  <1>3. hsi16 * 1000000 - 139 * baud = -12800
    BY DEF hsi16, baud
  <1>4. \A d, t \in Int : -t <= d /\ d <= t => d \in -t..t
    OBVIOUS
  <1>5. hsi16 * 1000000 - 139 * baud \in
            -((hsi16 * 1000000) \div 50)..((hsi16 * 1000000) \div 50)
    BY <1>2, <1>3, <1>4
  <1> QED
    BY <1>1, <1>5 DEF Legible

LEMMA PinIsHigh == PinSafe => ~Low(reg)
  BY DEF PinSafe, Low

\* A register write that keeps the pin safe goes unnoticed at the other end,
\* where no byte is being framed.
LEMMA WriteUnnoticed ==
    ASSUME NEW r, PinSafe, SerialTypeOK, frame \in {None, Junk}, ~Low(r)
    PROVE  Watched(r) = frame
  BY DEF Watched, SerialTypeOK

LEMMA SerialInitInv == SerialInit => SerialInv
  <1> SUFFICES ASSUME SerialInit PROVE SerialInv
    OBVIOUS
  <1>1. SerialTypeOK
    <2>1. ResetReg \in Registers /\ <<>> \in Seq(Byte)
      BY DEF ResetReg, Registers
    <2> QED
      BY <2>1 DEF SerialInit, SerialTypeOK
  <1>2. PinSafe /\ Achieved
    BY DEF SerialInit, PinSafe, Achieved, ResetReg, Kept
  <1>3. Wire
    BY DEF SerialInit, Wire, OnItsWay
  <1> QED
    BY <1>1, <1>2, <1>3 DEF SerialInv

\* A step of init writes one register and leaves the wire as it is.
LEMMA InitStep ==
    ASSUME SerialInv, NEW from, NEW to, NEW r \in Registers,
           SetReg(from, to, r),
           spc \notin {"idle", "write"},
           to \in {"hsi", "kernel", "park", "output", "disable", "baud",
                   "enable", "teack", "idle"},
           PinSafe', Achieved', teack' \in BOOLEAN
    PROVE  SerialInv' /\ frame' = frame
  <1>1. reg' = r /\ spc' = to /\ frame' = Watched(r)
    BY DEF SetReg
  <1>2. tdr = None /\ shift = None /\ frame \in {None, Junk}
    BY DEF SerialInv, Wire
  <1>3. ~Low(r)
    BY <1>1 DEF PinSafe, Low
  <1>4. frame' = frame
    BY <1>1, <1>2, <1>3, WriteUnnoticed DEF SerialInv
  <1>5. UNCHANGED <<line, packet>>
    BY DEF SetReg
  <1>6. SerialTypeOK'
    BY <1>1, <1>4, <1>5 DEF SerialInv, SerialTypeOK, line, packet, Kept
  <1>7. Wire'
    BY <1>1, <1>2, <1>4, <1>5 DEF SerialInv, Wire, OnItsWay, line, packet
  <1> QED
    BY <1>4, <1>6, <1>7 DEF SerialInv

LEMMA SerialInitSteps_Inv ==
    ASSUME SerialInv, UsartInit \/ SerialInitSteps
    PROVE  SerialInv' /\ frame' = frame
  <1>0. /\ reg \in Registers /\ teack \in BOOLEAN /\ PinSafe /\ Achieved
    BY DEF SerialInv, SerialTypeOK
  <1> USE DEF PinSafe, Achieved, Kept
  <1>1. CASE UsartInit
    <2>1. SetReg(spc, "hsi", reg) /\ UNCHANGED teack /\ spc \in {"down", "drained"}
      BY <1>1 DEF UsartInit
    <2>2. PinSafe' /\ Achieved'
      BY <1>0, <2>1 DEF SetReg
    <2> QED
      BY <1>0, <2>1, <2>2, InitStep
  <1>2. CASE ClockPeripherals
    <2> DEFINE r == [reg EXCEPT !.clocked = TRUE]
    <2>1. SetReg("hsi", "kernel", r) /\ UNCHANGED teack /\ spc = "hsi"
      BY <1>2 DEF ClockPeripherals, Keep, SetReg
    <2>2. r \in Registers
      BY <1>0 DEF Registers
    <2>3. PinSafe' /\ Achieved'
      BY <1>0, <2>1 DEF SetReg, Registers
    <2> HIDE DEF r
    <2> QED
      BY <1>0, <2>1, <2>2, <2>3, InitStep
  <1>3. CASE SelectKernel
    <2> DEFINE r == [reg EXCEPT !.kernel = "HSI16"]
    <2>1. SetReg("kernel", "park", r) /\ UNCHANGED teack /\ spc = "kernel"
      BY <1>3 DEF SelectKernel, Keep, SetReg
    <2>2. r \in Registers
      BY <1>0 DEF Registers
    <2>3. PinSafe' /\ Achieved'
      BY <1>0, <2>1 DEF SetReg, Registers
    <2> HIDE DEF r
    <2> QED
      BY <1>0, <2>1, <2>2, <2>3, InitStep
  <1>4. CASE Park
    <2> DEFINE r == [reg EXCEPT !.odr = TRUE]
    <2>1. SetReg("park", "output", r) /\ UNCHANGED teack /\ spc = "park"
      BY <1>0, <1>4 DEF Park, Keep, SetReg, SetPeripheral
    <2>2. r \in Registers
      BY <1>0 DEF Registers
    <2>3. PinSafe' /\ Achieved'
      BY <1>0, <2>1 DEF SetReg, Registers
    <2> HIDE DEF r
    <2> QED
      BY <1>0, <2>1, <2>2, <2>3, InitStep
  <1>5. CASE TakePin
    <2> DEFINE r == [reg EXCEPT !.mode = "output"]
    <2>1. SetReg("output", "disable", r) /\ UNCHANGED teack /\ spc = "output"
      BY <1>0, <1>5 DEF TakePin, Keep, SetReg, SetPeripheral
    <2>2. r \in Registers
      BY <1>0 DEF Registers
    <2>3. PinSafe' /\ Achieved'
      BY <1>0, <2>1 DEF SetReg, Registers
    <2> HIDE DEF r
    <2> QED
      BY <1>0, <2>1, <2>2, <2>3, InitStep
  <1>6. CASE Disable
    <2> DEFINE r == [reg EXCEPT !.ue = FALSE]
    <2>1. SetReg("disable", "baud", r) /\ teack' = FALSE /\ spc = "disable"
      BY <1>0, <1>6 DEF Disable, SetReg, SetPeripheral
    <2>2. r \in Registers
      BY <1>0 DEF Registers
    <2>3. PinSafe' /\ Achieved'
      BY <1>0, <2>1 DEF SetReg, Registers
    <2> HIDE DEF r
    <2> QED
      BY <1>0, <2>1, <2>2, <2>3, InitStep
  <1>7. CASE SetBaud
    <2> DEFINE r == [reg EXCEPT !.brr = divisor(baud)]
    <2>1. SetReg("baud", "enable", r) /\ UNCHANGED teack /\ spc = "baud"
      BY <1>0, <1>7 DEF SetBaud, Keep, SetReg, SetPeripheral
    <2>2. divisor(baud) \in Nat
      BY DEF divisor, baud, hsi16
    <2>3. r \in Registers
      BY <1>0, <2>2 DEF Registers
    <2>4. PinSafe' /\ Achieved'
      BY <1>0, <2>1 DEF SetReg, Registers
    <2> HIDE DEF r
    <2> QED
      BY <1>0, <2>1, <2>3, <2>4, InitStep
  <1>8. CASE Enable
    <2> DEFINE r == [reg EXCEPT !.ue = TRUE, !.te = TRUE]
    <2>1. SetReg("enable", "teack", r) /\ UNCHANGED teack /\ spc = "enable"
      BY <1>0, <1>8 DEF Enable, Keep, SetReg, SetPeripheral
    <2>2. r \in Registers
      BY <1>0 DEF Registers
    <2>3. PinSafe' /\ Achieved'
      BY <1>0, <2>1 DEF SetReg, Registers
    <2> HIDE DEF r
    <2> QED
      BY <1>0, <2>1, <2>2, <2>3, InitStep
  <1>9. CASE HandOver
    <2> DEFINE r == [reg EXCEPT !.mode = "alternate"]
    <2>1. SetReg("teack", "idle", r) /\ UNCHANGED teack /\ spc = "teack"
      BY <1>0, <1>9 DEF HandOver, Keep, SetReg, SetPeripheral
    <2>2. r \in Registers
      BY <1>0 DEF Registers
    <2>3. PinSafe' /\ Achieved'
      BY <1>0, <2>1 DEF SetReg, Registers
    <2> HIDE DEF r
    <2> QED
      BY <1>0, <2>1, <2>2, <2>3, InitStep
  <1> QED
    BY <1>1, <1>2, <1>3, <1>4, <1>5, <1>6, <1>7, <1>8, <1>9
    DEF SerialInitSteps

LEMMA SplitIsWord == \A w \in {0, 1} : Split(w) \in Seq(Byte) /\ Len(Split(w)) = 4
  BY DEF Split, Byte

LEMMA TwoWords ==
    ASSUME NEW s \in Seq(Byte), NEW t \in Seq(Byte), Len(s) = 4, Len(t) = 4
    PROVE  s \o t \in Seq(Byte) /\ Len(s \o t) = 8
  BY ConcatProperties

LEMMA NextByte ==
    ASSUME NEW s \in Seq(Byte), s # <<>>
    PROVE  /\ Head(s) \in Byte /\ Tail(s) \in Seq(Byte)
           /\ Len(s) # 1 => Tail(s) # <<>>
  <1> DEFINE t == Tail(s)
             n == Len(s)
  <1>1. Head(s) \in Byte /\ t \in Seq(Byte) /\ Len(t) = n - 1
    BY HeadTailProperties
  <1>2. n \in Nat
    OBVIOUS
  <1>3. t = <<>> => Len(t) = 0
    BY EmptySeq
  <1> HIDE DEF t, n
  <1>4. n # 1 => t # <<>>
    BY <1>1, <1>2, <1>3
  <1> QED
    BY <1>1, <1>4 DEF t, n

LEMMA SinkInv ==
    ASSUME SerialInv, (\E n \in {1, 2} : Log(n)) \/ WriteByte \/ Drain
    PROVE  SerialInv'
  <1> USE DEF SerialInv, SerialTypeOK, PinSafe, Achieved, Wire, Kept
  <1>1. CASE \E n \in {1, 2} : Log(n)
    <2>1. PICK n \in {1, 2} : Log(n)
      BY <1>1
    <2>2. /\ spc \in {"idle", "drained"} /\ spc' = "write"
          /\ UNCHANGED <<reg, teack, tdr, shift, frame, flight>>
      BY <2>1 DEF Log, line, Keep
    <2>3. Split(word) \in Seq(Byte) /\ Len(Split(word)) = 4
          /\ Split(1 - word) \in Seq(Byte) /\ Len(Split(1 - word)) = 4
      BY SplitIsWord
    <2>4. Split(word) \o Split(1 - word) \in Seq(Byte)
          /\ Len(Split(word) \o Split(1 - word)) = 8
      BY <2>3, TwoWords
    <2>5. todo' \in Seq(Byte) /\ todo' # <<>>
      BY <2>1, <2>3, <2>4 DEF Log
    <2>6. word' \in {0, 1}
      BY <2>1 DEF Log
    <2> QED
      BY <2>2, <2>5, <2>6 DEF OnItsWay
  <1>2. CASE WriteByte
    <2>1. /\ spc = "write" /\ tdr = None /\ todo # <<>>
          /\ tdr' = Head(todo) /\ flight' = Append(flight, Head(todo))
          /\ todo' = Tail(todo)
          /\ spc' = IF Len(todo) = 1 THEN "idle" ELSE "write"
          /\ UNCHANGED <<reg, teack, shift, frame, word>>
      BY <1>2 DEF WriteByte, WriteWaits, TXE, Keep
    <2>2. Head(todo) \in Byte /\ Tail(todo) \in Seq(Byte)
          /\ (Len(todo) # 1 => Tail(todo) # <<>>)
      BY <2>1, NextByte
    <2>3. Head(todo) # None
      BY <2>2, SerialAssumption DEF Byte
    <2>4. flight' = OnItsWay'
      BY <2>1, <2>3 DEF OnItsWay
    <2>5. flight' \in Seq(Byte)
      BY <2>1, <2>2
    <2> QED
      BY <2>1, <2>2, <2>3, <2>4, <2>5
  <1>3. CASE Drain
    <2>1. /\ spc = "idle" /\ spc' = "drained" /\ tdr = None /\ shift = None
          /\ UNCHANGED <<reg, teack, tdr, shift, frame, flight, todo, word>>
      BY <1>3 DEF Drain, DrainWaits, TC, TXE, Keep, line, packet
    <2> QED
      BY <2>1 DEF OnItsWay
  <1> QED
    BY <1>1, <1>2, <1>3

LEMMA HardwareInv ==
    ASSUME SerialInv, SerialHardware
    PROVE  SerialInv'
  <1> USE DEF SerialInv, SerialTypeOK, Wire
  <1>1. CASE Acknowledge
    <2>1. teack' = TRUE /\ UNCHANGED <<spc, reg, frame, line, packet>>
      BY <1>1 DEF Acknowledge
    <2> QED
      BY <2>1 DEF PinSafe, Achieved, OnItsWay, line, packet
  <1>2. CASE Shift
    <2>1. /\ tdr # None /\ shift = None /\ frame = None
          /\ shift' = tdr /\ tdr' = None
          /\ UNCHANGED <<spc, reg, teack, flight, packet>>
      BY <1>2 DEF Shift, Keep
    <2>2. reg.mode = "alternate" /\ Legible
      BY <2>1, RateIsLegible DEF Achieved, Kept
    <2>3. frame' = tdr
      BY <1>2, <2>2 DEF Shift
    <2> QED
      BY <2>1, <2>3 DEF PinSafe, Achieved, OnItsWay, packet
  <1>3. CASE FrameEnds
    <2>1. /\ frame # None \/ shift # None
          /\ shift' = None
          /\ UNCHANGED <<spc, reg, teack, tdr, packet>>
      BY <1>3 DEF FrameEnds, Keep
    <2>2. frame' = None /\ frame # None
      BY <1>3, <2>1, PinIsHigh DEF FrameEnds
    <2>3. flight' = IF frame = Junk THEN flight ELSE Tail(flight)
      BY <1>3, <2>2 DEF FrameEnds
    <2>4. flight' = OnItsWay'
      <3>1. CASE frame = Junk
        <4>1. shift = None
          BY <3>1, SerialAssumption DEF Byte
        <4> QED
          BY <2>1, <2>3, <3>1, <4>1 DEF OnItsWay
      <3>2. CASE frame # Junk
        <4>1. shift # None
          BY <2>2, <3>2
        <4> QED
          BY <2>1, <2>3, <3>2, <4>1 DEF OnItsWay
      <3> QED
        BY <3>1, <3>2
    <2>5. flight' \in Seq(Byte)
      BY <2>1, <2>4 DEF OnItsWay
    <2> QED
      BY <2>1, <2>2, <2>4, <2>5 DEF PinSafe, Achieved, packet
  <1> QED
    BY <1>1, <1>2, <1>3 DEF SerialHardware

LEMMA RestartInv ==
    ASSUME SerialInv, SerialReset \/ SerialReenter
    PROVE  SerialInv'
  <1>1. CASE SerialReset
    <2>1. ResetReg \in Registers
      BY DEF ResetReg, Registers
    <2>2. frame' \in {None, Junk}
      BY <1>1 DEF SerialReset, Watched, ResetReg, Low
    <2>3. SerialTypeOK'
      <3>1. <<>> \in Seq(Byte)
        OBVIOUS
      <3> QED
        BY <1>1, <2>1, <2>2, <3>1 DEF SerialReset, SerialTypeOK
    <2>4. PinSafe' /\ Achieved' /\ Wire'
      BY <1>1, <2>2
      DEF SerialReset, PinSafe, Achieved, Wire, OnItsWay, ResetReg, Kept
    <2> QED
      BY <2>3, <2>4 DEF SerialInv
  <1>2. CASE SerialReenter
    <2>1. /\ tdr = None /\ shift = None /\ frame = None /\ spc' = "down"
          /\ todo' = <<>> /\ word' = 0
          /\ UNCHANGED <<reg, teack, frame, tdr, shift, flight>>
      BY <1>2 DEF SerialReenter, line
    <2>2. SerialTypeOK'
      BY <2>1 DEF SerialInv, SerialTypeOK
    <2> QED
      BY <2>1, <2>2 DEF SerialInv, PinSafe, Achieved, Wire, OnItsWay, Kept
  <1> QED
    BY <1>1, <1>2

LEMMA SerialStepInv == SerialInv /\ [SerialAction]_serialVars => SerialInv'
  <1> SUFFICES ASSUME SerialInv, [SerialAction]_serialVars PROVE SerialInv'
    OBVIOUS
  <1>1. CASE UNCHANGED serialVars
    BY <1>1 DEF serialVars, SerialInv, SerialTypeOK, PinSafe, Achieved, Wire,
                OnItsWay
  <1> QED
    BY <1>1, SerialInitSteps_Inv, SinkInv, HardwareInv, RestartInv
    DEF SerialAction

LEMMA SerialStep == [Next]_vars => [SerialAction]_serialVars
  <1> SUFFICES ASSUME [Next]_vars PROVE [SerialAction]_serialVars
    OBVIOUS
  <1>1. CASE ClockSteps \/ LoopTimes \/ TimerTicks
    BY <1>1 DEF ClockSteps, LoopTimes, TimerTicks
  <1>2. CASE PreInit \/ Booting \/ Flows \/ Entering
    BY <1>2 DEF PreInit, Booting, Flows, Entering, SerialAction
  <1>3. CASE LoopLogs \/ LoopDrains \/ SerialSteps
    BY <1>3 DEF LoopLogs, LoopDrains, SerialSteps, SerialAction
  <1>4. CASE Restart
    BY <1>4 DEF Restart, SerialAction
  <1>5. CASE UNCHANGED vars
    BY <1>5 DEF vars
  <1> QED
    BY <1>1, <1>2, <1>3, <1>4, <1>5 DEF Next

\* SerialInv is an invariant of the board.
THEOREM SerialInvariance == Spec => []SerialInv
  <1>1. Init => SerialInv
    BY SerialInitInv DEF Init
  <1> QED
    BY <1>1, SerialStepInv, SerialStep, PTL DEF Spec

-----------------------------------------------------------------------------
(***************************************************************************)
(* The serial line implements the byte link                                *)
(***************************************************************************)
LEMMA LinkInit == Init => Link!Init
  BY SerialAssumption DEF Init, SerialInit, Link!Init

LEMMA LinkStep ==
    SerialInv /\ [SerialAction]_serialVars
        => [Link!Next]_<<flight, heard, frame = Junk>>
  <1> SUFFICES ASSUME SerialInv, [SerialAction]_serialVars
               PROVE  [Link!Next]_<<flight, heard, frame = Junk>>
    OBVIOUS
  <1>1. CASE UsartInit \/ SerialInitSteps
    <2>1. frame' = frame
      BY <1>1, SerialInitSteps_Inv
    <2>2. UNCHANGED <<flight, heard>>
      BY <1>1 DEF UsartInit, SerialInitSteps, ClockPeripherals, SelectKernel,
                  Park, TakePin, Disable, SetBaud, Enable, HandOver,
                  SetPeripheral, SetReg, line
    <2> QED
      BY <2>1, <2>2
  <1>2. CASE (\E n \in {1, 2} : Log(n)) \/ Drain \/ Acknowledge
    BY <1>2 DEF Log, Drain, Acknowledge, line
  <1>3. CASE WriteByte
    <2>1. /\ tdr = None /\ todo \in Seq(Byte) /\ todo # <<>>
          /\ flight = OnItsWay /\ shift \in Byte \cup {None}
      BY <1>3 DEF WriteByte, WriteWaits, TXE, SerialInv, SerialTypeOK, Wire
    <2>2. Len(flight) < 2
      BY <2>1 DEF OnItsWay
    <2>3. Head(todo) \in Byte
      BY <2>1, NextByte
    <2>4. Link!Write(Head(todo))
      BY <1>3, <2>2 DEF WriteByte, Link!Write
    <2> QED
      BY <2>3, <2>4 DEF Link!Next
  <1>4. CASE Shift
    <2>1. reg.mode = "alternate" /\ Legible /\ tdr \in Byte
      BY <1>4, RateIsLegible
      DEF Shift, SerialInv, SerialTypeOK, Achieved, Wire, Kept
    <2>2. frame' = tdr /\ frame = None /\ UNCHANGED <<flight, heard>>
      BY <1>4, <2>1 DEF Shift
    <2>3. frame' # Junk /\ frame # Junk
      BY <2>1, <2>2, SerialAssumption DEF Byte
    <2> QED
      BY <2>2, <2>3
  <1>5. CASE FrameEnds
    <2>1. frame' = None /\ frame # None
      BY <1>5, PinIsHigh DEF FrameEnds, SerialInv, Wire
    <2>2. heard' = frame
          /\ flight' = IF frame = Junk THEN flight ELSE Tail(flight)
      BY <1>5, <2>1 DEF FrameEnds
    <2>3. CASE frame = Junk
      BY <2>1, <2>2, <2>3, SerialAssumption DEF Link!HearCut, Link!Next
    <2>4. CASE frame # Junk
      <3>1. flight # <<>> /\ Head(flight) = frame
        BY <2>1, <2>4 DEF SerialInv, Wire, OnItsWay
      <3>2. Link!Hear
        BY <2>1, <2>2, <2>4, <3>1, SerialAssumption DEF Link!Hear
      <3> QED
        BY <3>2 DEF Link!Next
    <2> QED
      BY <2>3, <2>4
  <1>6. CASE SerialReset
    <2>1. frame' = IF frame = None THEN None ELSE Junk
      BY <1>6 DEF SerialReset, Watched, ResetReg, Low
    <2>2. flight' = <<>> /\ heard' = heard
      BY <1>6 DEF SerialReset
    <2>3. (frame' = Junk) \in {frame = Junk, flight # <<>>}
      <3>1. CASE frame \in {None, Junk}
        BY <2>1, <3>1, SerialAssumption
      <3>2. CASE frame \notin {None, Junk}
        <4>1. flight # <<>>
          BY <3>2 DEF SerialInv, Wire, OnItsWay
        <4> QED
          BY <2>1, <3>2, <4>1
      <3> QED
        BY <3>1, <3>2
    <2> QED
      BY <2>2, <2>3 DEF Link!Cut, Link!Next
  <1>7. CASE SerialReenter
    BY <1>7 DEF SerialReenter, line
  <1>8. CASE UNCHANGED serialVars
    BY <1>8 DEF serialVars
  <1> QED
    BY <1>1, <1>2, <1>3, <1>4, <1>5, <1>6, <1>7, <1>8
    DEF SerialAction, SerialHardware

\* The driver, its pin and the wire implement the abstract byte link, through
\* every initialisation, re-initialisation and restart.
THEOREM LinkRefinement == Spec => ImplementsLink
  <1>1. Init => Link!Init
    BY LinkInit
  <1>2. SerialInv /\ [Next]_vars => [Link!Next]_<<flight, heard, frame = Junk>>
    BY LinkStep, SerialStep
  <1> QED
    BY <1>1, <1>2, SerialInvariance, PTL DEF Spec, ImplementsLink, Link!Spec

-----------------------------------------------------------------------------
(***************************************************************************)
(* Boot and timer                                                          *)
(***************************************************************************)
LEMMA PllKeepsDriving ==
    ASSUME ClockInv, ClockDriver \/ ClockHardware \/ HsiRequest \/ ClockReenter,
           ready.sws = "PLL"
    PROVE  ready'.sws = "PLL"
  <1>1. ready \in [latency : {0, 4}, hsi : BOOLEAN, pll : BOOLEAN,
                   sws : {"MSI", "PLL"}] /\ rcc.sw = "PLL"
    BY DEF ClockInv, ClockTypeOK, Switched
  <1>2. CASE ClockDriver \/ HsiRequest \/ ClockReenter
    BY <1>2 DEF ClockDriver, SetLatency, HsiOn, PllOff, ProgramPll, PllOn,
                Prescale, SwitchToPll, ClockReturns, Goes, HsiRequest,
                ClockReenter
  <1>3. CASE ClockHardware
    BY <1>1, <1>3 DEF ClockHardware, FlashSettles, HsiSettles, PllSettles,
                      SwitchSettles, Follows
  <1> QED
    BY <1>2, <1>3

LEMMA BootedInv == Booted /\ [Next]_vars => Booted'
  <1> SUFFICES ASSUME Booted, [Next]_vars PROVE Booted'
    OBVIOUS
  <1> USE DEF Booted, Boots
  <1>1. CASE ClockSteps
    BY <1>1 DEF ClockSteps, ClockHardware, FlashSettles, HsiSettles,
                PllSettles, SwitchSettles, Follows, boardVars
  <1>2. CASE PreInit
    BY <1>2 DEF PreInit, Stage, UsartInit, HsiRequest
  <1>3. CASE Booting \/ Flows \/ Entering
    BY <1>3 DEF Booting, Flows, Entering, Stage, Log, Keep, clockVars
  <1>4. CASE LoopLogs \/ LoopDrains \/ LoopTimes
    BY <1>4 DEF LoopLogs, LoopDrains, LoopTimes, InLoop, Log, Drain, Keep,
                UsartInit, HsiRequest, clockVars, boardVars
  <1>5. CASE SerialSteps
    BY <1>5 DEF SerialSteps, SerialInitSteps, ClockPeripherals, SelectKernel,
                Park, TakePin, Disable, SetBaud, Enable, HandOver, WriteByte,
                SerialHardware, Acknowledge, Shift, FrameEnds, Keep, clockVars,
                boardVars
  <1>6. CASE TimerTicks
    BY <1>6 DEF TimerTicks, clockVars, boardVars
  <1>7. CASE Restart
    BY <1>7 DEF Restart
  <1>8. CASE UNCHANGED vars
    BY <1>8 DEF vars, clockVars, boardVars
  <1> QED
    BY <1>1, <1>2, <1>3, <1>4, <1>5, <1>6, <1>7, <1>8 DEF Next

LEMMA GarbledInv == SerialInv /\ Garbled /\ [Next]_vars => Garbled'
  <1> SUFFICES ASSUME SerialInv, Garbled, [Next]_vars PROVE Garbled'
    OBVIOUS
  <1> USE DEF Garbled
  <1>1. CASE ClockSteps \/ LoopTimes \/ TimerTicks
    BY <1>1 DEF ClockSteps, LoopTimes, TimerTicks, boardVars, serialVars
  <1>2. CASE PreInit
    BY <1>2 DEF PreInit, Stage, UsartInit, SetReg
  <1>3. CASE Booting \/ Flows \/ Entering \/ LoopLogs
    BY <1>3 DEF Booting, Flows, Entering, LoopLogs, InLoop, Stage, Log
  <1>4. CASE LoopDrains
    <2>1. CASE Drain
      BY <1>4, <2>1 DEF LoopDrains, InLoop, Drain, DrainWaits, TC, TXE, boardVars
    <2>2. CASE spc = "drained" /\ UsartInit
      <3>1. frame' = frame
        BY <2>2, SerialInitSteps_Inv
      <3> QED
        BY <1>4, <2>2, <3>1
        DEF LoopDrains, InLoop, UsartInit, SetReg, line, boardVars
    <2> QED
      BY <1>4, <2>1, <2>2 DEF LoopDrains
  <1>5. CASE SerialSteps
    <2>1. boot' = boot
      BY <1>5 DEF SerialSteps, boardVars
    <2>2. CASE SerialInitSteps
      <3>1. frame' = frame
        BY <2>2, SerialInitSteps_Inv
      <3>2. tdr' = tdr /\ spc # "write" /\ spc' # "drained"
        BY <2>2 DEF SerialInitSteps, ClockPeripherals, SelectKernel, Park,
                    TakePin, Disable, SetBaud, Enable, HandOver, SetPeripheral,
                    SetReg, line
      <3> QED
        BY <2>1, <3>1, <3>2
    <2>3. CASE WriteByte
      <3>1. /\ todo \in Seq(Byte) /\ todo # <<>> /\ tdr' = Head(todo)
        BY <2>3 DEF WriteByte, SerialInv, SerialTypeOK, Wire
      <3>2. Head(todo) # None
        BY <3>1, NextByte, SerialAssumption DEF Byte
      <3>3. spc' # "drained"
        BY <2>3 DEF WriteByte
      <3> QED
        BY <3>1, <3>2, <3>3
    <2>4. CASE Acknowledge
      BY <2>1, <2>4 DEF Acknowledge, line
    <2>5. CASE Shift
      <3>1. reg.mode = "alternate" /\ Legible /\ tdr \in Byte
        BY <2>5, RateIsLegible
        DEF Shift, SerialInv, SerialTypeOK, Achieved, Wire, Kept
      <3>2. frame' = tdr
        BY <2>5, <3>1 DEF Shift
      <3> QED
        BY <3>1, <3>2, SerialAssumption DEF Byte
    <2>6. CASE FrameEnds
      <3>1. frame' = None
        BY <2>6, PinIsHigh DEF FrameEnds, SerialInv, Wire
      <3> QED
        BY <3>1, SerialAssumption
    <2> QED
      BY <1>5, <2>2, <2>3, <2>4, <2>5, <2>6 DEF SerialSteps, SerialHardware
  <1>6. CASE Restart
    BY <1>6 DEF Restart, SerialReset, SerialReenter
  <1>7. CASE UNCHANGED vars
    BY <1>7 DEF vars, boardVars, serialVars
  <1> QED
    BY <1>1, <1>2, <1>3, <1>4, <1>5, <1>6, <1>7 DEF Next

LEMMA PrescaledInv ==
    ClockInv /\ Booted /\ Prescaled /\ [Next]_vars => Prescaled'
  <1> SUFFICES ASSUME ClockInv, Booted, Prescaled, [Next]_vars PROVE Prescaled'
    OBVIOUS
  <1> USE DEF Prescaled
  <1>1. CASE ClockSteps
    <2>1. ClockDriver \/ ClockHardware
      BY <1>1 DEF ClockSteps
    <2> QED
      BY <1>1, <2>1, PllKeepsDriving DEF ClockSteps, timerVars, boardVars
  <1>2. CASE PreInit
    <2>1. HsiRequest
      BY <1>2 DEF PreInit, UsartInit
    <2> QED
      BY <1>2, <2>1, PllKeepsDriving DEF PreInit, Stage, timerVars
  <1>3. CASE Booting \/ Flows \/ Entering
    BY <1>3 DEF Booting, Flows, Entering, Stage, Log, Keep, timerVars, clockVars
  <1>4. CASE LoopLogs \/ SerialSteps
    BY <1>4 DEF LoopLogs, InLoop, Log, Keep, timerVars, clockVars, boardVars,
                SerialSteps, SerialInitSteps, ClockPeripherals, SelectKernel,
                Park, TakePin, Disable, SetBaud, Enable, HandOver, WriteByte,
                SerialHardware, Acknowledge, Shift, FrameEnds
  <1>5. CASE LoopDrains
    <2>1. HsiRequest \/ UNCHANGED clockVars
      BY <1>5 DEF LoopDrains, Drain, Keep, UsartInit
    <2> QED
      BY <1>5, <2>1, PllKeepsDriving
      DEF LoopDrains, InLoop, timerVars, boardVars, clockVars
  <1>6. CASE LoopTimes
    <2>1. ready.sws = "PLL" /\ ready' = ready /\ boot = "loop" /\ boot' = boot
      BY <1>6 DEF LoopTimes, Booted, ClockInv, Progress, clockVars, boardVars
    <2>2. tim2_psc = 4
      BY DEF tim2_psc, sysclk, timer_tick
    <2>3. CASE initialize_timer
      BY <2>1, <2>2, <2>3 DEF initialize_timer, TimerWrite
    <2>4. CASE ForceUpdate
      BY <2>1, <2>4 DEF ForceUpdate, TimerWrite
    <2>5. CASE enable_timer
      BY <2>1, <2>5 DEF enable_timer, TimerWrite
    <2>6. CASE disable_timer
      BY <2>1, <2>6 DEF disable_timer, TimerWrite
    <2>7. CASE reset_timer
      BY <2>1, <2>7 DEF reset_timer, TimerWrite
    <2> QED
      BY <1>6, <2>3, <2>4, <2>5, <2>6, <2>7 DEF LoopTimes, TimerDriver
  <1>7. CASE TimerTicks
    <2>1. (tim.cnt + 1) % Period \in Nat
      BY PeriodAssumption
    <2> QED
      BY <1>7, <2>1 DEF TimerTicks, Tick, clockVars, boardVars
  <1>8. CASE Restart
    <2>1. CASE TimerReset
      BY <2>1 DEF TimerReset, ResetTim
    <2>2. CASE ClockReenter /\ TimerReenter
      BY <2>2, PllKeepsDriving DEF TimerReenter
    <2> QED
      BY <1>8, <2>1, <2>2 DEF Restart
  <1>9. CASE UNCHANGED vars
    BY <1>9 DEF vars, timerVars, clockVars, boardVars
  <1> QED
    BY <1>1, <1>2, <1>3, <1>4, <1>5, <1>6, <1>7, <1>8, <1>9 DEF Next

\* BoardInv is an invariant of the board, the clock tree's beside it.
THEOREM BoardInvariance == Spec => []BoardInv
  <1>1. Init => Garbled /\ Prescaled /\ Booted
    BY SerialAssumption
    DEF Init, SerialInit, TimerInit, Garbled, Prescaled, Booted, Boots, ResetTim
  <1>2. Spec => []ClockInv
    BY BoardRunsClock, ClockInvariance, PTL
  <1>3. /\ SerialInv /\ ClockInv /\ Garbled /\ Prescaled /\ Booted
        /\ [Next]_vars
        => Garbled' /\ Prescaled' /\ Booted'
    BY GarbledInv, PrescaledInv, BootedInv
  <1>4. SerialInv /\ Garbled /\ Prescaled /\ Booted => BoardInv
    BY DEF BoardInv
  <1> QED
    BY <1>1, <1>2, <1>3, <1>4, SerialInvariance, PTL DEF Spec

\* When drain has returned, a halt or a reset loses nothing.
THEOREM DrainSafety == Spec => []DrainedIsOut
  <1>1. BoardInv => DrainedIsOut
    <2> SUFFICES ASSUME BoardInv, spc = "drained"
                 PROVE  flight = <<>> /\ frame = None
      BY DEF DrainedIsOut
    <2>1. tdr = None /\ shift = None /\ flight = <<>> /\ frame \in {None, Junk}
      BY DEF BoardInv, SerialInv, Wire, OnItsWay
    <2> QED
      BY <2>1 DEF BoardInv, Garbled
  <1> QED
    BY <1>1, BoardInvariance, PTL

\* The timer, once initialised, counts at the scheduler's rate and no other.
THEOREM TimerRate == Spec => []TicksAtRate
  <1>1. BoardInv /\ ClockInv => TicksAtRate
    <2> SUFFICES ASSUME BoardInv, ClockInv, tim.set, tim.cen
                 PROVE  Apb1TimerMHz = timer_tick * (tim.div + 1)
      BY DEF TicksAtRate
    <2>1. tim.div = 4 /\ ready.sws = "PLL"
      BY DEF BoardInv, Prescaled
    <2>2. rcc.cfg = PllConfig /\ rcc.hpre = 1 /\ rcc.ppre1 = 1
      BY <2>1 DEF ClockInv, ClockTypeOK, Switched
    <2>3. Apb1TimerMHz = 80
      BY <2>1, <2>2, Frequencies DEF Apb1TimerMHz, Pclk1MHz, HclkMHz
    <2> QED
      BY <2>1, <2>3 DEF timer_tick
  <1>2. Spec => []ClockInv
    BY BoardRunsClock, ClockInvariance, PTL
  <1> QED
    BY <1>1, <1>2, BoardInvariance, PTL

-----------------------------------------------------------------------------
(***************************************************************************)
(* Up to the first restart, the place of every byte on its way             *)
(***************************************************************************)
Count(r) == IF r = None THEN 0 ELSE 1

\* where the receiver will put the next byte written
Due == (place + Count(shift) + Count(tdr)) % 4

Ordered ==
    /\ place \in 0..3 /\ heard \in Byte \cup {Junk}
    /\ frame # Junk
    /\ heard # Junk => (heard + 1) % 4 = place
    /\ shift # None => shift % 4 = place
    /\ tdr # None => tdr % 4 = (place + Count(shift)) % 4
    /\ \A i \in 1..Len(todo) : todo[i] % 4 = (Due + i - 1) % 4
    /\ (Due + Len(todo)) % 4 = 0
    /\ spc # "write" => todo = <<>>
OrderedInv == restarts \in Nat /\ (restarts = 0 => Ordered)

LEMMA Rotation ==
    /\ \A d \in 0..3 : (d + 1) % 4 \in 0..3 /\ d % 4 = d /\ (d + 4) % 4 = d
    /\ \A d \in 0..3, i \in Nat : (((d + 1) % 4) + i) % 4 = (d + 1 + i) % 4
    /\ \A d \in 0..3, c, e \in 0..1 : (d + c + e) % 4 \in 0..3
  OBVIOUS

\* The bytes of one or two words, from the first place of a word on.
LEMMA WordInPlace ==
    ASSUME NEW w \in {0, 1}, NEW i \in 1..4
    PROVE  Split(w)[i] % 4 = (0 + i - 1) % 4
  <1>1. Split(w)[i] = 4 * w + i - 1
    BY DEF Split
  <1> QED
    BY <1>1

LEMMA Joined ==
    ASSUME NEW s \in Seq(Byte), NEW t \in Seq(Byte), Len(s) = 4, Len(t) = 4,
           NEW i \in 1..8
    PROVE  (s \o t)[i] = IF i <= 4 THEN s[i] ELSE t[i - 4]
  <1>1. \A k \in 1..(Len(s) + Len(t)) :
            (s \o t)[k] = IF k <= Len(s) THEN s[k] ELSE t[k - Len(s)]
    BY ConcatProperties
  <1>2. Len(s) + Len(t) = 8
    OBVIOUS
  <1> QED
    BY <1>1, <1>2

LEMMA TwoWordsInPlace ==
    ASSUME NEW w \in {0, 1}, NEW i \in 1..8
    PROVE  (Split(w) \o Split(1 - w))[i] % 4 = (0 + i - 1) % 4
  <1>1. 1 - w \in {0, 1}
    OBVIOUS
  <1>2. (Split(w) \o Split(1 - w))[i] =
            IF i <= 4 THEN Split(w)[i] ELSE Split(1 - w)[i - 4]
    BY <1>1, SplitIsWord, Joined
  <1>3. CASE i <= 4
    <2>1. i \in 1..4
      BY <1>3
    <2> QED
      BY <1>2, <1>3, <2>1, WordInPlace
  <1>4. CASE ~(i <= 4)
    <2>1. i - 4 \in 1..4 /\ (0 + (i - 4) - 1) % 4 = (0 + i - 1) % 4
      BY <1>4
    <2>2. Split(1 - w)[i - 4] % 4 = (0 + (i - 4) - 1) % 4
      BY <1>1, <2>1, WordInPlace
    <2> QED
      BY <1>2, <1>4, <2>1, <2>2
  <1> QED
    BY <1>3, <1>4

LEMMA OrderedSink ==
    ASSUME SerialInv, Ordered, (\E n \in {1, 2} : Log(n)) \/ WriteByte \/ Drain
    PROVE  Ordered'
  <1>1. CASE \E n \in {1, 2} : Log(n)
    <2>1. PICK n \in {1, 2} : Log(n)
      BY <1>1
    <2>2. /\ spc # "write" /\ spc' = "write"
          /\ UNCHANGED <<tdr, shift, frame, heard, place>>
      BY <2>1 DEF Log, line
    <2>3. Due' = Due /\ Due \in 0..3 /\ Due % 4 = 0
      <3>1. todo = <<>> /\ place \in 0..3
        BY <2>2 DEF Ordered
      <3>2. Due \in 0..3
        BY <3>1 DEF Due, Count
      <3>3. (Due + 0) % 4 = 0
        BY <3>1, EmptySeq DEF Ordered
      <3> QED
        BY <2>2, <3>2, <3>3 DEF Due
    <2>4. Due = 0
      BY <2>3
    <2>5. word \in {0, 1}
      BY DEF SerialInv, SerialTypeOK
    <2>6. \A i \in 1..Len(todo') : todo'[i] % 4 = (0 + i - 1) % 4
      <3>1. CASE n = 1
        <4>1. todo' = Split(word) /\ Len(Split(word)) = 4
          BY <2>1, <2>5, <3>1, SplitIsWord DEF Log
        <4> QED
          BY <2>5, <4>1, WordInPlace
      <3>2. CASE n = 2
        <4>1. todo' = Split(word) \o Split(1 - word)
          BY <2>1, <3>2 DEF Log
        <4>2. 1 - word \in {0, 1}
          BY <2>5
        <4>3. Len(Split(word) \o Split(1 - word)) = 8
          BY <2>5, <4>2, SplitIsWord, TwoWords
        <4> QED
          BY <2>5, <4>1, <4>3, TwoWordsInPlace
      <3> QED
        BY <3>1, <3>2
    <2>7. Len(todo') \in {4, 8}
      <3>1. CASE n = 1
        <4>1. todo' = Split(word)
          BY <2>1, <3>1 DEF Log
        <4> QED
          BY <2>5, <4>1, SplitIsWord
      <3>2. CASE n = 2
        <4>1. todo' = Split(word) \o Split(1 - word)
          BY <2>1, <3>2 DEF Log
        <4>2. 1 - word \in {0, 1}
          BY <2>5
        <4>3. Len(Split(word) \o Split(1 - word)) = 8
          BY <2>5, <4>2, SplitIsWord, TwoWords
        <4> QED
          BY <4>1, <4>3
      <3> QED
        BY <3>1, <3>2
    <2>8. (0 + Len(todo')) % 4 = 0
      <3>1. \A k \in {4, 8} : (0 + k) % 4 = 0
        OBVIOUS
      <3> QED
        BY <2>7, <3>1
    <2> QED
      BY <2>2, <2>3, <2>4, <2>6, <2>8 DEF Ordered
  <1>2. CASE WriteByte
    <2>1. /\ spc = "write" /\ tdr = None /\ todo # <<>> /\ todo \in Seq(Byte)
          /\ tdr' = Head(todo) /\ todo' = Tail(todo)
          /\ spc' = IF Len(todo) = 1 THEN "idle" ELSE "write"
          /\ UNCHANGED <<shift, frame, heard, place>>
      BY <1>2
      DEF WriteByte, WriteWaits, TXE, SerialInv, SerialTypeOK, Wire
    <2>2. /\ Head(todo) \in Byte /\ Tail(todo) \in Seq(Byte)
          /\ Len(Tail(todo)) = Len(todo) - 1
          /\ \A i \in 1..Len(Tail(todo)) : Tail(todo)[i] = todo[i + 1]
      BY <2>1, HeadTailProperties
    <2>3. Len(todo) \in Nat \ {0} /\ Head(todo) = todo[1]
      BY <2>1, EmptySeq
    <2>4. tdr' # None
      BY <2>1, <2>2, SerialAssumption DEF Byte
    <2>5. place \in 0..3 /\ Count(shift) \in 0..1 /\ Count(tdr) = 0
          /\ Count(tdr') = 1 /\ Count(shift)' = Count(shift)
      BY <2>1, <2>4 DEF Ordered, Count
    <2>6. Due = (place + Count(shift)) % 4 /\ Due \in 0..3
          /\ Due' = (Due + 1) % 4
      <3>1. \A d \in 0..3, c \in 0..1 :
                /\ (d + c + 0) % 4 = (d + c) % 4 /\ (d + c) % 4 \in 0..3
                /\ (d + c + 1) % 4 = (((d + c) % 4) + 1) % 4
        OBVIOUS
      <3>2. Due = (place + Count(shift) + 0) % 4
            /\ Due' = (place + Count(shift) + 1) % 4
        BY <2>1, <2>5 DEF Due
      <3> QED
        BY <2>5, <3>1, <3>2
    <2>7. todo[1] % 4 = Due
      <3>1. todo[1] % 4 = (Due + 1 - 1) % 4
        BY <2>3 DEF Ordered
      <3>2. Due + 1 - 1 = Due /\ Due % 4 = Due
        BY <2>6
      <3> QED
        BY <3>1, <3>2
    <2>8. \A i \in 1..Len(todo') : todo'[i] % 4 = (Due' + i - 1) % 4
      <3> TAKE i \in 1..Len(todo')
      <3>1. i + 1 \in 1..Len(todo) /\ i \in Nat \ {0}
        BY <2>1, <2>2, <2>3
      <3>2. todo'[i] % 4 = (Due + (i + 1) - 1) % 4
        BY <2>1, <2>2, <3>1 DEF Ordered
      <3>3. \A d \in 0..3, k \in Nat \ {0} :
                (d + (k + 1) - 1) % 4 = (((d + 1) % 4) + k - 1) % 4
        OBVIOUS
      <3>4. (Due + (i + 1) - 1) % 4 = (((Due + 1) % 4) + i - 1) % 4
        BY <2>6, <3>1, <3>3
      <3> QED
        BY <2>6, <3>2, <3>4
    <2>9. (Due' + Len(todo')) % 4 = 0
      <3>1. \A d \in 0..3, k \in Nat \ {0} :
                (((d + 1) % 4) + (k - 1)) % 4 = (d + k) % 4
        OBVIOUS
      <3>2. (((Due + 1) % 4) + (Len(todo) - 1)) % 4 = (Due + Len(todo)) % 4
        BY <2>3, <2>6, <3>1
      <3> QED
        BY <2>1, <2>2, <2>6, <3>2 DEF Ordered
    <2>10. spc' # "write" => todo' = <<>>
      BY <2>1, <2>2, EmptySeq
    <2> QED
      BY <2>1, <2>3, <2>5, <2>6, <2>7, <2>8, <2>9, <2>10 DEF Ordered
  <1>3. CASE Drain
    BY <1>3 DEF Drain, line, packet, Ordered, Due, Count
  <1> QED
    BY <1>1, <1>2, <1>3

LEMMA OrderedHardware ==
    ASSUME SerialInv, Ordered, SerialHardware
    PROVE  Ordered'
  <1>1. CASE Acknowledge
    BY <1>1 DEF Acknowledge, line, packet, Ordered, Due, Count
  <1>2. CASE Shift
    <2>1. reg.mode = "alternate" /\ Legible /\ tdr \in Byte
      BY <1>2, RateIsLegible
      DEF Shift, SerialInv, SerialTypeOK, Achieved, Wire, Kept
    <2>2. /\ tdr # None /\ shift = None /\ shift' = tdr /\ tdr' = None
          /\ frame' = tdr
          /\ UNCHANGED <<spc, heard, place, todo>>
      BY <1>2, <2>1 DEF Shift, packet
    <2>3. Due' = Due
      BY <2>2 DEF Due, Count, Ordered
    <2>4. tdr % 4 = place
      BY <2>2 DEF Ordered, Count
    <2>5. tdr # Junk
      BY <2>1, SerialAssumption DEF Byte
    <2> QED
      BY <2>2, <2>3, <2>4, <2>5 DEF Ordered
  <1>3. CASE FrameEnds
    <2>1. frame' = None /\ frame # None
      BY <1>3, PinIsHigh DEF FrameEnds, SerialInv, Wire
    <2>2. shift # None /\ frame = shift /\ shift \in Byte
      BY <2>1 DEF SerialInv, SerialTypeOK, Wire, Ordered
    <2>3. /\ heard' = shift /\ place' = (place + 1) % 4 /\ shift' = None
          /\ UNCHANGED <<spc, tdr, todo>>
      BY <1>3, <2>1, <2>2 DEF FrameEnds, packet
    <2>4. place \in 0..3 /\ shift % 4 = place /\ Count(tdr) \in 0..1
      BY <2>2 DEF Ordered, Count
    <2>5. place' \in 0..3 /\ (heard' + 1) % 4 = place' /\ heard' \in Byte
      <3>1. \A b \in 0..7 : (b + 1) % 4 = ((b % 4) + 1) % 4 /\ (b + 1) % 4 \in 0..3
        OBVIOUS
      <3> QED
        BY <2>2, <2>3, <2>4, <3>1 DEF Byte
    <2>6. Due' = Due
      <3>1. \A d \in 0..3, c \in 0..1 :
                (((d + 1) % 4) + 0 + c) % 4 = (d + 1 + c) % 4
        OBVIOUS
      <3>2. /\ Due = (place + 1 + Count(tdr)) % 4
            /\ Due' = (((place + 1) % 4) + 0 + Count(tdr)) % 4
        BY <2>2, <2>3 DEF Due, Count
      <3> QED
        BY <2>4, <3>1, <3>2
    <2>7. tdr' # None => tdr' % 4 = (place' + Count(shift)') % 4
      <3>1. \A d \in 0..3 : (((d + 1) % 4) + 0) % 4 = (d + 1) % 4
        OBVIOUS
      <3>2. tdr # None => tdr % 4 = (place + 1) % 4
        BY <2>2 DEF Ordered, Count
      <3>3. Count(shift)' = 0
        BY <2>3 DEF Count
      <3> QED
        BY <2>3, <2>4, <3>1, <3>2, <3>3
    <2> QED
      BY <2>1, <2>3, <2>5, <2>6, <2>7, SerialAssumption DEF Ordered
  <1> QED
    BY <1>1, <1>2, <1>3 DEF SerialHardware

LEMMA OrderedStep ==
    SerialInv /\ OrderedInv /\ [Next]_vars => OrderedInv'
  <1> SUFFICES ASSUME SerialInv, OrderedInv, [Next]_vars PROVE OrderedInv'
    OBVIOUS
  <1>1. CASE Restart
    BY <1>1 DEF Restart, OrderedInv
  <1>2. CASE ClockSteps \/ LoopTimes \/ TimerTicks
    BY <1>2 DEF ClockSteps, LoopTimes, TimerTicks, boardVars, serialVars,
                OrderedInv, Ordered, Due, Count
  <1>3. CASE PreInit \/ (LoopDrains /\ UsartInit)
    <2>1. UsartInit /\ restarts' = restarts
      BY <1>3 DEF PreInit, Stage, LoopDrains, InLoop, boardVars
    <2>2. frame' = frame
      BY <2>1, SerialInitSteps_Inv
    <2>3. spc # "write" /\ UNCHANGED <<tdr, shift, todo, heard, place>>
      BY <2>1 DEF UsartInit, SetReg, line, packet
    <2> QED
      BY <2>1, <2>2, <2>3 DEF OrderedInv, Ordered, Due, Count
  <1>4. CASE Booting \/ Flows \/ Entering \/ LoopLogs
    <2>1. (\E n \in {1, 2} : Log(n)) /\ restarts' = restarts
      BY <1>4 DEF Booting, Flows, Entering, LoopLogs, InLoop, Stage, boardVars
    <2> QED
      BY <2>1, OrderedSink DEF OrderedInv
  <1>5. CASE LoopDrains /\ Drain
    BY <1>5, OrderedSink DEF LoopDrains, InLoop, boardVars, OrderedInv
  <1>6. CASE SerialSteps
    <2>1. restarts' = restarts
      BY <1>6 DEF SerialSteps, boardVars
    <2>2. CASE SerialInitSteps
      <3>1. frame' = frame
        BY <2>2, SerialInitSteps_Inv
      <3>2. spc # "write" /\ UNCHANGED <<tdr, shift, todo, heard, place>>
        BY <2>2 DEF SerialInitSteps, ClockPeripherals, SelectKernel, Park,
                    TakePin, Disable, SetBaud, Enable, HandOver, SetPeripheral,
                    SetReg, line, packet
      <3> QED
        BY <2>1, <3>1, <3>2 DEF OrderedInv, Ordered, Due, Count
    <2>3. CASE WriteByte
      BY <2>1, <2>3, OrderedSink DEF OrderedInv
    <2>4. CASE SerialHardware
      BY <2>1, <2>4, OrderedHardware DEF OrderedInv
    <2> QED
      BY <1>6, <2>2, <2>3, <2>4 DEF SerialSteps
  <1>7. CASE UNCHANGED vars
    BY <1>7 DEF vars, boardVars, serialVars, OrderedInv, Ordered, Due, Count
  <1> QED
    BY <1>1, <1>2, <1>3, <1>4, <1>5, <1>6, <1>7 DEF Next, LoopDrains

\* Up to the first restart every byte is heard where it belongs in its word.
THEOREM BytesInPlace == Spec => []InPlace
  <1>1. Init => OrderedInv
    <2> SUFFICES ASSUME Init PROVE OrderedInv
      OBVIOUS
    <2>1. /\ restarts = 0 /\ place = 0 /\ heard = Junk /\ frame = None
          /\ shift = None /\ tdr = None /\ todo = <<>>
      BY DEF Init, SerialInit
    <2>2. Due = 0 /\ Len(todo) = 0
      BY <2>1, EmptySeq DEF Due, Count
    <2> QED
      BY <2>1, <2>2, SerialAssumption DEF OrderedInv, Ordered
  <1>2. OrderedInv => InPlace
    BY DEF OrderedInv, Ordered, InPlace
  <1> QED
    BY <1>1, <1>2, OrderedStep, SerialInvariance, PTL DEF Spec
=============================================================================
