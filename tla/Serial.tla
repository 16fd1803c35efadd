------------------------------- MODULE Serial -------------------------------
(***************************************************************************)
(* The UART log transport: app_log::usart2_sink over hal::usart2_tx, the   *)
(* USART and the TX pin, the wire, and the receiver at its other end.      *)
(*                                                                         *)
(* A word is four bytes.  The k-th byte handed to the sink since the start *)
(* is the number k % 8, so byte b belongs at place b % 4 of a word, least  *)
(* significant first, and a lost, repeated or overtaken byte is visible.   *)
(* The receiver frames a byte whenever the line leaves its idle level: one *)
(* that was sent, or Junk.                                                 *)
(***************************************************************************)
EXTENDS Clock, Sequences

CONSTANTS
    None,   \* no byte
    Junk    \* a byte heard that nobody sent as it was heard

ASSUME SerialAssumption == None # Junk /\ {None, Junk} \cap 0..7 = {}

VARIABLES
    spc,    \* where the driver is: "down" (never initialised), the next step
            \* of init, "idle", "write", or "drained"
    reg,    \* the registers written: bus clocks, kernel clock, pin, USART
    teack,  \* ISR.TEACK
    tdr,    \* the transmit data register
    shift,  \* the transmitter's shift register
    frame,  \* what the receiver is framing
    todo,   \* bytes of the packet the sink has still to write
    word,   \* number of the next word, 0 or 1
    flight, \* bytes written and not yet heard
    heard,  \* the byte heard last
    place   \* number of bytes heard since the receiver came up, modulo four

serialVars ==
    <<spc, reg, teack, tdr, shift, frame, todo, word, flight, heard, place>>
line   == <<tdr, shift, flight, heard, place>>
packet == <<todo, word>>

Byte == 0..7

baud == 115200

ResetReg == [clocked |-> FALSE, kernel |-> "PCLK1", odr |-> FALSE,
             mode |-> "analog", ue |-> FALSE, te |-> FALSE, brr |-> 0]

\* kernel clock over baud rate, rounded to nearest
divisor(b) == (hsi16 * 1000000 + b \div 2) \div b

\* ISR.TXE and ISR.TC; a peripheral without its bus clock reads as zero
TXE == reg.clocked /\ tdr = None
TC  == TXE /\ shift = None

\* The rate on the wire is within two percent of the receiver's.
Legible ==
    LET hz   == (IF reg.kernel = "HSI16" THEN hsi16 ELSE Pclk1MHz) * 1000000
        diff == hz - reg.brr * baud
    IN  diff \in -(hz \div 50)..(hz \div 50)

\* A USART that is not enabled pulls its pin down, and so does an output at 0.
Low(r) == \/ r.mode = "output" /\ ~r.odr
          \/ r.mode = "alternate" /\ ~(r.ue /\ r.te)

\* The receiver as the pin changes: a low level starts a frame, and a byte the
\* pin is taken from is garbled.
Watched(r) ==
    IF frame = None
    THEN IF Low(r) THEN Junk ELSE None
    ELSE IF r.mode = "alternate" /\ r.ue THEN frame ELSE Junk

-----------------------------------------------------------------------------
(***************************************************************************)
(* usart2_tx::init, one action per register write; without their bus clock *)
(* GPIOA and USART2 ignore writes                                          *)
(***************************************************************************)
SetReg(from, to, r) ==
    /\ spc = from
    /\ spc' = to
    /\ reg' = r
    /\ frame' = Watched(r)
    /\ UNCHANGED <<line, packet>>

SetPeripheral(from, to, r) ==
    SetReg(from, to, IF reg.clocked THEN r ELSE reg)

\* usart2_sink::init; not called while a write is in progress
UsartInit ==
    /\ spc \in {"down", "drained"}
    /\ HsiRequest
    /\ SetReg(spc, "hsi", reg)
    /\ UNCHANGED teack

Keep == UNCHANGED <<teack, clockVars>>

ClockPeripherals ==
    /\ ready.hsi
    /\ SetReg("hsi", "kernel", [reg EXCEPT !.clocked = TRUE])
    /\ Keep

SelectKernel ==
    SetReg("kernel", "park", [reg EXCEPT !.kernel = "HSI16"]) /\ Keep

\* Seeded fault: the pin is configured, its output data is not.
Park_NoData == SetPeripheral("park", "output", reg) /\ Keep

Park ==
    SetPeripheral("park", "output", [reg EXCEPT !.odr = TRUE]) /\ Keep

TakePin ==
    SetPeripheral("output", "disable", [reg EXCEPT !.mode = "output"]) /\ Keep

Disable ==
    /\ SetPeripheral("disable", "baud", [reg EXCEPT !.ue = FALSE])
    /\ teack' = FALSE
    /\ UNCHANGED clockVars

SetBaud ==
    /\ SetPeripheral("baud", "enable",
                     [reg EXCEPT !.brr = IF reg.ue THEN @ ELSE divisor(baud)])
    /\ Keep

Enable ==
    SetPeripheral("enable", "teack", [reg EXCEPT !.ue = TRUE, !.te = TRUE]) /\ Keep

HandOver ==
    /\ reg.clocked /\ teack
    /\ SetPeripheral("teack", "idle", [reg EXCEPT !.mode = "alternate"])
    /\ Keep

-----------------------------------------------------------------------------
(***************************************************************************)
(* The sink, write and drain                                               *)
(***************************************************************************)

\* Seeded fault: most significant byte first.
Split_BigEndian(w) == [i \in 1..4 |-> 4 * w + 4 - i]

\* usart2_sink writes the bytes of a word from the least significant up
Split(w) == [i \in 1..4 |-> 4 * w + i - 1]

\* a packet of n words reaches the sink, under the log writer's lock
Log(n) ==
    /\ spc \in {"idle", "drained"}
    /\ spc' = "write"
    /\ todo' = IF n = 1 THEN Split(word) ELSE Split(word) \o Split(1 - word)
    /\ word' = (word + n) % 2
    /\ UNCHANGED <<reg, frame, line>> /\ Keep

\* Seeded fault: the byte is stored whether the register is free or not.
WriteWaits_Never == reg.clocked

\* write spins until TXE
WriteWaits == TXE

WriteByte ==
    /\ spc = "write"
    /\ WriteWaits
    /\ tdr' = Head(todo)
    /\ flight' = Append(flight, Head(todo))
    /\ todo' = Tail(todo)
    /\ spc' = IF Len(todo) = 1 THEN "idle" ELSE "write"
    /\ UNCHANGED <<reg, shift, frame, word, heard, place>> /\ Keep

\* Seeded fault: the data register is empty, the shift register is not.
DrainWaits_Txe == TXE

\* drain spins until TC
DrainWaits == TC

Drain ==
    /\ spc = "idle"
    /\ DrainWaits
    /\ spc' = "drained"
    /\ UNCHANGED <<reg, frame, line, packet>> /\ Keep

SerialInitSteps ==
    \/ ClockPeripherals \/ SelectKernel \/ Park \/ TakePin \/ Disable
    \/ SetBaud \/ Enable \/ HandOver

-----------------------------------------------------------------------------
(***************************************************************************)
(* The USART and the receiver                                              *)
(***************************************************************************)
Acknowledge ==
    /\ reg.ue /\ reg.te /\ ~teack
    /\ teack' = TRUE
    /\ UNCHANGED <<spc, reg, frame, line, packet, clockVars>>

\* The next byte starts, after the idle frame that follows an enable.
Shift ==
    /\ teack
    /\ tdr # None /\ shift = None /\ frame = None
    /\ shift' = tdr
    /\ tdr' = None
    /\ frame' = IF reg.mode # "alternate" THEN None
                ELSE IF Legible THEN tdr ELSE Junk
    /\ UNCHANGED <<spc, reg, flight, heard, place, packet>> /\ Keep

\* A frame is over on both sides.
FrameEnds ==
    /\ frame # None \/ shift # None
    /\ shift' = None
    /\ frame' = IF Low(reg) THEN Junk ELSE None
    /\ IF frame = None
       THEN UNCHANGED <<heard, place, flight>>
       ELSE /\ heard' = frame
            /\ place' = (place + 1) % 4
            /\ flight' = IF frame = Junk THEN flight ELSE Tail(flight)
    /\ UNCHANGED <<spc, reg, tdr, packet>> /\ Keep

SerialHardware == Acknowledge \/ Shift \/ FrameEnds

\* A reset of the chip: the pin floats up, and what was on its way is lost.
SerialReset ==
    /\ spc' = "down"
    /\ reg' = ResetReg
    /\ teack' = FALSE
    /\ tdr' = None
    /\ shift' = None
    /\ frame' = Watched(ResetReg)
    /\ todo' = <<>>
    /\ word' = 0
    /\ flight' = <<>>
    /\ UNCHANGED <<heard, place>>

\* The program starts again on a chip that was not reset.
SerialReenter ==
    /\ tdr = None /\ shift = None /\ frame = None
    /\ spc' = "down"
    /\ todo' = <<>>
    /\ word' = 0
    /\ UNCHANGED <<reg, teack, frame, line>>

SerialInit ==
    /\ spc = "down"
    /\ reg = ResetReg
    /\ teack = FALSE
    /\ tdr = None
    /\ shift = None
    /\ frame = None
    /\ todo = <<>>
    /\ word = 0
    /\ flight = <<>>
    /\ heard = Junk
    /\ place = 0

-----------------------------------------------------------------------------
Link == INSTANCE ByteLink WITH Depth <- 2, cut <- frame = Junk

\* The transport is a byte link: no start bit that is not a byte's, no byte
\* lost, repeated or overtaken, and a reset loses two at the most
\* (usart_hal.hpp:63-77, 113-131).
ImplementsLink == Link!Spec

\* After drain() nothing is on its way that a halt or a reset could lose
\* (usart_hal.hpp:128-131).
DrainedIsOut == spc = "drained" => flight = <<>> /\ frame = None

\* Every byte written is heard, unless the target is reset under it.
Heard ==
    \A b \in Byte :
        (flight # <<>> /\ Head(flight) = b) ~> (heard = b \/ flight = <<>>)
=============================================================================
