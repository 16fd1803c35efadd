# A TLA+ verification of the STM32 embedded demo

The firmware under `src/` runs on an STM32L432: a bare-metal program built from
compile-time components, an *exclusive region* for asynchronous code, critical
sections made of interrupt masking, and a binary logger with two sinks (a RAM
ring, a UART), brought up by register sequences that have to be in the right
order. Host tools flatten a dump of the ring and show the live stream.
This directory models the parts whose correctness depends on the order of
events, checks small instances with TLC and proves the central results with
TLAPS for every instance.

Paths below are relative to the repository's root (`src/shared/region.hpp`
is `src/src/shared/region.hpp` in `PROJECT.json`).

## 1. Inventory

| component | state | operations | interacts with |
|---|---|---|---|
| exclusive region, `src/shared/region.hpp` | per name: `waiters_`, `queue_`; per operation: `task_.pending`, cancellation `state`, `stop_cb` | `start` (fast path, arm, slow path), `stop` from the stop callback, `do_release` and the hand-off `run` | calls receivers (arbitrary user code) outside its critical sections; called back by the stop source; atomic by the critical section |
| interrupt masking, `hal/interrupt_hal.hpp`, `hal/concurrency_hal.hpp` | `disable_count`, PRIMASK, NVIC enables and priorities | `disable_interrupts`, `enable_interrupts`, the lock, the retrying `call_in_critical_section`, `irq_init` | everything that logs, everything in the region |
| start-up, `src/main.cpp`, `src/app.cpp` | how far the boot is | SystemInit, `nexus.init`, `pre_init` flow, `interrupt_manager.init`, flows, `enable_interrupts`, main loop | clock before everything, sinks before the first log line, lines before the mask |
| memory sink, `logging/sinks/memory_sink.hpp` | `words`, `total_words` | one word stored, counted, per word of a packet | called in a critical section by the log writer; read by a debugger at any halt |
| `tools/unwrap_log.py` | none | `unwrap(dump)` | reads what the debugger dumped |
| USART2 sink and driver, `logging/sinks/usart2_sink.hpp`, `hal/usart_hal.hpp` | GPIO, RCC and USART registers | `init`, `write`, `drain`; a word is four writes | the wire, and `logmon` at its other end; asks the clock tree for HSI16 |
| clock, `hal/clock_hal.hpp` | RCC and flash registers | `init`, from SystemInit | feeds core, flash, USART and timer |
| timer, `shared/stm32_timer.hpp` | TIM2 | `initialize_timer`, `start`, `stop`, reset | counts in the scheduler's tick; no caller in the repository |
| log configuration and module, `logging/log_*.hpp` | none | compile-time composition; `init` of each sink | `pre_init` flow |
| `logmon` decoder and aligner, `tools/logmon/decode.py` | buffer, statistics, alignment | `feed`, `_decode_one`, `detect_alignment` | reader thread |
| `logmon` catalogue, `catalog.py` | text on disk, decoded maps, mtime | `reload`, `reload_if_changed` | UI timer replaces what the reader thread uses |
| `logmon` UI, `tui.py` | queue, pending rows, rows, dropped | `read_source` thread, `drain`, pause, clear | two threads |
| `cli.py`, `sources.py`, `cib.py` | none | arguments, files, serial port | |
| start-up assembly, linker scripts, build, openocd | none at run time | | |

Hard behaviours, with the properties meant for them (the list with lines is in
`PROJECT.json`, `hazards`):

* *Region.* Fast paths, releases, cancellations and hand-offs interleave on
  several contexts, and nest on one call stack: a release runs its successor
  inside itself, a stop request runs the callback inside the requester.
  Exclusion, FIFO order, an exact count, one owner of every completion, no lost
  stop, every operation completes.
* *Masking.* The count and the mask are two instructions apart, and an
  interrupt fits in between. Sections exclude each other; the count is the
  nesting; the mask comes off again; a polling wait lets its handler in.
* *Ring.* A halt or a reset anywhere, a full ring, an overflowing counter: what
  a dump then recovers.
* *Decoder.* Where the stream is cut must not matter; bytes held back for the
  alignment come out, all of them; the word grid is not lost; a tail is bounded.
* *Monitor.* Two threads and a build: records are shed at three bounds, and every
  one is accounted for; screen and model agree; the catalogue is one file's, and
  the newest; a quit ends the reader.
* *Bring-up.* Registers in the right order, against hardware that follows in its
  own time, from any state an earlier run has left: the core never outruns the
  flash, the PLL is not reprogrammed under it, the pin shows no start bit that no
  byte owns, the timer counts at the declared rate, no wait is for ever.
* *Transport.* Two registers deep, cut off by a reset anywhere: bytes arrive once
  and in order, `drain` means drained, and bytes fall where the receiver expects
  them.

## 2. Modules

| module | what |
|---|---|
| `Fifo` | the intrusive list as the region uses it, a sequence without repetition (external code) |
| `RegionAbs` | what a region promises: one inside, a line in order of arrival, hand-over in one step |
| `Region` | `region.hpp`; its step relation implements `RegionAbs` |
| `MCRegion`, `Region_*.cfg` | instances |
| `FifoProofs`, `RegionProofs` | theorems |
| `CriticalSection` | `interrupt_hal.hpp`, `concurrency_hal.hpp`, the interrupt part of `app_run` |
| `MCCriticalSection`, `Critical_*.cfg` | instances |
| `CriticalSectionProofs` | theorems |
| `LogRing`, `Ring_*.cfg` | `memory_sink.hpp` and `unwrap_log.py` |
| `LogRingProofs` | theorems |
| `Clock` | `clock_hal.hpp`, the flash and the clock tree |
| `Timer` | `stm32_timer.hpp` and TIM2; extends `Clock` |
| `ByteLink` | what a serial line promises |
| `Serial` | `usart2_sink.hpp`, `usart_hal.hpp`, pin, wire and receiver; extends `Clock`; implements `ByteLink` |
| `Board`, `Board_*.cfg` | SystemInit, `app_run`, the loop: composes `Clock`, `Serial` and `Timer`, with resets and re-entries |
| `ClockProofs`, `BoardProofs` | theorems |
| `Decoder`, `Decoder_*.cfg` | `decode.py`, driven by the loop of `cli.py` |
| `DecoderProofs` | theorems |
| `Monitor`, `Monitor_*.cfg` | `tui.py` and `catalog.py` |
| `MonitorProofs` | theorems |

Definitions named `X_Something` with a comment "Seeded fault" are wrong
versions of `X`. The specifications do not use them: put in the place of `X`,
each makes a run fail, which shows that the property can.

### Region

A context (a thread, or an interrupt handler: the interleavings of a preempting
handler are among those of a free one) is a call stack. A frame is an
operation's code at the point `pc[o]`, or the stop callback of an operation.
`Holders` are the operations past the acquisition and before the release.

| action | code |
|---|---|
| `Start` | `start` up to `check_stopped` |
| `Fast` | the first critical section |
| `Arm` | `emplace_stop_cb`; a stop that is there already runs the callback on the spot |
| `Slow` | the second critical section and what follows from its result |
| `Clear` | `clear_stop_cb` and the value completion, in `run` or `start` |
| `FinishBody`, `Suspend`, `Resume` | the code `s` between acquisition and release |
| `Release` | `do_release`; the successor is pushed on the same stack |
| `Complete` | the completion downstream |
| `RequestStop`, `StopCallback` | the stop source, and `stop` with `complete_stopped` |

Each critical section of `region.hpp` is one action. That is what
`CriticalSection` establishes on the target under its assumptions, and a mutex
in the host tests.

Abstractions. `within` composes library senders; an operation passes the points
the composition prescribes: `Enter` says that a sender `s` runs on an upstream
value only, an adaptor `s` on all three channels, and that the release follows
either way. `Enter` also chooses the channel the upstream completed on: the code
keeps it from the start, and nothing reads it before the region is acquired. The
channel `s` completes on is not kept, because the release follows on each, and the
values sent do not matter. An operation that has completed may be started again, as
after a `repeat`. Each operation has its own stop source, which is stopped at most
once per start. `Channels` lists the channels upstream completes on; "error" and
"stopped" are treated alike by the code (`region.hpp:370-383`, `452-467`) and the
runs use one of them.

The stop source is the one in use, `async::inplace_stop_source`: a request pops the
callback and then calls it, and destroying a callback (`ClearStopCb`, `Complete`) takes
it off the source if it is still there (`armed`) and does not wait for one that has been
popped (`region_test.cpp:927-937`). So a callback may run late, when the acquire whose
storage it uses is over. That is undefined behaviour. `StopCallback` takes what can then
come of it: it reads the state last written there, or that of the next operation in the
same place, or does nothing. What else a call through reused memory may do is out of any
model's reach. A source that waits has fewer behaviours, so what is shown here of safety
holds with one as well.

### CriticalSection

The core's stack of contexts (`active`), the counter, the PRIMASK bit, and the
locks each context holds. `fetch_add` and `cpsid` are two actions, so are
`fetch_sub` and `cpsie`; `Preempt` needs the mask clear, the lines enabled, and a
priority above that of the running context. The main program may wait in
`call_in_critical_section` with a predicate that handlers make true under the
lock. The boot is `interrupt_manager.init`, which enables lines, and later
`enable_interrupts`, the decrement that matches the initial one.

`BootInterrupts` says whether a peripheral may request an interrupt before
`enable_interrupts`. `BootMask` is PRIMASK at `app_run`: FALSE after a reset of
a Cortex-M4, and no code of the repository sets it.

### LogRing

Words are ordinals, so that order and loss are visible; `Store` and `Count`
are the two statements of the sink's loop; `Live` and `Lost` are `unwrap` applied
to the state, since a debugger may halt anywhere. The counter is an integer
modulo `Modulus`. `Reset` puts the buffer back to its initial value, at any
point. The variables are plain memory; a compiler may keep `total_words` in a
register through a packet, and then the count falls behind by more words than
the model shows. A single-word packet is the source's order.

### Clock, Serial, Timer and Board

One action per register write, and a wait is the guard of the write it holds up.
The hardware is a second actor: each status bit follows its control bit some
time later (`FlashSettles`, `PllSettles`, ..., `Acknowledge`), in any order.

| module | actions | code |
|---|---|---|
| `Clock` | `SetLatency` ... `ClockReturns` | `hal::clock::init` |
| `Serial` | `UsartInit`, `ClockPeripherals` ... `HandOver` | `usart2_tx::init` |
| | `Log`, `WriteByte`, `Drain` | the sink's loop over a packet, `write`, `drain` |
| | `Shift`, `FrameEnds` | the USART and the receiver (external) |
| `Timer` | `initialize_timer`, `ForceUpdate`, `enable_timer`, `disable_timer`, `reset_timer` | the functions of the same names |
| | `Tick` | the counter (external) |
| `Board` | `PreInit`, `Booting`, `Flows`, `Entering` | `main` and `app_run` |
| | `LoopLogs`, `LoopDrains`, `LoopTimes` | what a step of the loop flow may do |
| | `Restart` | a reset of the chip, or `load` and `c` in the debugger |

`Restart` is the fault model. A reset returns every register; a re-entry none, so
that each `init` then runs over what it, or half of it, has left. A re-entry finds
the hardware settled, because the core was halted in between.

Abstractions. Frequencies are whole MHz; that the wire's rate fits the receiver's
(`Legible`) is computed in Hz. A log word is four bytes; a byte is its number
modulo eight, which shows a lost, repeated or swapped one, since no more than
two are on their way. `Junk` is any byte that nobody sent: the receiver frames one
whenever the line is pulled low and no transmission does it, and where a
transmission is cut. `GPIOA` and `USART2` ignore writes without their bus clock. After
`TE` is set the USART sends an idle frame, so that a frame garbled before has ended
by the next byte (`Shift`). The timer's compare output is left out, since nothing
in the repository arms it; its functions are called from the loop, though no
source does that yet, because the claim on them is that any order works. A second
`usart2_tx::init` comes after `drain` only: right after a write it would cut the bytes
in the registers, and no caller does that.

### Decoder

Positions count the bytes of the stream. CIB's message classes are external:
started at a byte they read on until they return a message, or raise, after some
number of bytes that the bytes determine, or until they run off the end of the
buffer. So a stream is given by a verdict for each of its bytes, chosen in `Init`
and arbitrary. The decoder's buffer is the interval from `pos` to `given`; what
`Aligner` holds back is a number of bytes, `held`. `Chunk` is `Aligner.feed` with a
chunk that may be empty, `Flush` the end of the stream, `Emit`, `Skip` and `Wait`
the turns of the loop in `Decoder.feed`. `StopsAt` and `Messages` decode an interval
in one go: `detect_alignment` scores offsets with the latter, and the two are the
reference that `ChunkIndependent` compares the chunked run with.

### Monitor

The reader thread (`ReadChunk`, `Put`, `SourceEnds`), the event loop, which runs one
callback at a time (`Drain` ... `EndDrain`, keys, the catalogue timer), and builds
(external). The reader and the callbacks interleave at every access to what they
share: the queue, item by item, and the parts of the catalogue, assignment by
assignment. A record is its ordinal, so a gap on the screen is visible. A build removes
or empties the file (`BuildStarts`) and writes it (`BuildGoesOn`), whenever it likes:
`disk` is the number of the build, `file` how much of its catalogue is there, and the
mtime changes with both. A reload that finds a part of a file, or none, ends in an
exception (`Raises`), and the next tick tries again, if the application goes on.

## 3. Runs

| run | instance | shows |
|---|---|---|
| `region_safe` | 3 contexts, 3 operations, 2 of them stoppable adaptors | the six invariants of the region, and every step is a step of `RegionAbs` or none |
| `region_live` | 2 contexts, 3 operations, fairness | every started operation completes |
| `region_late` | 3 contexts, 3 operations | fails: a stop callback is still to run when its operation has the region and goes on |
| `critical_one` | 2 handlers of one priority, nesting 3, fairness | exclusion, the main program's sections undisturbed, exact count, interrupts come on again, waits end |
| `critical_boot` | requests during the boot | fails: a handler runs before `enable_interrupts` |
| `ring_dump` | 4 slots, counter modulo 12, 26 words | what a dump recovers, between words and within one |
| `board_up` | 2 restarts, counter of 3, fairness | the whole bring-up: flash, PLL, pin, wire, timer; the loop is reached |
| `decoder_stream` | all streams of 5 bytes, words of 2, cap 4, sample 4, chunks up to 3 | the cuts do not matter, nothing stays held, the alignment is found, what is off the target's words stays off |
| `decoder_torn` | the same | fails: an undecodable word cut in two loses the phase |
| `decoder_forced` | alignment 1 asked for | fails: it is not applied |
| `monitor_safe` | 3 rows, slack 1, 2 per tick, 6 records, 1 build at any time, fairness | records accounted for, rebuilds exact, callbacks do their work |
| `monitor_stale` | 2 builds | fails: a build is never picked up |

Bounds. Three operations are the fewest with a holder, a waiter to cancel and
a waiter behind it; three contexts run a release, a stop request and an arrival
at once. Symmetry is used in `region_safe` only, where no liveness is checked.
Two handlers of one priority are a pair that must not nest; `MaxDepth` beyond
2 only repeats the inner lock. The ring is filled six times, and its counter
overflows twice. Two restarts are the fewest for a second fault to hit the recovery
from the first, re-entry after reset and the reverse; a packet is of one word or two,
so that packets of both sizes meet a full transmit register; a counter of three values
wraps, which reloads the timer's prescaler by itself. Words of two bytes are the
shortest that can be cut and misaligned; a message may be of one word, of two, or
longer than the cap, and five bytes hold two words in either phase with one byte
to spare. Six records overflow each of the monitor's three bounds, and the table
is rebuilt; chunks that come between two ticks add up to more than one renders.

Fairness. In `Region` a context that stands in code of `region.hpp` goes on
(weak fairness), and user code ends: a body finishes, a suspended one is
resumed, a completion handler returns (strong fairness, because on a stack
they are disabled while another frame runs on top). No one has to start or
stop anything. In `CriticalSection` the core executes the next instruction,
the outermost section and handlers end, and interrupts leave the main
program time for its lock. `WaitEnds` further assumes that interrupts are
requested again and again and that handlers signal: the wait is for them.
In `Board` the program goes on and the hardware does its part in finite time; the
loop need not do anything.
In `Decoder` the loop of `feed` goes on, and the source, a serial port read with
a timeout, keeps yielding chunks until it ends, so that a quiet gap is noticed. In
`Monitor` it does so too; a callback in progress goes on, and the timers' turns
come (strong fairness: keys may keep the loop busy in between); a build that has
started comes to its end. Nobody has to press a key or to start a build. `Decoder` and `Monitor` do stop, at the end of the stream or after a quit, so
their runs do not look for deadlocks.

### Disagreements with the documents

* `region_late`: `docs/region.org:78`, "a stop that arrives after the hand-off has no
  effect on that transaction". A stop request that has popped the callback of a queued
  operation just before the hand-off has yet to call it; the operation goes on, its
  acquire ends, and the callback comes to storage that is in use again. The tests know
  it and leave it out (`region_test.cpp:927-937`). What does hold under this race is
  proved: the region stays exclusive, its count and queue exact, no stop is lost, and
  an operation has one owner (section 4).
* `critical_boot`: `interrupt_hal.hpp:44`, "initial condition is that we are
  disabled". The count is one, the mask is clear.
* `decoder_torn`: `docs/logging.org:347-349`, resynchronisation advances "by one word
  rather than one byte". `del self._buf[:WORD_SIZE]` takes less when the buffer ends
  inside the word, as after a read that returned in the middle of it.
* `decoder_forced`: `docs/logging.org:335`, `--align N` forces an offset. Only an offset
  that was detected is stripped from the stream (`decode.py:266-267`, `283-288`).
* `monitor_stale`: `docs/logging.org:277-279`, a rebuild is picked up without a
  restart. The time stamp is taken after the text has been read, so a build in between
  is not seen. The first load, before the application starts, has the same gap.
* `docs/logging.org:270-272`, a pause freezes the view "without losing anything": on
  resume `_render` keeps the newest `MAX_APPEND_PER_TICK` of the records held and drops
  the others (`tui.py:231-235`), long before the row limit that the document names. They
  are counted as dropped, and so `Conserved` and `GapsCounted` hold; no run is
  needed to see it, since `Render` does it in one step.
* `tools/logmon/decode.py:16-23`: the decoder "has to recover on its own" when the target
  resets in the middle of a packet, by byte alignment first. The alignment is scored
  once, at the start. `OffGridStays` says what follows when the target comes back off
  the word grid: the decoder decodes none of its messages, however many come, until a
  read happens to cut an undecodable word short, the very fault of `decoder_torn`, which
  shifts the grid by the part that was there. `ImplementsLink` shows what a reset
  costs on the wire: at most two bytes, and one garbled.

Exclusion needs the single priority that `interrupt_config.hpp` gives every line
(`SamePriority` in `CriticalSectionProofs`). A handler that interrupts a lock between its
`fetch_add` and its `cpsid` finds the count at one and runs its own section unmasked;
a more urgent handler could then break into that. `docs/logging.org:44-46` does not name
this condition.

Known limits, documented rather than checked.

* `unwrap_log.py:28`, "exactly the live words, oldest first": not within a word. A
  halt between `Store` and `Count` puts the newest word first; `TornByOneWord` bounds
  the damage.
* After 2^32 words `unwrap` takes the ring for one not full (`DumpIsExact` is stated up
  to there, `RingIsRecent` beyond).
* When a queued `within` is cancelled, the upstream's error is replaced by the stopped
  completion.

## 4. Proofs

`RegionProofs` proves, for any set of contexts and any finite set of operations,
that `IInv` is an invariant:

    IInv == TypeInv /\ Exclusive /\ QueueAgrees /\ CountInv

No part of it is inductive alone. Exclusion after a hand-off needs
that the head of the queue is not inside, which is the agreement of the queue
with `pc`; the fast path needs that a count of zero means no holder, which is
`CountInv`; a release with a count above one needs a queue that is not empty,
which is `CountInv` and exclusion. `CountInv` states `WaiterCount` without
cardinalities, and `CountLemma` takes it back. Only the frame on top of the
stack matters for these four, so no invariant of the stacks is needed.
The step lemma has a case per action; six lemmas about moves (take, enqueue,
leave, hand off, dequeue, move on) carry them. `FifoProofs` has the facts
about sequences they rest on. `TypeCorrectness` adds the bound of the count
by the number of operations, the pigeonhole of `BoundLemma`.

Ownership does need the stacks. `OwnInv` adds three parts to `IInv`: `Stacks`, a frame
is on one stack and there once, and a callback calls nothing; `Owned`, an operation is on
a stack just when it is neither idle, queued nor parked; `Scoped`, how the stop token, the
callback and the cancellation state of an operation agree between arming and acquiring.
None of them says that a callback is gone when its operation has acquired, which would be
false. A late callback finds a state other than queued or no pending bit, and completes
nothing; or it finds the operation started again and waiting, and cancels that. A return and a call disturb only the top of one stack (`CallLemma` and its
companions, over the sequence facts of `FifoProofs`). So follow `SingleOwner` (`OneOwner`)
and `StopsArrive` (`StopNotLost`), for the stop source in use. `CallbackScoped` is not a
theorem: `region_late` refutes it.

Theorem `Refinement` proves `Spec => ImplementsAbs` from `IInv` with the mapping
`phase <- Phase, line <- queue`: each move is an abstract step or a stutter.

`CriticalSectionProofs` has one invariant, `CSInv`, for any finite set of handlers, any
priorities, any nesting, either value of PRIMASK at the start, and whether or not
interrupts are requested during the boot. `StackInv`: contexts stand on the core's stack
in strictly increasing urgency, so each is there once, with the main program at the
bottom. `RestInv`: a context that stands before its `cpsid` or `cpsie` holds no lock, and
one that is not on the stack has none and is at rest. `MainInv`: after the boot a section
of the main program is masked and nothing is above it.
`CountIsNesting`: `disable_count` is the sum of the contexts'
shares, plus one during the boot. It is needed for the rest, because the count decides
whether a lock touches the mask at all; it needs in turn that a sum over a finite set moves
with one of its terms, which the lemmas on `SumOver` prove by induction over the size
of the set. From `CSInv` follow `Nesting` (`CountIsNesting`), `MainProtection`
(`MainProtected`) and `TypeCorrectness`, with no assumption on the priorities. Under
`SamePriority` the stack is one handler high, and `HandlerInv` says where the handler's
section got its count from: so follow `Shelter` (`Sheltered`) and `ExclusionOnceUp`
(`MutualExclusion` once the boot is over), requests during the boot or not.
`Exclusion` (`MutualExclusion` at all times) needs `Deployed`, no such requests, in
addition. With two priorities both properties fail, and with requests during the boot
`MutualExclusion` does.

`LogRingProofs` proves the ring's three properties for any capacity that divides the
number of values of the counter. `RingInv` relates the slots and the counter to
the number of words written (`Counting`, `Recent`). That `Capacity` divides `Modulus`, as
256 divides 2^32, is used in one step, the count over its overflow: with any other
capacity the slots would jump there. Nothing in `memory_sink.hpp` asserts it.

`ClockProofs` proves `FlashKeepsUp` and `PllUndisturbed` from `ClockInv`: `Progress`
says what `init` has achieved where it stands, `Switched` what holds once the switch
to the PLL is asked for. The second is what a re-entry needs, since it keeps the
registers and loses the place in `init`.

`BoardProofs` first shows that the board is a behaviour of the clock tree
(`BoardRunsClock`), which brings the two results along. `SerialInv` has the types, the pin
(`PinSafe`, no state of the registers drives the line low), what
`usart2_tx::init` has achieved, and that what is on its way is what
the two registers hold (`Wire`). `Garbled` says that a garbled frame is over
before the first byte. From these follow the refinement of `ByteLink`,
step by step, and `DrainedIsOut`; from `Ordered`, which counts modulo four along
receiver, shift register, data register and what is still to write, that
bytes are `InPlace` up to the first restart; from `Prescaled` and `ClockInv`,
`TicksAtRate`. `Restarts` and `Period` are arbitrary.

`MonitorProofs` proves, for any bounds, all five safety properties.
The invariant `MInv` adds to them the types of the sequences and that no more
records are decoded than `MaxRecords`. A render is the case that matters: that the
rows are still the newest of the table rests on `NewestOfConcat`, that a bounded
deque does not depend on when its excess fell off. `GapsCounted` needs
`GapInv`: queue and pending rows are runs of successive records, and of the records
that have left both since a row was rendered, each is below the row or
counted. `CatalogWhole` is inductive: builds and exceptions leave the three parts
alone, and only the first assignment of a reload takes anything from the file.

`DecoderProofs` is about every stream, every word size, cap, sample and number of
probes, and every cutting into chunks. `DInv` (types, what is held back, the bound on the
tail, the count of skipped bytes) gives `NothingIsHeldBack` and `TailIsBounded`. What
decoding in one go computes (`StopsAt`, `Messages`) is a recursive function, and that such
a function exists and satisfies its equation is proved first, by induction in
the form of a least counterexample (`Least`). `ChunksDoNotMatter` then compares: as long as
every skip was of a whole word, decoding in one go from the first byte comes through where
the buffer begins, with as many messages (`AsInOneGo`). A chunk that comes later
changes nothing that was decided before, because a position that was not left
waiting had all the bytes it asked for, or the cap's worth of them. `AlignmentIsFound`:
`detect_alignment` returns the smallest of the offsets with the best score
(`DetectBest`), and an offset out of phase with every message scores nothing, since each
of its probes skips whole words and stays out of phase. `WholeWordsKeepPhase` is the
counterpart of the runs `decoder_torn` and `decoder_forced`: with skips of whole words
only, and no alignment other than 0 asked for, `StaysInPhase` does hold. So the two
disagreements found there are the only ways in which the decoder loses the phase of a stream
of whole words. Both theorems assume `Start \in {0, Unknown}`, because of the second. `OffGridRemains`
proves `OffGridStays`, with no such assumption: off the grid of a target no position
begins one of its messages, so `Emit` is ruled out and every skip but a torn one keeps
the distance to the grid.

`ASSUME`s: `Ops` is finite, and so are the handlers; the subsets are subsets, a priority is
one of sixteen, a tick renders no more rows than are kept, the ring's capacity divides the
counter's range, the timer's counter has two values at least, `None` and `Junk` are no
bytes; a word, a cap, a sample and a message have a byte at least, and `Unknown`, the
alignment that is yet to be detected, is no offset. TLC evaluates them on every run.

Every safety invariant, action property and refinement that a passing run checks
is a theorem as well. Model-checked only is liveness (`Completes`, `Unmasks`, `WaitEnds`,
`Heard`, `ReachesLoop`, `Released`, `Drained`, `ReaderEnds`, `PicksUpRebuild`), since the
prover has neither fairness nor ENABLED; and the five violation runs, which are
counterexamples.

## 5. Not modelled, and what is left

Not modelled: pure I/O and argument handling of the host tools; generated and
compile-time code, among it the interrupt flows (one type per vector, no state)
and the dynamic controller's register fields; the timer's compare output; the
system calls and start-up assembly; build files, linker scripts and the debugger's
configuration; the async library beyond what the region sees of it. A stop source
shared by operations (one request stopping several) is not modelled, nor is the
size of the target's stack, which hand-offs in a row do consume. What an exception in
a timer's callback does to the application is the UI library's: `Raises` leaves open
whether it ends. Nor is it modelled what a record whose look-ups straddle a reload's
assignment makes of the mix.

Left to do:

1. Compose `Board` with `Decoder`: what the junk byte of a cut costs in messages, and
   for how long.
2. Words in packets: a full ring begins in the middle of a packet, which the decoder
   takes for a header.
3. What a record that is decoded during a reload looks up: `CatalogWhole` bounds the mix
   to two builds, and does not say which of them a record gets.
