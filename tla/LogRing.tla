------------------------------ MODULE LogRing ------------------------------
(***************************************************************************)
(* app_log::buffer, the ring of log words of memory_sink.hpp, and what     *)
(* tools/unwrap_log.py makes of a dump of it taken at any halt.            *)
(*                                                                         *)
(* A word is its ordinal: the k-th word logged since the reset is k, and   *)
(* 0 is a word never written.  A packet is a number of words.  Packets     *)
(* come one at a time, since log_writer calls the sink in a critical       *)
(* section (module CriticalSection says when it really excludes).  A       *)
(* debugger may halt the core between any two steps, so what it would dump *)
(* is a function of each state.                                            *)
(***************************************************************************)
EXTENDS Integers, Sequences

CONSTANTS
    Capacity,   \* buffer_capacity
    Modulus,    \* number of values of the counter (2^32 on the target)
    Sizes,      \* numbers of words of a packet
    MaxWords    \* bound: words logged between two resets

ASSUME RingAssumption ==
    /\ Capacity \in Nat \ {0}
    /\ Modulus \in Nat \ {0} /\ Modulus % Capacity = 0
    /\ Sizes \subseteq Nat \ {0}
    /\ MaxWords \in Nat

VARIABLES
    words,          \* the ring
    total_words,    \* the header's count
    written,        \* words stored since the reset
    left,           \* words of the current packet still to be counted
    stored          \* the next of them is in the ring already

vars == <<words, total_words, written, left, stored>>

Init ==
    /\ words = [i \in 0..(Capacity - 1) |-> 0]
    /\ total_words = 0
    /\ written = 0
    /\ left = 0
    /\ stored = FALSE

\* a log call site hands over a packet
Log(n) ==
    /\ left = 0
    /\ written + n <= MaxWords
    /\ left' = n
    /\ UNCHANGED <<words, total_words, written, stored>>

\* the slot of the word the counter stands at
Slot(n) == n % Capacity

\* words[total_words % capacity] = word
Store ==
    /\ left > 0
    /\ ~stored
    /\ words' = [words EXCEPT ![Slot(total_words)] = written + 1]
    /\ written' = written + 1
    /\ stored' = TRUE
    /\ UNCHANGED <<total_words, left>>

\* Seeded fault: the counter skips a value when it overflows.
Increment_SkipsZero(n) == IF n + 1 = Modulus THEN 1 ELSE n + 1

\* unsigned arithmetic wraps around
Increment(n) == (n + 1) % Modulus

\* ++total_words
Count ==
    /\ stored
    /\ total_words' = Increment(total_words)
    /\ stored' = FALSE
    /\ left' = left - 1
    /\ UNCHANGED <<words, written>>

\* The core is reset, anywhere: the startup code initialises .data anew.
Reset ==
    /\ words' = [i \in 0..(Capacity - 1) |-> 0]
    /\ total_words' = 0
    /\ written' = 0
    /\ left' = 0
    /\ stored' = FALSE

Next == (\E n \in Sizes : Log(n)) \/ Store \/ Count \/ Reset

Spec == Init /\ [][Next]_vars

-----------------------------------------------------------------------------
(***************************************************************************)
(* unwrap: the live words oldest first, and the number overwritten         *)
(***************************************************************************)

\* Seeded fault: the ring counts as wrapped only with one word to spare.
Wrapped_Late == total_words > Capacity + 1

Wrapped == total_words > Capacity

\* Seeded fault: the dump is read from its first word on, the usual seam.
Oldest_First == 0

\* where the oldest retained word is
Oldest == IF Wrapped THEN total_words % Capacity ELSE 0

Live ==
    [i \in 1..(IF Wrapped THEN Capacity ELSE total_words) |->
        words[(Oldest + i - 1) % Capacity]]

Lost == IF Wrapped THEN total_words - Capacity ELSE 0

-----------------------------------------------------------------------------
TypeOK ==
    /\ words \in [0..(Capacity - 1) -> 0..MaxWords]
    /\ total_words \in 0..(Modulus - 1)
    /\ written \in 0..MaxWords
    /\ left \in Nat
    /\ stored \in BOOLEAN

\* The last n words up to the k-th.
Last(k, n) == [i \in 1..n |-> k - n + i]

Smaller(m, n) == IF m < n THEN m ELSE n

\* A dump taken between two words is exactly the words that survive, oldest
\* first, with the number of the lost ones, as long as the counter has not
\* overflowed (unwrap_log.py:28-29).
DumpIsExact ==
    ~stored /\ written < Modulus =>
        /\ Live = Last(written, Smaller(written, Capacity))
        /\ Lost = written - Len(Live)

\* The ring itself holds the latest words whatever the counter does: an
\* overflow neither skips nor repeats a slot, because Capacity divides the
\* number of values of the counter (memory_sink.hpp:29, 56-57).
RingIsRecent ==
    ~stored =>
        \A k \in 1..written :
            k > written - Capacity => words[(k - 1) % Capacity] = k

\* A dump taken between the store and the increment loses no more than one
\* word of the log: what is displaced is the newest word, at the front of a
\* full ring; before the ring is full, the new word is just not there yet.
TornByOneWord ==
    stored /\ written < Modulus =>
        IF written > Capacity
        THEN Live = <<written>> \o Last(written - 1, Capacity - 1)
        ELSE Live = Last(written - 1, written - 1)
=============================================================================
