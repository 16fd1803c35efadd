------------------------------ MODULE Decoder ------------------------------
(***************************************************************************)
(* The way of a byte stream through tools/logmon: Aligner and Decoder of   *)
(* decode.py, driven by the reading loop of cli.py and tui.py.             *)
(*                                                                         *)
(* CIB's message classes (external) pull bytes off an iterator: started at *)
(* a byte of the stream they return a message after some number of bytes,  *)
(* or raise after some number, or run off the end of the buffer, whatever  *)
(* the buffer is.  So the stream is given by their verdict at each of its  *)
(* bytes, chosen at the start and otherwise arbitrary.  Positions count    *)
(* the bytes of the stream from 0; the decoder's buffer holds those from   *)
(* pos up to given.                                                        *)
(***************************************************************************)
EXTENDS Integers, FiniteSets

CONSTANTS
    WordSize,   \* WORD_SIZE
    MaxPacket,  \* MAX_PACKET_BYTES
    Sample,     \* Aligner.SAMPLE
    Probes,     \* probes of detect_alignment
    Lengths,    \* numbers of bytes after which a message class may decide
    StreamLen,  \* bound: bytes of the stream
    MaxChunk,   \* bound: bytes of a chunk
    Unknown,    \* None: no alignment is known yet
    Start       \* the alignment asked for: one of 0..WordSize - 1, or Unknown

ASSUME DecoderAssumption ==
    /\ WordSize \in Nat \ {0}
    /\ MaxPacket \in Nat \ {0} /\ Probes \in Nat \ {0} /\ Sample \in Nat \ {0}
    /\ Lengths \subseteq Nat \ {0}
    /\ StreamLen \in Nat /\ MaxChunk \in Nat
    /\ Unknown \notin 0..(WordSize - 1)
    /\ Start \in 0..(WordSize - 1) \cup {Unknown}

\* "type": the first byte names no message class.
Verdicts == {[kind |-> "type", n |-> 1]}
                \cup [kind : {"good", "bad"}, n : Lengths]

Positions == 0..(StreamLen - 1)

VARIABLES
    verdict,    \* what the message classes make of each byte as a first byte
    arrived,    \* bytes the source has yielded
    ended,      \* the source is exhausted
    held,       \* bytes in Aligner._pending
    align,      \* Aligner.align
    pos,        \* bytes gone from the decoder's buffer (and before align)
    given,      \* end of the decoder's buffer
    feeding,    \* Decoder.feed is at work
    packets,    \* stats.packets
    errors,     \* stats.errors
    resync      \* stats.resync_bytes

vars == <<verdict, arrived, ended, held, align, pos, given, feeding,
          packets, errors, resync>>

Smaller(m, n) == IF m < n THEN m ELSE n

-----------------------------------------------------------------------------
(***************************************************************************)
(* _decode_one on the bytes from p up to e                                 *)
(***************************************************************************)

\* Seeded fault: the tail is never given up.
GivesUp_Never(p, e) == FALSE

\* Seeded fault: an incomplete word is given up, though the rest may come.
GivesUp_Word(p, e) == e - p >= WordSize

\* past this size an undecodable packet is corrupt, whatever it reads
GivesUp(p, e) == e - p >= MaxPacket

\* the iterator was used up: nothing tells a message that broke off from
\* one that is wrong
RanOff(p, e) ==
    \/ verdict[p].n > e - p
    \/ verdict[p].kind = "bad" /\ verdict[p].n = e - p

\* _Incomplete
Incomplete(p, e) ==
    p < e => verdict[p].kind # "type" /\ RanOff(p, e) /\ ~GivesUp(p, e)

\* a message
Decodes(p, e) == p < e /\ verdict[p].kind = "good" /\ verdict[p].n <= e - p

\* Seeded fault: resynchronising by one byte.
Skipped_Byte(p, e) == 1

\* the rest is _Corrupt; the bytes by which the buffer advances
Skipped(p, e) == Smaller(WordSize, e - p)
Advance(p, e) == IF Decodes(p, e) THEN verdict[p].n ELSE Skipped(p, e)

(***************************************************************************)
(* Decoding the bytes from p up to e in one go: where it stops, and how    *)
(* many messages it finds, at most m of the first records counted.         *)
(***************************************************************************)
StopsAt(p, e) ==
    LET f[q \in 0..StreamLen] ==
            IF Incomplete(q, e) THEN q ELSE f[q + Advance(q, e)]
    IN  f[p]

Messages(p, e, m) ==
    LET f[r \in 0..m] == [q \in 0..StreamLen |->
            IF r = 0 \/ Incomplete(q, e) THEN 0
            ELSE (IF Decodes(q, e) THEN 1 ELSE 0) + f[r - 1][q + Advance(q, e)]]
    IN  f[m][p]

-----------------------------------------------------------------------------
(***************************************************************************)
(* detect_alignment and Aligner                                            *)
(***************************************************************************)

\* score of an offset of the first h bytes
Score(o, h) == Messages(Smaller(o, h), h, Probes)

Better(o, u, h) == Score(o, h) > Score(u, h)

\* the best offset; ties go to the lower one
Detect(h) ==
    CHOOSE o \in 0..(WordSize - 1) : \A u \in 0..(WordSize - 1) :
        /\ u < o => Better(o, u, h)
        /\ u > o => ~Better(u, o, h)

\* Seeded fault: the released bytes are not cleared.
Resolve_Keeps(h) ==
    /\ align' = Detect(h)
    /\ pos' = Smaller(align', h)
    /\ held' = h
    /\ given' = h
    /\ feeding' = TRUE

\* release what is held, from the offset on
Resolve(h) ==
    /\ align' = Detect(h)
    /\ pos' = Smaller(align', h)
    /\ held' = 0
    /\ given' = h
    /\ feeding' = TRUE

\* Seeded fault: only a full sample ends the wait.
Enough_SampleOnly(h, k, gap) == h >= Sample

\* a full sample, or a quiet gap after some bytes
Enough(h, k, gap) == h >= Sample \/ (h > 0 /\ k = 0 /\ gap)

\* A chunk of k bytes, perhaps none; gap: QUIET has passed since the last.
Chunk(k, gap) ==
    /\ ~feeding /\ ~ended
    /\ arrived + k <= StreamLen
    /\ arrived' = arrived + k
    /\ \/ /\ align # Unknown
          /\ given' = given + k
          /\ feeding' = TRUE
          /\ UNCHANGED <<held, align, pos>>
       \/ /\ align = Unknown
          /\ Enough(held + k, k, gap)
          /\ Resolve(held + k)
       \/ /\ align = Unknown
          /\ ~Enough(held + k, k, gap)
          /\ held' = held + k
          /\ UNCHANGED <<align, pos, given, feeding>>
    /\ UNCHANGED <<verdict, ended, packets, errors, resync>>

\* what is held is not lost at the end of the stream
Flush == IF align = Unknown /\ held > 0 THEN Resolve(held)
         ELSE UNCHANGED <<held, align, pos, given, feeding>>

\* the source is exhausted
End ==
    /\ ~feeding /\ ~ended
    /\ ended' = TRUE
    /\ Flush
    /\ UNCHANGED <<verdict, arrived, packets, errors, resync>>

-----------------------------------------------------------------------------
(***************************************************************************)
(* Decoder.feed, one turn of its loop at a time                            *)
(***************************************************************************)
Emit ==
    /\ feeding
    /\ ~Incomplete(pos, given)
    /\ Decodes(pos, given)
    /\ pos' = pos + verdict[pos].n
    /\ packets' = packets + 1
    /\ UNCHANGED <<verdict, arrived, ended, held, align, given, feeding,
                   errors, resync>>

Drop == Skipped(pos, given)

Skip ==
    /\ feeding
    /\ ~Incomplete(pos, given)
    /\ ~Decodes(pos, given)
    /\ pos' = pos + Drop
    /\ errors' = errors + 1
    /\ resync' = resync + Drop
    /\ UNCHANGED <<verdict, arrived, ended, held, align, given, feeding, packets>>

\* the buffer is empty or ends in the middle of a packet
Wait ==
    /\ feeding
    /\ Incomplete(pos, given)
    /\ feeding' = FALSE
    /\ UNCHANGED <<verdict, arrived, ended, held, align, pos, given,
                   packets, errors, resync>>

Init ==
    /\ verdict \in [Positions -> Verdicts]
    /\ arrived = 0 /\ ended = FALSE
    /\ held = 0 /\ align = Start
    /\ pos = 0 /\ given = 0 /\ feeding = FALSE
    /\ packets = 0 /\ errors = 0 /\ resync = 0

Next == \/ \E k \in 0..MaxChunk, gap \in BOOLEAN : Chunk(k, gap)
        \/ End
        \/ Emit
        \/ Skip
        \/ Wait

Spec == Init /\ [][Next]_vars

(***************************************************************************)
(* Fairness: a feed at work goes on, and the source either ends or keeps   *)
(* yielding chunks, so that a gap without data is noticed.                 *)
(***************************************************************************)
Fairness == /\ WF_vars(Emit \/ Skip \/ Wait)
            /\ WF_vars(Chunk(0, TRUE))

FairSpec == Spec /\ Fairness

-----------------------------------------------------------------------------
TypeOK ==
    /\ arrived \in 0..StreamLen /\ ended \in BOOLEAN /\ feeding \in BOOLEAN
    /\ held \in 0..(Sample - 1)
    /\ align \in 0..(WordSize - 1) \cup {Unknown}
    /\ 0 <= pos /\ pos <= given /\ given <= arrived

Aligned == align # Unknown

\* Where the decoder stands does not depend on how the bytes were cut into
\* chunks, only on how many have come: as long as no message is longer than
\* MAX_PACKET_BYTES, and no word was cut before it could be skipped whole
\* (decode.py:57-60, 138-161, 185-191).
ChunkIndependent ==
    /\ Aligned /\ ~feeding
    /\ \A p \in Positions : verdict[p].n <= MaxPacket
    /\ resync = errors * WordSize
    => /\ pos = StopsAt(Smaller(align, given), given)
       /\ packets = Messages(Smaller(align, given), given, StreamLen)

\* No bytes are lost on the way to the decoder: once aligned, none is held
\* and all have been given (decode.py:264-288).
NothingHeldBack == (Aligned => held = 0) /\ arrived = given + held

\* Between two feeds the buffer is short of the cap: an undecodable tail
\* cannot grow (decode.py:39-40, 57-60).
TailBounded == ~feeding => given - pos < MaxPacket

\* Bytes wait for their alignment only so long: a quiet gap or the end of
\* the stream releases them too (decode.py:238-242).
Released == held > 0 ~> held = 0

\* The stream has messages, all of whole words and from one offset on.
OnlyAt(o) ==
    /\ \E p \in Positions : verdict[p].kind = "good"
    /\ \A p \in Positions : verdict[p].kind = "good" =>
           p % WordSize = o /\ verdict[p].n % WordSize = 0

\* Attaching anywhere in such a stream finds the offset, if what was held
\* back yields a message there; "an already-aligned stream stays at 0" even
\* if it does not (decode.py:213-227).
AlignmentFound ==
    [][\A o \in 0..(WordSize - 1) :
        align = Unknown /\ align' # Unknown /\ OnlyAt(o)
            /\ (o = 0 \/ Messages(o, given', Probes) > 0)
        => align' = o]_vars

\* "An undecodable packet advances the buffer by one word rather than one
\* byte" (docs/logging.org:347-348): so a stream of such messages, once the
\* offset is right, is never left for another, whatever has to be skipped.
StaysInPhase ==
    Aligned /\ OnlyAt(align) /\ pos < given => pos % WordSize = align

\* The target was reset: from byte q of the stream on, every message is of
\* whole words and starts whole words after q.
Resumes(q) ==
    \A p \in Positions : p >= q /\ verdict[p].kind = "good" =>
        (p - q) % WordSize = 0 /\ verdict[p].n % WordSize = 0

OffGrid(q) == pos >= q /\ (pos - q) % WordSize # 0

\* Alignment is scored once (decode.py:266-267) and a skip is of whole words
\* (decode.py:188-189).  So a decoder that a reset has left off the target's
\* words decodes none of its messages, however many come, and only a word
\* cut off by the end of a read can bring it back.
OffGridStays ==
    [][\A q \in Positions : Resumes(q) /\ Aligned /\ OffGrid(q) =>
           /\ packets' = packets
           /\ OffGrid(q)' \/ given - pos < WordSize]_vars
=============================================================================
