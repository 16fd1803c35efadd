------------------------------ MODULE Monitor ------------------------------
(***************************************************************************)
(* The terminal UI of tools/logmon: LogMonApp of tui.py with its Catalog   *)
(* (catalog.py).                                                           *)
(*                                                                         *)
(* Two threads.  The reader takes chunks from the source and puts the      *)
(* decoded records into a queue.  The UI's event loop runs one callback at *)
(* a time: the drain timer, the catalogue timer, or a key.  The queue, the *)
(* catalogue and the cancel flag are shared.  Outside both, a build may    *)
(* write the catalogue's file anew.                                        *)
(*                                                                         *)
(* A record is its ordinal among the decoded ones; a catalogue is the      *)
(* number of the build that wrote it.                                      *)
(***************************************************************************)
EXTENDS Integers, Sequences, SequencesExt

CONSTANTS
    MaxRows,        \* MAX_ROWS: rows kept on screen, and records held back
    TrimSlack,      \* TRIM_SLACK: rows the table may overshoot by
    MaxAppend,      \* MAX_APPEND_PER_TICK
    MaxChunk,       \* bound: records in a chunk
    MaxRecords,     \* bound: records decoded
    MaxBuilds       \* bound: builds after the first

ASSUME MonitorAssumption ==
    /\ MaxRows \in Nat \ {0}
    /\ TrimSlack \in Nat
    /\ MaxAppend \in 1..MaxRows
    /\ MaxChunk \in Nat
    /\ MaxRecords \in Nat
    /\ MaxBuilds \in Nat

VARIABLES
    reader,     \* the reader thread: "reading" or "done"
    batch,      \* records of the chunk that it has still to put
    decoded,    \* records put so far
    cancelled,  \* worker.is_cancelled
    queue,      \* records on their way to the UI
    ui,         \* the callback in progress, "idle", or "gone" after a quit
    paused,
    pending,    \* _pending
    rows,       \* _rows
    table,      \* what is on screen
    dropped,    \* the counter of the status bar
    shown,      \* records rendered so far
    cleared,    \* records that a clear discarded unseen
    disk,       \* the build whose catalogue is on disk
    file,       \* how much of it is: "whole", "part", or "missing"
    inUse,      \* Catalog's db, messages and modules
    seen        \* Catalog's _mtime

screen == <<paused, pending, rows, table, dropped, shown, cleared>>
source == <<reader, batch, decoded, cancelled, queue>>
catalog == <<disk, file, inUse, seen>>
vars == <<source, ui, screen, catalog>>

Fields == {"db", "messages", "modules"}

\* A deque of bounded length: append, and let the excess fall off the left.
Newest(s, n) == IF Len(s) > n THEN SubSeq(s, Len(s) - n + 1, Len(s)) ELSE s

-----------------------------------------------------------------------------
(***************************************************************************)
(* The reader thread                                                       *)
(***************************************************************************)

\* Seeded fault: only a chunk with data looks at the flag.
Stops_OnData(n) == cancelled /\ n > 0

\* the flag is looked at for each chunk, a quiet link's empty ones included
Stops(n) == cancelled

\* A chunk with n records in it, or, after a quit, the end of the thread.
ReadChunk(n) ==
    /\ reader = "reading"
    /\ batch = 0
    /\ decoded + n <= MaxRecords
    /\ IF Stops(n) THEN reader' = "done" /\ UNCHANGED batch
                   ELSE batch' = n /\ UNCHANGED reader
    /\ UNCHANGED <<decoded, cancelled, queue, ui, screen, catalog>>

\* The end of a replay: the n records of what was held back come last.
SourceEnds(n) ==
    /\ reader = "reading"
    /\ batch = 0
    /\ decoded + n <= MaxRecords
    /\ reader' = "done"
    /\ batch' = n
    /\ UNCHANGED <<decoded, cancelled, queue, ui, screen, catalog>>

Put ==
    /\ batch > 0
    /\ batch' = batch - 1
    /\ decoded' = decoded + 1
    /\ queue' = Append(queue, decoded + 1)
    /\ UNCHANGED <<reader, cancelled, ui, screen, catalog>>

-----------------------------------------------------------------------------
(***************************************************************************)
(* drain                                                                   *)
(***************************************************************************)

\* Seeded fault: what falls off the left end is not counted.
Stash_Silent(x) ==
    /\ UNCHANGED dropped
    /\ pending' = Newest(Append(pending, x), MaxRows)

\* hold a record for the next render, counting what falls off
Stash(x) ==
    /\ dropped' = IF Len(pending) = MaxRows THEN dropped + 1 ELSE dropped
    /\ pending' = Newest(Append(pending, x), MaxRows)

\* Seeded fault: the model of the rebuild is bounded like the table.
Keep_WithSlack(s) == Newest(s, MaxRows + TrimSlack)

\* _rows, after an append
Keep(s) == Newest(s, MaxRows)

\* rebuild the table once it has overshot
EnforceCap(t, r) == IF Len(t) <= MaxRows + TrimSlack THEN t ELSE r

\* the newest MaxAppend records; the rest is dropped, and counted
Render ==
    LET new == Newest(pending, MaxAppend)
    IN  /\ dropped' = dropped + Len(pending) - Len(new)
        /\ shown' = shown + Len(new)
        /\ rows' = Keep(rows \o new)
        /\ table' = EnforceCap(table \o new, Keep(rows \o new))
        /\ pending' = <<>>

\* Seeded fault: held records wait for a full tick's worth of them.
Due_FullTick == ~paused /\ Len(pending) >= MaxAppend

Due == ~paused /\ pending # <<>>

\* the drain timer
Drain ==
    /\ ui = "idle"
    /\ ui' = "drain"
    /\ UNCHANGED <<source, screen, catalog>>

\* queue.get_nowait
Get ==
    /\ ui = "drain"
    /\ queue # <<>>
    /\ queue' = Tail(queue)
    /\ Stash(Head(queue))
    /\ UNCHANGED <<reader, batch, decoded, cancelled, ui, paused, rows, table,
                   shown, cleared, catalog>>

\* queue.Empty: render what is due
EndDrain ==
    /\ ui = "drain"
    /\ queue = <<>>
    /\ ui' = "idle"
    /\ IF Due THEN Render ELSE UNCHANGED <<dropped, shown, rows, table, pending>>
    /\ UNCHANGED <<source, paused, cleared, catalog>>

-----------------------------------------------------------------------------
(***************************************************************************)
(* Keys                                                                    *)
(***************************************************************************)

TogglePause ==
    /\ ui = "idle"
    /\ paused' = ~paused
    /\ UNCHANGED <<source, ui, pending, rows, table, dropped, shown, cleared,
                   catalog>>

\* Seeded fault: the rows that a rebuild renders from survive the clear.
ClearRows_Forgets == UNCHANGED rows

ClearRows == rows' = <<>>

Clear ==
    /\ ui = "idle"
    /\ table' = <<>>
    /\ ClearRows
    /\ pending' = <<>>
    /\ cleared' = cleared + Len(pending)
    /\ UNCHANGED <<source, ui, paused, dropped, shown, catalog>>

\* quit: the app ends and cancels its workers
Quit ==
    /\ ui = "idle"
    /\ ui' = "gone"
    /\ cancelled' = TRUE
    /\ UNCHANGED <<reader, batch, decoded, queue, screen, catalog>>

-----------------------------------------------------------------------------
(***************************************************************************)
(* The catalogue                                                           *)
(***************************************************************************)

\* the file's mtime: every write of a build changes it
mtime == <<disk, file>>

\* A build, which may come in the middle of a reload, removes the file or
\* empties it, and then writes it.
BuildStarts ==
    /\ file = "whole"
    /\ disk < MaxBuilds
    /\ disk' = disk + 1
    /\ file' \in {"missing", "part"}
    /\ UNCHANGED <<source, ui, screen, inUse, seen>>

BuildGoesOn ==
    /\ \/ file = "missing" /\ file' = "part"
       \/ file = "part" /\ file' = "whole"
    /\ UNCHANGED <<source, ui, screen, disk, inUse, seen>>

\* reload_if_changed: the file is there, and another than the one in use
CheckCatalog ==
    /\ ui = "idle"
    /\ file # "missing"
    /\ mtime # seen
    /\ ui' = "db"
    /\ UNCHANGED <<source, screen, catalog>>

\* reload's assignments in their order, as the reader thread may see them:
\* the text is read and parsed once, then indexed twice
Assign(field, value, next) ==
    /\ ui = field
    /\ inUse' = [inUse EXCEPT ![field] = value]
    /\ ui' = next
    /\ UNCHANGED <<source, screen, disk, file, seen>>

\* Seeded fault: the modules of the first catalogue are kept.
AssignModules_Never == Assign("modules", inUse["modules"], "stat")

AssignModules == Assign("modules", inUse["db"], "stat")

\* reload remembers the mtime the file has by now
Stat ==
    /\ ui = "stat"
    /\ file # "missing"
    /\ seen' = mtime
    /\ ui' = "idle"
    /\ UNCHANGED <<source, screen, disk, file, inUse>>

\* A text that cannot be read or parsed, or a file gone before the last stat:
\* the exception leaves the timer's callback.  The UI library then goes on or
\* ends the application.
Raises ==
    /\ \/ ui = "db" /\ file # "whole"
       \/ ui = "stat" /\ file = "missing"
    /\ \/ ui' = "idle" /\ UNCHANGED cancelled
       \/ ui' = "gone" /\ cancelled' = TRUE
    /\ UNCHANGED <<reader, batch, decoded, queue, screen, catalog>>

Reload == \/ file = "whole" /\ Assign("db", disk, "messages")
          \/ Assign("messages", inUse["db"], "modules")
          \/ AssignModules
          \/ Stat
          \/ Raises

-----------------------------------------------------------------------------
Init ==
    /\ reader = "reading" /\ batch = 0 /\ decoded = 0 /\ cancelled = FALSE
    /\ queue = <<>> /\ pending = <<>> /\ rows = <<>> /\ table = <<>>
    /\ ui = "idle" /\ paused = FALSE
    /\ dropped = 0 /\ shown = 0 /\ cleared = 0
    /\ disk = 0 /\ file = "whole"
    /\ inUse = [f \in Fields |-> 0] /\ seen = mtime

Next == \/ \E n \in 0..MaxChunk : ReadChunk(n) \/ SourceEnds(n)
        \/ Put
        \/ Drain
        \/ Get
        \/ EndDrain
        \/ TogglePause
        \/ Clear
        \/ Quit
        \/ BuildStarts \/ BuildGoesOn
        \/ CheckCatalog
        \/ Reload

Spec == Init /\ [][Next]_vars

(***************************************************************************)
(* Fairness: the source keeps yielding chunks, if only empty ones; a       *)
(* callback in progress goes on, and each timer's turn comes; a build ends *)
(* once it has started.                                                    *)
(***************************************************************************)
Fairness ==
    /\ WF_vars(ReadChunk(0))
    /\ WF_vars(Put)
    /\ WF_vars(Get \/ EndDrain \/ Reload)
    /\ SF_vars(Drain)
    /\ SF_vars(CheckCatalog)
    /\ WF_vars(BuildGoesOn)

FairSpec == Spec /\ Fairness

-----------------------------------------------------------------------------
TypeOK ==
    /\ reader \in {"reading", "done"} /\ cancelled \in BOOLEAN
    /\ batch \in 0..MaxChunk
    /\ queue \in Seq(1..MaxRecords)
    /\ ui \in {"idle", "drain", "stat", "gone"} \cup Fields
    /\ paused \in BOOLEAN
    /\ Len(pending) <= MaxRows /\ Len(rows) <= MaxRows
    /\ Len(table) <= MaxRows + TrimSlack
    /\ disk \in 0..MaxBuilds /\ file \in {"whole", "part", "missing"}
    /\ inUse \in [Fields -> 0..MaxBuilds]

\* Every record decoded is somewhere: in the queue, held back, rendered,
\* counted as dropped, or discarded by a clear (tui.py:136-138, 214-245).
Conserved ==
    decoded = Len(queue) + Len(pending) + shown + dropped + cleared

\* What is missing between the rows on screen has been counted: a gap never
\* goes unannounced (tui.py:214-219).
GapsCounted ==
    table # <<>> => Last(table) - Head(table) + 1 - Len(table) <= dropped

\* The rows a rebuild renders from are the newest rows on screen, whatever
\* was cleared: a rebuild never brings back or reorders anything.
RebuildIsExact == rows = Newest(table, MaxRows)

\* The catalogue in use comes from one file, except during a reload; then the
\* reader thread finds a mix of two in it, the one it replaces and the new one,
\* and never of more.  What a reload leaves behind, by its end or by an
\* exception, is no mix (catalog.py:38-55).
CatalogWhole ==
    LET agree(f, g) == inUse[f] = inUse[g]
    IN  /\ ui # "messages" => agree("messages", "db")
        /\ ui = "messages" => agree("messages", "modules")
        /\ ui \notin {"messages", "modules"} => agree("modules", "db")

\* A record does not stay behind: unless the view is paused or closed, the
\* drain timer takes it to the screen, or counts it.
Drained ==
    \A n \in 1..MaxRecords :
        n \in ToSet(queue) \cup ToSet(pending)
            ~> n \notin ToSet(queue) \cup ToSet(pending) \/ paused \/ ui = "gone"

\* After a quit the reader thread ends (tui.py:157-166).
ReaderEnds == ui = "gone" ~> reader = "done" /\ batch = 0

\* "a rebuild is picked up without restarting the monitor"
\* (docs/logging.org:277-279).
PicksUpRebuild ==
    \A b \in 1..MaxBuilds : disk = b ~> inUse["modules"] >= b \/ ui = "gone"
=============================================================================
