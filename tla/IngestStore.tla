---------------------------- MODULE IngestStore ----------------------------
(* The store between an Antigravity ingest loop and the framework            *)
(* (plugins/tp-antigravity-common/src/ingest_store.rs): the entries in       *)
(* memory, one cursor per consumer, and for every session the step offset    *)
(* and the modification time up to which it has been fetched, which flush    *)
(* saves.  The store sits behind one mutex; every operator is one call.      *)
EXTENDS Integers, Sequences, FiniteSetsExt, TLC

CONSTANTS Sessions,     \* session ids
          Consumers     \* consumer ids (the program has one, "framework")

NoMarks == [s \in Sessions |-> 0]

\* What the two JSON files hold.
EmptyDisk == [offsets |-> NoMarks, mtimes |-> NoMarks]

\* A store opened over those files: entries and cursors start empty.
Open(disk) ==
    [entries |-> <<>>, cursors |-> <<>>,
     offsets |-> disk.offsets, mtimes |-> disk.mtimes, dirty |-> FALSE]

Appended(st, logs) == [st EXCEPT !.entries = @ \o logs]

AdvanceOffset(st, s, offset) ==
    IF offset > st.offsets[s] THEN [st EXCEPT !.offsets[s] = offset, !.dirty = TRUE] ELSE st

UpdateMtime(st, s, mtime) ==
    IF mtime > st.mtimes[s] THEN [st EXCEPT !.mtimes[s] = mtime, !.dirty = TRUE] ELSE st

\* flush saves the offsets first, then the modification times.
SaveOffsets(st, disk) == [disk EXCEPT !.offsets = st.offsets]
SaveMtimes(st, disk)  == [disk EXCEPT !.mtimes = st.mtimes]

Flushed(st, disk) == IF st.dirty THEN SaveMtimes(st, SaveOffsets(st, disk)) ELSE disk

\* The files after a crash between the two saves.
FlushCut(st, disk) == SaveOffsets(st, disk)

\* The files after a crash in a rebuild, which empties the offsets first.
RebuildCut(disk) == [disk EXCEPT !.offsets = NoMarks]

-----------------------------------------------------------------------------
(* pull: what the consumer has not seen; entries every consumer has seen go. *)

CursorOf(st, c) == IF c \in DOMAIN st.cursors THEN st.cursors[c] ELSE 0

Pulled(st, c) == SubSeq(st.entries, CursorOf(st, c) + 1, Len(st.entries))

\* The cursors, that of the consumer at the end.
Moved(st, c) ==
    [d \in DOMAIN st.cursors \cup {c} |-> IF d = c THEN Len(st.entries) ELSE st.cursors[d]]

\* A variation of AfterPull, the entries kept, the cursors moved back all the same: DeliveredOnce.
AfterPullUndrained(st, c) ==
    IF Pulled(st, c) = <<>> THEN st ELSE [st EXCEPT !.cursors = (c :> 0) @@ st.cursors]

\* A variation of AfterPull, the cursors left where they were moved to: CollectorTypeOK.
AfterPullAhead(st, c) ==
    IF Pulled(st, c) = <<>> THEN st ELSE [st EXCEPT !.entries = <<>>, !.cursors = Moved(st, c)]

AfterPull(st, c) ==
    LET moved == Moved(st, c)
        least == Min({moved[d] : d \in DOMAIN moved})
    IN  IF Pulled(st, c) = <<>> THEN st
        ELSE [st EXCEPT !.entries = SubSeq(@, least + 1, Len(@)),
                        !.cursors = [d \in DOMAIN moved |-> moved[d] - least]]
=============================================================================
