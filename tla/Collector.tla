----------------------------- MODULE Collector -----------------------------
(* One source and its coordinator task (crates/tp-collector/src/lib.rs),     *)
(* the mpsc channel, the ingest task that pushes into the pool, and the      *)
(* Upsert and Rebuild commands (src/main.rs).  Sources run in tasks of their *)
(* own and meet only in the channel, so an instance has one, chosen in the   *)
(* initial state: the CLI or IDE Antigravity collector, or a reader of       *)
(* session files.  The pool is the set of records pushed into it.            *)
EXTENDS Antigravity

CONSTANTS
    Kinds,          \* the sources an instance may have
    ClaudeScript, CodexScript,  \* what their tools will write
    Never,          \* last_collected before the first collection
    MaxNow,         \* bound: the clock
    ChanCap         \* capacity of the mpsc channel (256 in main.rs)

ASSUME CollectorAssumption ==
    /\ Kinds \subseteq {"cli", "ide", "claude", "codex"}
    /\ Never \notin Int /\ ChanCap \in Nat \ {0} /\ MaxNow \in Nat \ {0}

ASSUME ScriptAssumption ==
    /\ {Len(ClaudeScript), Len(CodexScript)} \subseteq Nat
    /\ \A i \in 1..Len(ClaudeScript) :
           ClaudeScript[i].total \in Nat /\ {ClaudeScript[i].side, ClaudeScript[i].speed} \subseteq BOOLEAN
    /\ \A i \in 1..Len(CodexScript) : {CodexScript[i].total, CodexScript[i].last} \subseteq Nat

VARIABLES
    kind,       \* the source
    stamps,     \* the timestamps of the lines its tool has produced
    shown,      \* how many of them are in the file
    now,        \* the clock
    last,       \* last_collected
    task,       \* the coordinator task: "idle" or, with a batch to hand on, "send"
    batch,      \* what it has collected
    command,    \* a TriggerUpsert or TriggerRebuild waits in its broadcast receiver
    chan,       \* the mpsc channel
    pool,       \* records in the pool
    lost,       \* ghost: records in memory when a push failed or the process ended,
                \* and which nothing has asked for anew since
    sent,       \* ghost: how often the ingest task got a call's record, as a bag
    seen,       \* ghost: lines in the file at the last collection
    slipped,    \* ghost: lines that came too late for one collection, too old for the next
    resets,     \* ghost: restarts and rebuilds so far
    rebuild,    \* the command task: "none" or, in a Rebuild, what it does next
    cleared,    \* ghost: records clear_storage removed and which nothing has asked
                \* for anew since
    raced       \* ghost: the session that was being fetched when the store was reset

fileVars  == <<stamps, shown, now>>
taskVars  == <<last, task, batch, command>>
ghostVars == <<sent, seen, slipped, resets>>
rebuildVars == <<rebuild, cleared, raced>>
vars == <<ingestVars, kind, rebuildVars, fileVars, taskVars, chan, pool, lost, ghostVars>>

Claude == INSTANCE SessionFiles WITH Script <- ClaudeScript
Codex  == INSTANCE SessionFiles WITH Script <- CodexScript

Streams == kind \in {"cli", "ide"}
ScriptLen == IF kind = "claude" THEN Len(ClaudeScript) ELSE IF kind = "codex" THEN Len(CodexScript) ELSE 0

Init ==
    /\ IngestInit
    /\ kind \in Kinds
    /\ stamps = <<>> /\ shown = 0 /\ now = 1
    /\ last = Never /\ task = "idle" /\ batch = <<>> /\ command = FALSE
    /\ chan = <<>> /\ pool = {}
    /\ lost = {} /\ sent = EmptyBag /\ seen = 0 /\ slipped = {} /\ resets = 0
    /\ rebuild = "none" /\ cleared = {} /\ raced = {}

-----------------------------------------------------------------------------
(* The tool whose files are read: it stamps a line and writes it, then or    *)
(* some time later.                                                          *)

Stamp ==
    /\ Len(stamps) < ScriptLen
    /\ stamps' = Append(stamps, now)
    /\ UNCHANGED <<ingestVars, kind, rebuildVars, shown, now, taskVars, chan, pool, lost, ghostVars>>

Show ==
    /\ shown < Len(stamps)
    /\ shown' = shown + 1
    /\ UNCHANGED <<ingestVars, kind, rebuildVars, stamps, now, taskVars, chan, pool, lost, ghostVars>>

Tick ==
    /\ ~ Streams /\ now < MaxNow
    /\ now' = now + 1
    /\ UNCHANGED <<ingestVars, kind, rebuildVars, stamps, shown, taskVars, chan, pool, lost, ghostVars>>

-----------------------------------------------------------------------------
(* The coordinator task: collect_and_push.                                   *)

\* Everything of antigravity's but the store, and but the count of faults.
NotTheStore == UNCHANGED <<sess, mtime, disk, round, toff, parsed, faults, failed>>
NotFaults   == UNCHANGED <<sess, mtime, store, disk, round, toff, parsed, failed>>

\* An Antigravity source hands over what its store has, whatever `since` is.
CollectStore(since) ==
    /\ task = "idle" /\ Streams
    /\ batch' = Pulled(store, "framework")
    /\ store' = AfterPull(store, "framework")
    /\ last' = since /\ task' = "send"
    /\ NotTheStore
    /\ UNCHANGED <<kind, rebuildVars, fileVars, chan, pool, lost, ghostVars>>

FileLogs(since) ==
    LET file == SubSeq(stamps, 1, shown)
    IN  IF kind = "claude" THEN Claude!ClaudeLogs(file, since) ELSE Codex!CodexLogs(file, since)

\* A file source reads its files: all of them, or since the last collection.
CollectFiles(since) ==
    /\ task = "idle" /\ ~ Streams
    /\ batch' = SetToSeq(FileLogs(since))
    /\ last' = since /\ task' = "send"
    /\ seen' = shown
    /\ slipped' = IF since = Never THEN slipped \ 1..shown ELSE slipped
    /\ lost' = IF since = Never THEN {} ELSE lost
    /\ cleared' = IF since = Never THEN {} ELSE cleared
    /\ UNCHANGED <<ingestVars, kind, rebuild, raced, fileVars, chan, pool, sent, resets>>

\* A file source fails.
CollectError(since) ==
    /\ task = "idle" /\ ~ Streams
    /\ Fault
    /\ last' = since
    /\ NotFaults
    /\ UNCHANGED <<kind, rebuildVars, fileVars, task, batch, chan, pool, lost, ghostVars>>

Collect(since) == CollectStore(since) \/ CollectFiles(since) \/ CollectError(since)

\* The timer or, for a store, the notification of an append.
Wake == Collect(last) /\ UNCHANGED command

\* A command (or Lagged, which stands for several): everything is collected again.
ReceiveCommand == command /\ command' = FALSE /\ Collect(Never)

\* The batch is sent, if there is one, and the time is taken now, after the reading.
Send ==
    /\ task = "send"
    /\ \/ batch = <<>> /\ UNCHANGED chan
       \/ batch # <<>> /\ Len(chan) < ChanCap /\ chan' = Append(chan, batch)
    /\ last' = now
    /\ slipped' = slipped \cup {i \in seen + 1..Len(stamps) : stamps[i] < now}
    /\ batch' = <<>>
    /\ task' = "idle"
    /\ UNCHANGED <<ingestVars, kind, rebuildVars, fileVars, command, pool, lost, sent, seen, resets>>

-----------------------------------------------------------------------------
(* The ingest task.                                                          *)

\* Of an Antigravity batch, the records of calls that a step index tells apart.
OnceOnly(rs) == {r \in rs : Streams /\ StepIndices(r.s, r.i) # {}}

Ingest ==
    /\ chan # <<>>
    /\ pool' = pool \cup Range(Head(chan))
    /\ sent' = sent (+) SetToBag(OnceOnly(Range(Head(chan))))
    /\ chan' = Tail(chan)
    /\ UNCHANGED <<ingestVars, kind, rebuildVars, fileVars, taskVars, lost, seen, slipped, resets>>

\* push_datalogs fails; the batch is gone.
IngestError ==
    /\ chan # <<>>
    /\ Fault
    /\ lost' = lost \cup Range(Head(chan))
    /\ chan' = Tail(chan)
    /\ NotFaults
    /\ UNCHANGED <<kind, rebuildVars, fileVars, taskVars, pool, ghostVars>>

-----------------------------------------------------------------------------
(* Commands and restarts.                                                    *)

Upsert ==
    /\ rebuild = "none" /\ Fault
    /\ command' = TRUE
    /\ NotFaults
    /\ UNCHANGED <<kind, rebuildVars, fileVars, last, task, batch, chan, pool, lost, ghostVars>>

\* A Rebuild: clear_storage removes the records, all or, when it fails, some of them.
ClearStorage ==
    /\ rebuild = "none" /\ Fault
    /\ pool' \in SUBSET pool
    /\ cleared' = cleared \cup (pool \ pool')
    /\ rebuild' = IF Streams THEN "store" ELSE "broadcast"
    /\ NotFaults /\ UNCHANGED store
    /\ UNCHANGED <<kind, raced, fileVars, taskVars, chan, lost, ghostVars>>

\* The store is reset: whatever had been lost or cleared will be fetched anew.
ResetStore ==
    /\ rebuild = "store"
    /\ RebuildStore
    /\ lost' = {} /\ cleared' = {} /\ raced' = round.cur
    /\ rebuild' = IF kind = "cli" THEN "transcripts" ELSE "broadcast"
    /\ resets' = resets + 1
    /\ UNCHANGED <<kind, fileVars, taskVars, chan, pool, sent, seen, slipped>>

ResetTranscripts ==
    /\ rebuild = "transcripts"
    /\ RebuildTranscripts
    /\ rebuild' = "broadcast"
    /\ UNCHANGED <<kind, cleared, raced, fileVars, taskVars, chan, pool, lost, ghostVars>>

\* The sources are told to start over.
Broadcast ==
    /\ rebuild = "broadcast"
    /\ command' = TRUE
    /\ rebuild' = "none"
    /\ UNCHANGED <<ingestVars, kind, cleared, raced, fileVars, last, task, batch, chan, pool, lost, ghostVars>>

RebuildStep == ResetStore \/ ResetTranscripts \/ Broadcast

InMemory == Range(store.entries) \cup Range(batch) \cup UNION {Range(chan[n]) : n \in DOMAIN chan}
                \cup Range(parsed)

\* The process ends, in a crash or at quit, also between the two files of a flush
\* and between the steps of a Rebuild; where it keeps the store from being reset, the
\* two count as one fault.
Crash ==
    /\ IF rebuild = "store" THEN UNCHANGED faults ELSE Fault
    /\ \/ Restart(disk)
       \/ round.at = "pick" /\ round.todo = {} /\ store.dirty /\ Restart(FlushCut(store, disk))
       \/ rebuild = "store" /\ Restart(RebuildCut(disk))
    /\ lost' = lost \cup InMemory
    /\ last' = Never /\ task' = "idle" /\ batch' = <<>> /\ command' = FALSE
    /\ chan' = <<>> /\ rebuild' = "none"
    /\ resets' = resets + 1
    /\ UNCHANGED <<kind, cleared, raced, fileVars, pool, sent, seen, slipped>>

-----------------------------------------------------------------------------

OnlyIngest == UNCHANGED <<kind, rebuildVars, fileVars, taskVars, chan, pool, lost, ghostVars>>

ListSome == \E listed \in SUBSET Sessions : IngestList(listed)
ListAll  == IngestList(Sessions)

FetchStep ==
    \E s \in Sessions : PickSkip(s) \/ PickFetch(s) \/ RpcAnswer(s) \/ Advance(s) \/ Mark(s)

TranscriptStep ==
    \/ kind = "cli" /\ (ReadTranscripts \/ AppendEstimates)
    \/ kind = "ide" /\ SkipTranscripts

IngestStep ==
    /\ Streams
    /\ \/ \E s \in Sessions : Work(s) \/ RpcFail(s)
       \/ ListSome \/ IngestOffline \/ FetchStep \/ Flush \/ TranscriptStep
    /\ OnlyIngest

Next ==
    \/ IngestStep
    \/ Stamp \/ Show \/ Tick
    \/ Wake \/ ReceiveCommand \/ Send
    \/ Ingest \/ IngestError
    \/ Upsert \/ ClearStorage \/ RebuildStep \/ Crash

\* The tasks run; the timer fires; the tool writes what it has stamped; and of the
\* environment, that the language server can again and again be reached and
\* lists its sessions.
Fairness ==
    /\ SF_vars(Streams /\ ListAll /\ OnlyIngest)
    /\ WF_vars(Streams /\ (FetchStep \/ Flush \/ TranscriptStep) /\ OnlyIngest)
    /\ WF_vars(Wake \/ Send) /\ SF_vars(ReceiveCommand)
    /\ WF_vars(Ingest) /\ WF_vars(RebuildStep)

Spec == Init /\ [][Next]_vars /\ Fairness

-----------------------------------------------------------------------------
(* Properties.                                                               *)

Travelling == Range(store.entries) \cup Range(batch) \cup UNION {Range(chan[n]) : n \in DOMAIN chan}

\* A record is on its way or has arrived, or is one of those that were lost, or
\* that a Rebuild cleared which the end of the process cut off or which goes on.
Accounted(r) == r \in Travelling \cup pool \cup lost \cup cleared

Calls == {c \in Sessions \X (1..MaxMtime) : c[2] <= Len(sess[c[1]])}

FileLine(i) == IF kind = "claude" THEN ClaudeScript[i] ELSE CodexScript[i]

\* The line's record, or for Claude Code one of the message that the line would
\* not replace, is among rs; a Codex line without usage needs none.
Carried(i, rs) ==
    \/ kind = "codex" /\ Codex!CodexAmount(i, {}) = 0
    \/ \E r \in rs : IF kind = "codex" THEN r.i = i
                     ELSE /\ ClaudeScript[r.i].key = ClaudeScript[i].key
                          /\ ~ Claude!ShouldReplace(ClaudeScript[i], ClaudeScript[r.i])

\* Type invariant: cursors never point past the entries, the marks never past the
\* session, the transcript offsets never past the transcript.
CollectorTypeOK ==
    /\ kind \in Kinds
    /\ \A s \in Sessions :
           /\ Len(sess[s]) <= mtime[s] /\ mtime[s] <= MaxMtime
           /\ store.offsets[s] \in 0..Len(sess[s]) /\ disk.offsets[s] \in 0..Len(sess[s])
           /\ store.mtimes[s] \in 0..mtime[s] /\ disk.mtimes[s] \in 0..mtime[s]
           /\ toff[s].lines \in 0..Len(sess[s])
           /\ toff[s].atModel <= toff[s].cumulative
    /\ \A c \in DOMAIN store.cursors : store.cursors[c] \in 0..Len(store.entries)
    /\ rebuild \in {"none", "store", "transcripts", "broadcast"}
    /\ rebuild \in {"store", "transcripts"} => Streams
    /\ task \in {"idle", "send"} /\ (batch # <<>> => task = "send")
    /\ last = Never \/ last \in 1..now
    /\ shown <= Len(stamps) /\ Len(chan) <= ChanCap

\* A call below a session's offset will not be fetched again, so its record is in
\* the store, on its way or in the pool: only a failed push, the end of the process
\* or a Rebuild it cuts off loses one, never an append, a pull or a restart between
\* two calls.  Not so for a session a Rebuild met in the middle of its fetch.
FetchedIsKept ==
    \A c \in Calls : StepIndices(c[1], c[2]) # {} /\ c[2] <= store.offsets[c[1]] =>
        c[1] \in raced \/ Accounted(Fetched(c[1], c[2]))

\* A session is skipped while its stored time is not older than the listed one:
\* whatever had happened in it by the stored time has been fetched, unless the
\* fetch failed or a Rebuild met it.
MarkedIsFetched ==
    \A c \in Calls : sess[c[1]][c[2]] <= store.mtimes[c[1]] =>
        c[1] \in failed \cup raced \/ Accounted(Fetched(c[1], c[2]))

\* After a reset of the store the next round fetches everything again, from offset
\* 0 (ingest_store.rs:207), whatever the ingest loop was doing when it came.
NextRoundFetchesAll ==
    \A c \in Calls : StepIndices(c[1], c[2]) # {} /\ c[2] <= store.offsets[c[1]] =>
        Accounted(Fetched(c[1], c[2]))

\* The offsets and the cursor together deliver a record once, and once more after
\* a restart or a Rebuild (not so what names no step, which every fetch repeats).
DeliveredOnce ==
    \A r \in BagToSet(sent) : sent[r] <= 1 + resets

\* However a transcript's reading is cut up by rounds, restarts and Rebuilds, the
\* estimate of a call is the one that reading the transcript in one go gives.
EstimateStable ==
    Streams => \A r \in Travelling \cup pool : r.via = "transcript" =>
        r \in Range(EstimatesFrom(r.s, NothingRead, Len(sess[r.s])))

\* Whichever lines `since` leaves out of an incremental collection, the amount of
\* a Codex record is the one of a full collection.
CodexExact ==
    kind = "codex" => Travelling \cup pool \subseteq Codex!CodexLogs(stamps, Never)

\* What a file holds is carried, or will be read by the next collection, or has
\* slipped through: stamped before the end of a collection, written after its start.
ReadOrSlipped ==
    \A i \in 1..shown :
        \/ command \/ last = Never \/ stamps[i] >= last
        \/ i \in slipped
        \/ Carried(i, Travelling \cup pool \cup lost \cup cleared)

\* Once the tools fall silent (and no more faults happen), everything they have
\* recorded ends up in the pool and stays, after a Rebuild too: except what was
\* lost or has slipped, the calls of a session whose last fetch failed or was met
\* by a Rebuild, and those of a Rebuild that was cut off.
Arrives ==
    <>[](/\ \A c \in Calls :
                Fetched(c[1], c[2]) \in pool \cup lost \cup cleared \/ c[1] \in failed \cup raced
         /\ \A i \in 1..shown : Carried(i, pool \cup lost) \/ i \in slipped)
=============================================================================
