---------------------------- MODULE Antigravity ----------------------------
(* The background ingest of an Antigravity collector: in every round it      *)
(* lists the sessions of the language server, fetches the ones modified      *)
(* since the stored time, keeps what lies at or past the stored offset, and  *)
(* flushes the marks at the end.  The CLI collector then estimates the       *)
(* sessions the round did not reach from their transcripts                   *)
(* (plugins/tp-collector-antigravity/src/lib.rs; the IDE collector,          *)
(* plugins/tp-collector-antigravity-ide/src/lib.rs, has no such part).       *)
(*                                                                           *)
(* The language server and the user are outside: a session is the sequence   *)
(* of its generator calls, each with the modification time it appeared at;   *)
(* step i of the session is call i, and its transcript has a line for it.    *)
EXTENDS IngestStore, SequencesExt

CONSTANTS
    Unindexed,      \* calls <<s, i>> whose metadata names no step
    Line,           \* session -> what its transcript holds, [kind, size] per call
    PromptBase,     \* the 500 tokens a prompt is taken to have
    MaxMtime,       \* bound: modifications per session
    MaxWaiting,     \* bound: a round starts with at most so many entries in the store
    MaxFaults       \* bound: failures, restarts and commands together

ASSUME IngestAssumption ==
    /\ IsFiniteSet(Sessions)
    /\ {PromptBase, MaxMtime, MaxWaiting, MaxFaults} \subseteq Nat
    /\ \A s \in Sessions, i \in 1..MaxMtime : Line[s][i].size \in Nat

VARIABLES
    sess,       \* session -> for every call the mtime at which it appeared
    mtime,      \* session -> its last modification
    store,      \* the IngestStore
    disk,       \* its two files
    round,      \* the round of ingest_loop: see Idle
    toff,       \* transcript_offsets: session -> lines read and the estimate's state
    parsed,     \* what the transcript pass has read and not appended yet
    faults,     \* failures, restarts and commands so far
    failed      \* ghost: sessions whose last fetch failed and that are marked all the same

ingestVars == <<sess, mtime, store, disk, round, toff, parsed, faults, failed>>

\* What one call yields: from the metadata, or estimated from the transcript.
Fetched(s, i)          == [s |-> s, i |-> i, via |-> "rpc", tokens |-> <<>>]
Estimated(s, i, usage) == [s |-> s, i |-> i, via |-> "transcript", tokens |-> usage]

\* step_indices of a call's metadata, counted from 0 as the language server does.
StepIndices(s, i) == IF <<s, i>> \in Unindexed THEN {} ELSE {i - 1}

NoRound == [at |-> "sleep", todo |-> {}, listed |-> NoMarks, covered |-> {},
            cur |-> {}, start |-> 0, stored |-> 0, next |-> 0, fetched |-> FALSE]

NothingRead == [lines |-> 0, cumulative |-> 0, atModel |-> 0]

IngestInit ==
    /\ sess = [s \in Sessions |-> <<>>] /\ mtime = NoMarks
    /\ disk = EmptyDisk /\ store = Open(EmptyDisk)
    /\ round = NoRound
    /\ toff = [s \in Sessions |-> NothingRead] /\ parsed = <<>>
    /\ faults = 0 /\ failed = {}

-----------------------------------------------------------------------------
(* The environment: the user works in a session.                             *)

Work(s) ==
    /\ mtime[s] < MaxMtime
    /\ mtime' = [mtime EXCEPT ![s] = @ + 1]
    /\ \/ sess' = [sess EXCEPT ![s] = Append(@, mtime'[s])]
       \/ UNCHANGED sess
    /\ UNCHANGED <<store, disk, round, toff, parsed, faults, failed>>

-----------------------------------------------------------------------------
(* A round.                                                                  *)

\* The server answers, and every session in `listed` is found, in its list or as a
\* directory, with its modification time (0: not known, here that of an unused one).
IngestList(listed) ==
    /\ round.at = "sleep" /\ Len(store.entries) <= MaxWaiting
    /\ round' = [NoRound EXCEPT !.at = "pick", !.todo = listed,
                     !.listed = [s \in Sessions |-> IF s \in listed THEN mtime[s] ELSE 0]]
    /\ UNCHANGED <<sess, mtime, store, disk, toff, parsed, faults, failed>>

\* No connection: neither fetches nor a flush.
IngestOffline ==
    /\ round.at = "sleep" /\ Len(store.entries) <= MaxWaiting
    /\ round' = [NoRound EXCEPT !.at = "transcripts"]
    /\ UNCHANGED <<sess, mtime, store, disk, toff, parsed, faults, failed>>

Fault == faults < MaxFaults /\ faults' = faults + 1

UpToDate(s) ==
    round.listed[s] > 0 /\ store.mtimes[s] > 0 /\ round.listed[s] <= store.mtimes[s]

PickSkip(s) ==
    /\ round.at = "pick" /\ s \in round.todo
    /\ UpToDate(s)
    /\ round' = [round EXCEPT !.todo = @ \ {s}, !.covered = @ \cup {s}]
    /\ UNCHANGED <<sess, mtime, store, disk, toff, parsed, faults, failed>>

\* The offset and the time are read, then the RPC is awaited without the lock.
PickFetch(s) ==
    /\ round.at = "pick" /\ s \in round.todo
    /\ ~ UpToDate(s)
    /\ round' = [round EXCEPT !.at = "rpc", !.cur = {s}, !.todo = @ \ {s},
                     !.start = store.offsets[s], !.stored = store.mtimes[s]]
    /\ UNCHANGED <<sess, mtime, store, disk, toff, parsed, faults, failed>>

RpcFail(s) ==
    /\ round.at = "rpc" /\ round.cur = {s} /\ Fault
    /\ round' = [round EXCEPT !.at = "mark", !.fetched = FALSE]
    /\ failed' = IF round.listed[s] > round.stored THEN failed \cup {s} ELSE failed
    /\ UNCHANGED <<sess, mtime, store, disk, toff, parsed>>

\* The numbers up to n that are in S, in order.
InOrder(S, n) ==
    LET upTo[i \in 0..n] ==
            IF i = 0 THEN <<>> ELSE IF i \in S THEN Append(upTo[i - 1], i) ELSE upTo[i - 1]
    IN  upTo[n]

\* A variation of PastStart, off by one: Arrives.
PastStartAfter(s, start) ==
    LET past(i) == StepIndices(s, i) = {} \/ \E k \in StepIndices(s, i) : k > start
    IN  InOrder({i \in 1..Len(sess[s]) : past(i)}, Len(sess[s]))

\* The calls whose steps lie, all or in part, at or past the offset, or that
\* name no step.
PastStart(s, start) ==
    LET past(i) == StepIndices(s, i) = {} \/ \E k \in StepIndices(s, i) : k >= start
    IN  InOrder({i \in 1..Len(sess[s]) : past(i)}, Len(sess[s]))

\* The answer holds every call of the session; what is new is appended.
RpcAnswer(s) ==
    /\ round.at = "rpc" /\ round.cur = {s}
    /\ LET new  == PastStart(s, round.start)
           all  == UNION {StepIndices(s, i) : i \in 1..Len(sess[s])}
           next == IF all = {} THEN round.start ELSE Max(all) + 1
       IN  /\ store' = Appended(store, [n \in 1..Len(new) |-> Fetched(s, new[n])])
           /\ round' = [round EXCEPT !.at = IF next > round.start THEN "advance" ELSE "mark",
                            !.next = next, !.fetched = new # <<>>]
    /\ failed' = failed \ {s}
    /\ UNCHANGED <<sess, mtime, disk, toff, parsed, faults>>

Advance(s) ==
    /\ round.at = "advance" /\ round.cur = {s}
    /\ store' = AdvanceOffset(store, s, round.next)
    /\ round' = [round EXCEPT !.at = "mark"]
    /\ UNCHANGED <<sess, mtime, disk, toff, parsed, faults, failed>>

NextSession(s) ==
    round' = [NoRound EXCEPT !.at = "pick", !.todo = round.todo,
                  !.listed = round.listed, !.covered = round.covered \cup {s}]

\* A variation of Mark, with the session's modification time of now: MarkedIsFetched.
MarkNow(s) ==
    /\ round.at = "mark" /\ round.cur = {s}
    /\ store' = IF (round.fetched \/ round.listed[s] > round.stored) /\ round.listed[s] > 0
                THEN UpdateMtime(store, s, mtime[s]) ELSE store
    /\ NextSession(s)
    /\ UNCHANGED <<sess, mtime, disk, toff, parsed, faults, failed>>

\* The listed time is stored when something was fetched or the time is newer;
\* a failed fetch with a newer time counts as well.
Mark(s) ==
    /\ round.at = "mark" /\ round.cur = {s}
    /\ store' = IF (round.fetched \/ round.listed[s] > round.stored) /\ round.listed[s] > 0
                THEN UpdateMtime(store, s, round.listed[s]) ELSE store
    /\ NextSession(s)
    /\ UNCHANGED <<sess, mtime, disk, toff, parsed, faults, failed>>

Flush ==
    /\ round.at = "pick" /\ round.todo = {}
    /\ disk' = Flushed(store, disk)
    /\ store' = [store EXCEPT !.dirty = FALSE]
    /\ round' = [NoRound EXCEPT !.at = "transcripts", !.covered = round.covered]
    /\ UNCHANGED <<sess, mtime, toff, parsed, faults, failed>>

-----------------------------------------------------------------------------
(* The transcript pass: parse_transcript_file resumes where it stopped, with *)
(* the estimate's state it stopped in.                                       *)

Monus(a, b) == IF a > b THEN a - b ELSE 0

\* A model's line: reported usage when it has it, else an estimate in which the
\* prompt is everything said so far and the part the last model saw is cached.
UsageOf(line, state) ==
    IF line.kind = "usage" THEN [class |-> "official", input |-> line.size, output |-> line.size, cache |-> 0]
    ELSE [class  |-> "calculate",
          input  |-> Monus(PromptBase + state.cumulative, state.atModel),
          output |-> line.size,
          cache  |-> state.atModel]

AfterLine(line, state) ==
    LET said == state.cumulative + line.size
    IN  [lines |-> state.lines + 1, cumulative |-> said,
         atModel |-> IF line.kind = "other" THEN state.atModel ELSE said]

\* The states before lines from+1, from+2, ... up to the end (all within `to`).
StatesFrom(s, state, to) ==
    LET at[n \in 0..to - state.lines] ==
            IF n = 0 THEN state ELSE AfterLine(Line[s][state.lines + n], at[n - 1])
    IN  at

EstimatesFrom(s, state, to) ==
    LET at    == StatesFrom(s, state, to)
        calls == InOrder({i \in state.lines + 1..to : Line[s][i].kind # "other"}, to)
    IN  [n \in 1..Len(calls) |->
            Estimated(s, calls[n], UsageOf(Line[s][calls[n]], at[calls[n] - state.lines - 1]))]

\* A variation of Resumed, without what the last model saw: EstimateStable.
ResumedForgetful(s) == [toff[s] EXCEPT !.atModel = 0]

\* The saved state; a file shorter than it starts again.
Resumed(s) == IF Len(sess[s]) < toff[s].lines THEN NothingRead ELSE toff[s]

\* Every transcript the round did not cover is read up to its end.
ReadTranscripts ==
    /\ round.at = "transcripts"
    /\ LET missed == SetToSeq(Sessions \ round.covered)
           read(s) == EstimatesFrom(s, Resumed(s), Len(sess[s]))
       IN  /\ parsed' = FlattenSeq([n \in 1..Len(missed) |-> read(missed[n])])
           /\ toff' = [s \in Sessions |->
                  IF s \in round.covered THEN toff[s]
                  ELSE StatesFrom(s, Resumed(s), Len(sess[s]))[Len(sess[s]) - Resumed(s).lines]]
    /\ round' = [NoRound EXCEPT !.at = "estimates"]
    /\ UNCHANGED <<sess, mtime, store, disk, faults, failed>>

AppendEstimates ==
    /\ round.at = "estimates"
    /\ store' = Appended(store, parsed)
    /\ parsed' = <<>>
    /\ round' = NoRound
    /\ UNCHANGED <<sess, mtime, disk, toff, faults, failed>>

\* The IDE collector goes to sleep instead.
SkipTranscripts ==
    /\ round.at = "transcripts"
    /\ round' = NoRound
    /\ UNCHANGED <<sess, mtime, store, disk, toff, parsed, faults, failed>>

-----------------------------------------------------------------------------
(* From outside the loop.                                                    *)

\* A variation of RebuildStore, the step offsets kept: FetchedIsKept.
RebuildKeepsOffsets ==
    /\ store' = [Open(EmptyDisk) EXCEPT !.offsets = store.offsets]
    /\ disk' = [EmptyDisk EXCEPT !.offsets = store.offsets]
    /\ failed' = {}
    /\ UNCHANGED <<sess, mtime, round, toff, parsed, faults>>

\* trigger_rebuild, at whatever point the round is: store and files are emptied.
RebuildStore ==
    /\ store' = Open(EmptyDisk)
    /\ disk' = EmptyDisk
    /\ failed' = {}
    /\ UNCHANGED <<sess, mtime, round, toff, parsed, faults>>

\* After that, in the CLI collector: the transcripts will be read from their start.
RebuildTranscripts ==
    /\ toff' = [s \in Sessions |-> NothingRead]
    /\ UNCHANGED <<sess, mtime, store, disk, round, parsed, faults, failed>>

\* The process ends and is started again over what the files hold.
Restart(saved) ==
    /\ disk' = saved /\ store' = Open(saved)
    /\ round' = NoRound
    /\ toff' = [s \in Sessions |-> NothingRead] /\ parsed' = <<>>
    /\ UNCHANGED <<sess, mtime, failed>>
=============================================================================
