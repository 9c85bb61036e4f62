------------------------------ MODULE DataCache ------------------------------
(***************************************************************************)
(* The cache of cold data (crates/tp-cache) beside the data pool it reads: *)
(* the task started by start_auto_subscribe, which takes pool              *)
(* notifications one at a time and answers with a full build or an         *)
(* incremental update.  It shares no lock with a push: each look at the    *)
(* pool's version, index or files is an action, and a push may move        *)
(* between any two.  clear runs on the command task (Rebuild).             *)
(*                                                                         *)
(* The aggregator is additive, so what it has ingested is kept per hour as *)
(* the sequence of records; ingesting an hour twice counts it twice.  The  *)
(* archive tiers and their digests are not in this module.                 *)
(***************************************************************************)
EXTENDS DataPoolFaults, FiniteSetsExt

CONSTANT SignalCap \* capacity of the update-signal broadcast (64 in the code)

ASSUME SignalAssumption == SignalCap \in Nat \ {0}
ASSUME HoursPositive    == 0 \notin Hours

VARIABLES
    agg,         \* aggregator: hour -> records ingested
    processed,   \* processed_keys
    term,        \* progress.termination_hour_key, 0 for None
    cachePc,     \* where the subscriber task is
    snapVersion, \* do_build: version_before
    keys,        \* do_build: hours of the snapshot still to be read
    updating,    \* incremental_update: affected keys still to be read
    incremental, \* the build under way was started by incremental_update
    readKey,     \* the hour being read
    readLogs,    \* and what query_by_hour_key returned for it
    signals      \* update signals DataShow has not received

cacheData  == <<agg, processed, term>>
cacheVars  == <<agg, processed, term, cachePc, snapVersion, keys, updating,
                incremental, readKey, readLogs, signals>>

CachePcValues == {"idle", "snapshot", "progress", "check", "query",
                  "ingest", "mark", "done", "update", "add",
                  "addMark", "updated"}

CacheTypeOK ==
    /\ agg \in [Hours -> Seq(Record)]
    /\ processed \subseteq Hours
    /\ term \in Hours \cup {0}
    /\ cachePc \in CachePcValues
    /\ snapVersion \in Nat
    /\ keys \subseteq Hours /\ updating \subseteq Hours
    /\ incremental \in BOOLEAN
    /\ readKey \in Hours \cup {0} /\ readLogs \in Seq(Record)
    /\ signals \in 0..(SignalCap + 1)

\* run_pipeline builds the cache before anything is collected.
CacheInit ==
    /\ agg = NoFiles /\ processed = {} /\ term = 0
    /\ cachePc = "snapshot" /\ snapVersion = 0 /\ keys = {} /\ updating = {}
    /\ incremental = FALSE /\ readKey = 0 /\ readLogs = <<>> /\ signals = 0

-----------------------------------------------------------------------------
(* What the pool answers (storage.rs, the PoolStorage queries) *)

IndexedHours  == {h \in Hours : meta.tier[h] # "none"}
ActiveHours   == {h \in Hours : meta.tier[h] = "active"}
QueryByHour(h) == files[h]

MaxKey(S) == IF S = {} THEN 0 ELSE Max(S)

\* A variation of Signal, a ring without a limit: ShowTypeOK.
SignalUnbounded == signals' = signals + 1

\* A full signal ring turns its surplus into one Lagged, itself one wake-up.
Signal == signals' = Min({signals + 1, SignalCap + 1})

-----------------------------------------------------------------------------
(* Variations: wrong versions of the definitions below, under the name of the *)
(* mistake.  No specification uses them; with one of them in place of the      *)
(* definition it varies, the property it names must fail.                      *)

\* RecvDataPushed, ignored when its hours are counted already: ViewSettles.
RecvDataPushedIfNew ==
    /\ cachePc = "idle" /\ ~lagged /\ chan # <<>> /\ Head(chan).type = "pushed"
    /\ chan' = Tail(chan)
    /\ IF Head(chan).keys \subseteq processed
       THEN UNCHANGED <<cachePc, updating>>
       ELSE cachePc' = "update" /\ updating' = Head(chan).keys
    /\ UNCHANGED <<lagged, cacheData, snapVersion, keys, incremental,
                   readKey, readLogs, signals>>

\* BuildProgress, the termination key left to the end of the build and forgotten:
\* ColdHotDisjoint.
BuildProgressLater ==
    /\ cachePc = "progress" /\ cachePc' = "check"
    /\ UNCHANGED <<chanVars, cacheData, snapVersion, keys, updating,
                   incremental, readKey, readLogs, signals>>

\* UpdateQuery, without the look at processed_keys: CacheSettles.
UpdateQueryAddsAgain ==
    /\ cachePc = "update" /\ updating # {}
    /\ cachePc' = "add" /\ readKey' = Min(updating)
    /\ readLogs' = QueryByHour(Min(updating))
    /\ UNCHANGED <<chanVars, cacheData, snapVersion, keys, updating, incremental, signals>>

\* BuildSnapshot, the version read before the first attempt only: ViewCatchesUp.
BuildSnapshotOldVersion ==
    /\ cachePc = "snapshot"
    /\ snapVersion' = (IF snapVersion = 0 THEN meta.version ELSE snapVersion)
    /\ keys' = IndexedHours /\ agg' = NoFiles /\ processed' = {}
    /\ cachePc' = "progress"
    /\ UNCHANGED <<chanVars, term, updating, incremental, readKey, readLogs, signals>>

\* ClearProgress, the progress left as it was: NothingMissing.
ClearProgressForgotten ==
    UNCHANGED <<agg, processed, term, cachePc, snapVersion, keys, updating,
                incremental, readKey, readLogs, signals>>

-----------------------------------------------------------------------------
(* on_pool_notification *)

\* Lagged: notifications were lost, rebuild everything.
RecvLagged ==
    /\ cachePc = "idle" /\ lagged
    /\ lagged' = FALSE /\ cachePc' = "snapshot"
    /\ UNCHANGED <<chan, cacheData, snapVersion, keys, updating, incremental,
                   readKey, readLogs, signals>>

\* MetadataChanged: rebuild everything (Rule 3).
RecvMetadataChanged ==
    /\ cachePc = "idle" /\ ~lagged /\ chan # <<>> /\ Head(chan).type = "meta"
    /\ chan' = Tail(chan) /\ cachePc' = "snapshot"
    /\ UNCHANGED <<lagged, cacheData, snapVersion, keys, updating, incremental,
                   readKey, readLogs, signals>>

\* DataPushed: update the affected hours (Rule 4).
RecvDataPushed ==
    /\ cachePc = "idle" /\ ~lagged /\ chan # <<>> /\ Head(chan).type = "pushed"
    /\ chan' = Tail(chan) /\ cachePc' = "update" /\ updating' = Head(chan).keys
    /\ UNCHANGED <<lagged, cacheData, snapVersion, keys, incremental,
                   readKey, readLogs, signals>>

-----------------------------------------------------------------------------
(* build / do_build *)

\* get_metadata: the version and the hours of this attempt; then the reset of
\* aggregator and processed_keys.  The snapshot touches the pool only and the
\* reset the cache only, so one step stands for the two.
BuildSnapshot ==
    /\ cachePc = "snapshot"
    /\ snapVersion' = meta.version /\ keys' = IndexedHours
    /\ agg' = NoFiles /\ processed' = {}
    /\ cachePc' = "progress"
    /\ UNCHANGED <<chanVars, term, updating, incremental, readKey, readLogs, signals>>

BuildProgress ==
    /\ cachePc = "progress"
    /\ term' = MaxKey(keys)
    /\ cachePc' = "check"
    /\ UNCHANGED <<chanVars, agg, processed, snapVersion, keys, updating,
                   incremental, readKey, readLogs, signals>>

\* Rule 3, before each hour and once more at the end: another version starts
\* the attempt again.
BuildCheck ==
    /\ cachePc = "check"
    /\ IF meta.version # snapVersion
       THEN cachePc' = "snapshot" /\ UNCHANGED readKey
       ELSE IF keys = {}
            THEN cachePc' = "done" /\ UNCHANGED readKey
            ELSE cachePc' = "query" /\ readKey' = Min(keys)
    /\ UNCHANGED <<chanVars, cacheData, snapVersion, keys, updating, incremental,
                   readLogs, signals>>

BuildQuery ==
    /\ cachePc = "query"
    /\ readLogs' = QueryByHour(readKey)
    /\ cachePc' = "ingest"
    /\ UNCHANGED <<chanVars, cacheData, snapVersion, keys, updating, incremental,
                   readKey, signals>>

BuildIngest ==
    /\ cachePc = "ingest"
    /\ agg' = [agg EXCEPT ![readKey] = @ \o readLogs]
    /\ cachePc' = "mark"
    /\ UNCHANGED <<chanVars, processed, term, snapVersion, keys, updating,
                   incremental, readKey, readLogs, signals>>

BuildMark ==
    /\ cachePc = "mark"
    /\ processed' = processed \cup {readKey} /\ keys' = keys \ {readKey}
    /\ cachePc' = "check" /\ readKey' = 0 /\ readLogs' = <<>>
    /\ UNCHANGED <<chanVars, agg, term, snapVersion, updating, incremental, signals>>

\* FullRebuildComplete; a build that incremental_update asked for returns there.
BuildDone ==
    /\ cachePc = "done"
    /\ Signal
    /\ cachePc' = IF incremental THEN "updated" ELSE "idle"
    /\ snapVersion' = 0
    /\ UNCHANGED <<chanVars, cacheData, keys, updating, incremental, readKey, readLogs>>

-----------------------------------------------------------------------------
(* incremental_update *)

\* The next affected hour is read.  One without records is passed over; one
\* already counted cannot be added again, so everything is built anew.
UpdateQuery ==
    /\ cachePc = "update" /\ updating # {}
    /\ LET h == Min(updating)
           logs == QueryByHour(h)
       IN  \/ /\ logs = <<>>
              /\ updating' = updating \ {h}
              /\ UNCHANGED <<cachePc, incremental, readKey, readLogs>>
           \/ /\ logs # <<>> /\ h \in processed
              /\ cachePc' = "snapshot" /\ incremental' = TRUE /\ updating' = {}
              /\ UNCHANGED <<readKey, readLogs>>
           \/ /\ logs # <<>> /\ h \notin processed
              /\ cachePc' = "add" /\ readKey' = h /\ readLogs' = logs
              /\ UNCHANGED <<incremental, updating>>
    /\ UNCHANGED <<chanVars, cacheData, snapVersion, keys, signals>>

\* An hour not counted yet is added; termination_hour_key stays as it is.
UpdateIngest ==
    /\ cachePc = "add"
    /\ agg' = [agg EXCEPT ![readKey] = @ \o readLogs]
    /\ cachePc' = "addMark"
    /\ UNCHANGED <<chanVars, processed, term, snapVersion, keys, updating,
                   incremental, readKey, readLogs, signals>>

UpdateMark ==
    /\ cachePc = "addMark"
    /\ processed' = processed \cup {readKey}
    /\ cachePc' = "update" /\ updating' = updating \ {readKey}
    /\ readKey' = 0 /\ readLogs' = <<>>
    /\ UNCHANGED <<chanVars, agg, term, snapVersion, keys, incremental, signals>>

\* IncrementalUpdateComplete.
UpdateDone ==
    /\ \/ cachePc = "updated"
       \/ cachePc = "update" /\ updating = {}
    /\ Signal
    /\ cachePc' = "idle" /\ incremental' = FALSE
    /\ UNCHANGED <<chanVars, cacheData, snapVersion, keys, updating, readKey, readLogs>>

-----------------------------------------------------------------------------
(* clear, called by the command task: three locks, one after another *)

ClearAgg ==
    /\ agg' = NoFiles
    /\ UNCHANGED <<processed, term, cachePc, snapVersion, keys, updating,
                   incremental, readKey, readLogs, signals>>

ClearProcessed ==
    /\ processed' = {}
    /\ UNCHANGED <<agg, term, cachePc, snapVersion, keys, updating,
                   incremental, readKey, readLogs, signals>>

ClearProgress ==
    /\ term' = 0
    /\ UNCHANGED <<agg, processed, cachePc, snapVersion, keys, updating,
                   incremental, readKey, readLogs, signals>>

-----------------------------------------------------------------------------

CacheStep ==
    \/ RecvLagged \/ RecvMetadataChanged \/ RecvDataPushed
    \/ BuildSnapshot \/ BuildProgress \/ BuildCheck
    \/ BuildQuery \/ BuildIngest \/ BuildMark \/ BuildDone
    \/ UpdateQuery \/ UpdateIngest \/ UpdateMark
    \/ UpdateDone
=============================================================================
