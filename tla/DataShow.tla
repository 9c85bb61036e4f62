------------------------------ MODULE DataShow ------------------------------
(***************************************************************************)
(* The whole path from a push to the view: data pool, data cache, and the  *)
(* aggregator (crates/tp-aggregator) that merges the cache's cold data     *)
(* with the pool's hot data into the view the dashboard shows.             *)
(*                                                                         *)
(* Two tasks call refresh on the one DataShow: its background loop, once   *)
(* per cache signal, and the command task of src/main.rs for a Refresh     *)
(* command.  They share DataShow.aggregator: one call may store its hot    *)
(* data there between another's store and its build_view.                  *)
(***************************************************************************)
EXTENDS DataCache

CONSTANT MaxRefreshes \* bound: Refresh commands

ASSUME RefreshAssumption == MaxRefreshes \in Nat

Refreshers == {"loop", "command"}

VARIABLES
    showPc,    \* task -> where its refresh call is
    cold,      \* task -> the cache snapshot it took: records and termination key
    hotKeys,   \* task -> active hours query_active has still to read
    hot,       \* task -> hot records read
    shared,    \* DataShow.aggregator: hot records of the last store
    view,      \* the watch channel: hour -> records counted in the view
    cmdPc,     \* where the command task is
    refreshes, \* Refresh commands so far
    met,       \* ghost: the refresh that began last found the other one under way
    overlapped \* ghost: a push and a clear_storage have been under way together

showVars == <<showPc, cold, hotKeys, hot, shared, view>>
cmdVars  == <<cmdPc, refreshes>>
history  == <<met, overlapped>>
vars     == <<allVars, cacheVars, showVars, cmdVars, history>>

Sums     == [Hours -> Seq(Record)]
NoCold   == [logs |-> NoFiles, term |-> 0]

ShowTypeOK ==
    /\ FaultsTypeOK /\ CacheTypeOK
    /\ showPc \in [Refreshers -> {"idle", "snapshot", "keys", "read", "store", "build"}]
    /\ cold \in [Refreshers -> [logs : Sums, term : Hours \cup {0}]]
    /\ hotKeys \in [Refreshers -> SUBSET Hours]
    /\ hot \in [Refreshers -> Sums]
    /\ shared \in Sums /\ view \in Sums
    /\ cmdPc \in {"idle", "storage", "processed", "progress", "refresh"}
    /\ refreshes \in 0..MaxRefreshes
    /\ {met, overlapped} \subseteq BOOLEAN

\* run_pipeline refreshes once before the background loop starts; the loop's
\* own task stands for that call.
ShowInit ==
    /\ FaultsInit /\ CacheInit
    /\ showPc = [t \in Refreshers |-> "idle"]
    /\ cold = [t \in Refreshers |-> NoCold]
    /\ hotKeys = [t \in Refreshers |-> {}]
    /\ hot = [t \in Refreshers |-> NoFiles]
    /\ shared = NoFiles /\ view = NoFiles
    /\ cmdPc = "idle" /\ refreshes = 0
    /\ met = FALSE /\ overlapped = FALSE

-----------------------------------------------------------------------------
(* refresh *)

\* run_full_loop: a signal, or the notice that some were lost, starts a refresh.
LoopRecv ==
    /\ showPc["loop"] = "idle" /\ signals > 0
    /\ signals' = signals - 1
    /\ showPc' = [showPc EXCEPT !["loop"] = "snapshot"]
    /\ UNCHANGED <<agg, processed, term, cachePc, snapVersion, keys,
                   updating, incremental, readKey, readLogs,
                   cold, hotKeys, hot, shared, view>>

\* get_snapshot holds the aggregator's read lock until it has the key.
TakeSnapshot(t) ==
    /\ showPc[t] = "snapshot"
    /\ cold' = [cold EXCEPT ![t] = [logs |-> agg, term |-> term]]
    /\ showPc' = [showPc EXCEPT ![t] = "keys"]
    /\ UNCHANGED <<cacheVars, hotKeys, hot, shared, view>>

\* query_active: first the active hours of the index, then their files.
QueryKeys(t) ==
    /\ showPc[t] = "keys"
    /\ hotKeys' = [hotKeys EXCEPT ![t] = ActiveHours]
    /\ showPc' = [showPc EXCEPT ![t] = "read"]
    /\ UNCHANGED <<cacheVars, cold, hot, shared, view>>

\* A variation of ReadHot, the boundary hour taken as hot: NoDoubleCount.
ReadHotFromBoundary(t) ==
    /\ showPc[t] = "read" /\ hotKeys[t] # {}
    /\ LET h == Min(hotKeys[t]) IN
           /\ hot' = IF h >= cold[t].term THEN [hot EXCEPT ![t][h] = files[h]] ELSE hot
           /\ hotKeys' = [hotKeys EXCEPT ![t] = @ \ {h}]
    /\ UNCHANGED <<cacheVars, showPc, cold, shared, view>>

\* One file; hours up to the termination key are then filtered out.
ReadHot(t) ==
    /\ showPc[t] = "read" /\ hotKeys[t] # {}
    /\ LET h == Min(hotKeys[t]) IN
           /\ hot' = IF h > cold[t].term THEN [hot EXCEPT ![t][h] = files[h]] ELSE hot
           /\ hotKeys' = [hotKeys EXCEPT ![t] = @ \ {h}]
    /\ UNCHANGED <<cacheVars, showPc, cold, shared, view>>

\* The fresh aggregator replaces the shared one.
Store(t) ==
    /\ showPc[t] = "read" /\ hotKeys[t] = {}
    /\ shared' = hot[t]
    /\ hot' = [hot EXCEPT ![t] = NoFiles]
    /\ showPc' = [showPc EXCEPT ![t] = "store"]
    /\ UNCHANGED <<cacheVars, cold, hotKeys, view>>

\* build_view reads the shared aggregator, whosever it is by now.
BuildView(t) ==
    /\ showPc[t] = "store"
    /\ cold' = [cold EXCEPT ![t].logs = [h \in Hours |-> @[h] \o shared[h]]]
    /\ showPc' = [showPc EXCEPT ![t] = "build"]
    /\ UNCHANGED <<cacheVars, hotKeys, hot, shared, view>>

SendView(t) ==
    /\ showPc[t] = "build"
    /\ view' = cold[t].logs
    /\ cold' = [cold EXCEPT ![t] = NoCold]
    /\ showPc' = [showPc EXCEPT ![t] = "idle"]
    /\ UNCHANGED <<cacheVars, hotKeys, hot, shared>>

RefreshStep(t) ==
    \/ TakeSnapshot(t) \/ QueryKeys(t) \/ ReadHot(t) \/ Store(t)
    \/ BuildView(t) \/ SendView(t)

-----------------------------------------------------------------------------
(* What the ghosts remember of a step *)

Starting(t) == showPc[t] = "idle" /\ showPc'[t] # "idle"

History ==
    /\ met' = IF \E t \in Refreshers : Starting(t) THEN \A t \in Refreshers : showPc'[t] # "idle" ELSE met
    /\ overlapped' = (overlapped \/ (clearPc' # "off" /\ pc' # "idle"))

-----------------------------------------------------------------------------
(* The command task *)

\* PipelineCommand::Refresh calls request_refresh and waits for it.
CommandRefresh ==
    /\ cmdPc = "idle" /\ refreshes < MaxRefreshes
    /\ refreshes' = refreshes + 1 /\ cmdPc' = "refresh"
    /\ showPc' = [showPc EXCEPT !["command"] = "snapshot"]
    /\ UNCHANGED <<allVars, cacheVars, cold, hotKeys, hot, shared, view>>
    /\ History

\* PipelineCommand::Rebuild: clear_storage, ...
CommandRebuild ==
    /\ cmdPc = "idle" /\ (ClearActive \/ ClearActiveFails)
    /\ cmdPc' = "storage"
    /\ UNCHANGED <<cacheVars, showVars, refreshes>>
    /\ History

RebuildStorage ==
    /\ cmdPc = "storage" /\ (ClearArchive \/ ClearMeta \/ ClearRegistry \/ ClearFails)
    /\ UNCHANGED <<cacheVars, showVars, cmdVars>>

\* ... then, whether it failed or not, cache.clear; the collectors are told to
\* start from the beginning (any batch may come again), ...
RebuildCache ==
    /\ clearPc = "off"
    /\ \/ cmdPc = "storage"   /\ ClearAgg       /\ cmdPc' = "processed" /\ UNCHANGED showPc
       \/ cmdPc = "processed" /\ ClearProcessed /\ cmdPc' = "progress"  /\ UNCHANGED showPc
       \/ cmdPc = "progress"  /\ ClearProgress  /\ cmdPc' = "refresh"
          /\ showPc' = [showPc EXCEPT !["command"] = "snapshot"]
    /\ UNCHANGED <<allVars, cold, hotKeys, hot, shared, view, refreshes>>

\* ... and a refresh.
CommandDone ==
    /\ cmdPc = "refresh" /\ showPc["command"] = "idle" /\ cmdPc' = "idle"
    /\ UNCHANGED <<allVars, cacheVars, showVars, refreshes>>

-----------------------------------------------------------------------------
(* The composition *)

Ingest   == PushStep /\ UNCHANGED <<faultVars, cacheVars, showVars, cmdVars>> /\ History
NewBatch == /\ \E b \in Batches : PushBegin(b)
            /\ UNCHANGED <<faultVars, cacheVars, showVars, cmdVars>> /\ History
Cache    == /\ CacheStep
            /\ UNCHANGED <<storeVars, callVars, pushes, faultVars, showVars, cmdVars>> /\ History
Loop     == (LoopRecv \/ RefreshStep("loop")) /\ UNCHANGED <<allVars, cmdVars>> /\ History
Command  == /\ \/ RefreshStep("command") /\ UNCHANGED <<allVars, cmdVars>>
               \/ RebuildStorage \/ RebuildCache \/ CommandDone
            /\ History

Next == \/ Ingest \/ NewBatch \/ Cache \/ Loop \/ Command
        \/ CommandRefresh \/ CommandRebuild

\* Tokio polls every task that can run; nobody has to push or to give commands.
Fairness == WF_vars(Ingest) /\ WF_vars(Cache) /\ WF_vars(Loop) /\ WF_vars(Command)

Spec == ShowInit /\ [][Next]_vars /\ Fairness

-----------------------------------------------------------------------------
(* Properties *)

PoolQuiet  == pc = "idle" /\ chan = <<>> /\ ~lagged /\ cmdPc = "idle"
CacheQuiet == PoolQuiet /\ cachePc = "idle"
Quiet      == CacheQuiet /\ signals = 0 /\ showPc["loop"] = "idle"

\* The cache answers every change: when no push or command is under way and
\* every notification has been handled, it has counted each record of the pool
\* once, although builds read files that pushes are writing and the version
\* check of Rule 3 does not see a push to an hour that is already indexed.
CacheSettles ==
    CacheQuiet => /\ agg = files
                  /\ clears = 0 => processed = IndexedHours /\ term = MaxKey(IndexedHours)

\* The boundary between cold and hot: "prevent double counting" (aggregator
\* lib.rs:76). The cache never holds an hour beyond its termination key, so
\* what it adds and what the hot data adds never overlap.
ColdHotDisjoint ==
    \A h \in Hours : agg[h] # <<>> => h <= term

\* No view shows a record twice, at no time.
NoDoubleCount == \A h \in Hours : OnePerUid(view[h])

\* When everything has come to rest the view is the pool.
ViewSettles == Quiet => view = files

\* A Rebuild may make the cache count an hour twice, but once everything has
\* come to rest no record the pool holds is missing from the view.  Not so for an
\* hour without metadata, which a push leaves that meets a clear_storage, or a
\* clear_storage that fails (main.rs:378); nor for the view of a refresh that met
\* the other task's, which may be the older one and be sent last.
NothingMissing ==
    Quiet /\ ~met => \A h \in Hours :
        (errors = 0 /\ ~overlapped) \/ h \in IndexedHours => Range(files[h]) \subseteq Range(view[h])

\* Whatever the last signal left out, a refresh every 30 seconds brings into the
\* view ("定时每 30 秒兜底刷新", aggregator lib.rs:356).
NothingStaysMissing == <>[](\A h \in Hours : Range(files[h]) \subseteq Range(view[h]))

\* The promise to the user: once collectors stop, the dashboard ends up showing
\* exactly what the pool holds, and stays there.
ViewCatchesUp == <>[](view = files)
=============================================================================
