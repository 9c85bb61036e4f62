--------------------------- MODULE DataShowProofs ---------------------------
(***************************************************************************)
(* Proofs about the cache and the view beside the pool (DataShow), for     *)
(* every set of uids and hours, all batches, and every size of the two     *)
(* rings.                                                                  *)
(***************************************************************************)
EXTENDS DataShow, DataPoolFaultsProofs

Numbers == INSTANCE Induction

-----------------------------------------------------------------------------
(* The pool's part of a step *)

\* The cache takes a notification, or the notice that some were lost.
Receives ==
    /\ UNCHANGED <<storeVars, callVars, pushes, faultVars>>
    /\ \/ UNCHANGED chanVars
       \/ chan' = chan /\ lagged /\ lagged' = FALSE
       \/ chan # <<>> /\ chan' = Tail(chan) /\ lagged' = lagged

LEMMA CacheReceives == ASSUME Cache PROVE Receives
<1> USE DEF Cache, CacheStep, Receives, chanVars
<1>1. CASE RecvLagged BY <1>1 DEF RecvLagged
<1>2. CASE RecvMetadataChanged \/ RecvDataPushed BY <1>2 DEF RecvMetadataChanged, RecvDataPushed
<1>3. CASE BuildSnapshot \/ BuildProgress \/ BuildCheck \/ BuildQuery \/ BuildIngest \/ BuildMark \/ BuildDone
  BY <1>3 DEF BuildSnapshot, BuildProgress, BuildCheck, BuildQuery, BuildIngest, BuildMark, BuildDone
<1>4. CASE UpdateQuery \/ UpdateIngest \/ UpdateMark \/ UpdateDone
  BY <1>4 DEF UpdateQuery, UpdateIngest, UpdateMark, UpdateDone
<1> QED BY <1>1, <1>2, <1>3, <1>4

\* A step of the whole is a step of the pool with faults, or leaves all of the pool but
\* the notifications alone.
LEMMA PoolPart ==
    ASSUME [Next]_vars
    PROVE  [FaultsNext]_allVars \/ (Cache /\ Receives)
<1>1. CASE Ingest \/ NewBatch
  <2>1. PoolNext /\ UNCHANGED faultVars BY <1>1 DEF Ingest, NewBatch, PoolNext
  <2> QED BY <2>1 DEF FaultsNext
<1>2. CASE Cache BY <1>2, CacheReceives
<1>3. CASE Loop \/ CommandRefresh \/ UNCHANGED vars BY <1>3 DEF Loop, CommandRefresh, vars
<1>4. CASE Command
  <2>1. CASE RebuildStorage BY <2>1 DEF RebuildStorage, FaultsNext, Clear
  <2>2. CASE ~RebuildStorage BY <1>4, <2>2 DEF Command, RebuildCache, CommandDone
  <2> QED BY <2>1, <2>2
<1>5. CASE CommandRebuild BY <1>5 DEF CommandRebuild, FaultsNext, Clear
<1> QED BY <1>1, <1>2, <1>3, <1>4, <1>5 DEF Next

LEMMA ReceivesTypes == ASSUME FaultsTypeOK, Receives PROVE FaultsTypeOK'
<1>1. TypeOK BY DEF FaultsTypeOK
<1>2. chan' \in Seq(Notification) /\ lagged' \in BOOLEAN
  <2>1. chan \in Seq(Notification) /\ lagged \in BOOLEAN BY <1>1 DEF TypeOK
  <2>2. chan # <<>> => Tail(chan) \in Seq(Notification) BY <2>1
  <2> QED BY <2>1, <2>2 DEF Receives, chanVars
<1>3. TypeOK' BY <1>1, <1>2 DEF TypeOK, Receives, storeVars, callVars
<1> QED BY <1>3 DEF FaultsTypeOK, Receives, faultVars

LEMMA StepFaultsTypes == ASSUME FaultsTypeOK, [Next]_vars PROVE FaultsTypeOK'
  BY PoolPart, FaultsStepTypeOK, ReceivesTypes

-----------------------------------------------------------------------------
(* Type correctness *)

\* Where readKey is the hour that is being read.
AtHour == cachePc \in {"query", "ingest", "mark", "add", "addMark"}

\* No hour the index or a build has is later than all numbers: there is a last one.
Bounded == \E b \in Nat : \A h \in IndexedHours \cup keys : h <= b

LEMMA GreatestKey ==
    ASSUME NEW S, S \subseteq Hours, NEW b \in Nat, \A h \in S : h <= b
    PROVE  MaxKey(S) \in S \cup {0} /\ \A h \in S : h <= MaxKey(S)
<1>1. CASE S = {} BY <1>1 DEF MaxKey
<1>2. CASE S # {}
  <2>1. S \subseteq 0 .. b BY HoursAssumption
  <2>2. \E x \in S : \A y \in S : y <= x BY <1>2, <2>1, Numbers!MaxOfBounded DEF Numbers!Max
  <2>3. Max(S) \in S /\ \A y \in S : y <= Max(S) BY <2>2, HoursAssumption DEF Max
  <2> QED BY <1>2, <2>3 DEF MaxKey
<1> QED BY <1>1, <1>2

LEMMA LeastKey ==
    ASSUME NEW S, S \subseteq Hours, S # {}
    PROVE  Min(S) \in S
<1>1. \E x \in S : \A y \in S : x <= y BY Numbers!LeastNumber, HoursAssumption
<1> QED BY <1>1 DEF Min

LEMMA SignalType == ASSUME signals \in 0 .. (SignalCap + 1), Signal PROVE signals' \in 0 .. (SignalCap + 1)
<1>1. signals + 1 <= SignalCap + 1 \/ SignalCap + 1 <= signals + 1 BY SignalAssumption
<1>2. \E x \in {signals + 1, SignalCap + 1} : \A y \in {signals + 1, SignalCap + 1} : x <= y
  BY <1>1, SignalAssumption
<1>3. Min({signals + 1, SignalCap + 1}) \in {signals + 1, SignalCap + 1}
      /\ Min({signals + 1, SignalCap + 1}) <= SignalCap + 1
  BY <1>2 DEF Min
<1> QED BY <1>3, SignalAssumption DEF Signal

\* What a step of the pool does to the index: nothing, one hour more, or all is gone.
LEMMA IndexStep ==
    ASSUME FaultsTypeOK, [Next]_vars
    PROVE  \/ IndexedHours' = IndexedHours
           \/ IndexedHours' = {} /\ ~Cache
           \/ Ingest /\ EnsureIndex /\ cur.hour \in Hours /\ IndexedHours' = IndexedHours \cup {cur.hour}
<1> USE DEF storeVars, callVars, chanVars, poolVars, allVars
<1>1. CASE meta' = meta BY <1>1 DEF IndexedHours
<1>2. CASE meta' = EmptyMeta /\ ~Cache BY <1>2 DEF IndexedHours, EmptyMeta
<1>3. CASE Ingest /\ EnsureIndex
  <2>1. cur \in [hour : Hours, count : Nat] /\ meta \in Meta
    BY <1>3 DEF FaultsTypeOK, TypeOK, EnsureIndex
  <2>2. \A h \in Hours :
          meta'.tier[h] = IF h = cur.hour /\ meta.tier[h] = "none" THEN "active" ELSE meta.tier[h]
    <3>1. CASE meta.tier[cur.hour] = "none"
      <4>1. meta' = [meta EXCEPT !.version = @ + 1, !.tier[cur.hour] = "active",
                                 !.count[cur.hour] = @ + cur.count]
        BY <1>3, <3>1 DEF EnsureIndex
      <4> QED BY <2>1, <3>1, <4>1 DEF Meta
    <3>2. CASE meta.tier[cur.hour] # "none"
      <4>1. meta' = [meta EXCEPT !.count[cur.hour] = @ + cur.count] BY <1>3, <3>2 DEF EnsureIndex
      <4> QED BY <2>1, <3>2, <4>1 DEF Meta
    <3> QED BY <3>1, <3>2
  <2> QED BY <1>3, <2>1, <2>2 DEF IndexedHours
<1>4. CASE Ingest /\ ~EnsureIndex
  <2>1. meta' = meta
    BY <1>4 DEF Ingest, PushStep, ApplyPush, ApplyReplace, ApplySkip, ReplaceRead, ReplaceCreate,
           ReplaceRewrite, ReplaceAppend, Register, WriteLogs, SaveMeta, SaveRegistry, Notify
  <2> QED BY <1>1, <2>1
<1>5. CASE NewBatch BY <1>1, <1>5 DEF NewBatch, PushBegin
<1>6. CASE Cache BY <1>1, <1>6 DEF Cache
<1>7. CASE Loop \/ CommandRefresh \/ UNCHANGED vars BY <1>1, <1>7 DEF Loop, CommandRefresh, vars
<1>8. CASE (Command \/ CommandRebuild) /\ ~Cache
  <2>1. CASE ClearActive \/ ClearActiveFails \/ ClearArchive \/ ClearMeta \/ ClearRegistry \/ ClearFails
    BY <1>1, <1>2, <1>8, <2>1
       DEF ClearActive, ClearActiveFails, ClearArchive, ClearMeta, ClearRegistry, ClearFails
  <2>2. CASE ~(ClearActive \/ ClearActiveFails \/ ClearArchive \/ ClearMeta \/ ClearRegistry \/ ClearFails)
    BY <1>1, <1>8, <2>2 DEF Command, CommandRebuild, RebuildStorage, RebuildCache, CommandDone
  <2> QED BY <2>1, <2>2
<1> QED BY <1>3, <1>4, <1>5, <1>6, <1>7, <1>8 DEF Next

\* The parts of ShowTypeOK beyond the pool.
CacheTypes == CacheTypeOK /\ (AtHour => readKey \in Hours) /\ Bounded

RefreshTypes ==
    /\ showPc \in [Refreshers -> {"idle", "snapshot", "keys", "read", "store", "build"}]
    /\ cold \in [Refreshers -> [logs : Sums, term : Hours \cup {0}]]
    /\ hotKeys \in [Refreshers -> SUBSET Hours]
    /\ hot \in [Refreshers -> Sums]
    /\ shared \in Sums /\ view \in Sums

CommandTypes ==
    /\ cmdPc \in {"idle", "storage", "processed", "progress", "refresh"}
    /\ refreshes \in 0..MaxRefreshes

LEMMA CacheStepTypes ==
    ASSUME FaultsTypeOK, CacheTypes, Cache
    PROVE  CacheTypeOK' /\ (AtHour => readKey \in Hours)' /\ keys' \subseteq keys \cup IndexedHours
<1>1. files \in [Hours -> Seq(Record)] /\ meta.version \in Nat /\ chan \in Seq(Notification)
  BY DEF FaultsTypeOK, TypeOK, Meta
<1>2. IndexedHours \subseteq Hours /\ (agg = NoFiles)' \in BOOLEAN /\ NoFiles \in [Hours -> Seq(Record)]
  BY DEF IndexedHours, NoFiles
<1> USE DEF CacheTypes, CacheTypeOK, CachePcValues, AtHour, chanVars, cacheData
<1>3. CASE RecvLagged \/ RecvMetadataChanged
  BY <1>3 DEF RecvLagged, RecvMetadataChanged
<1>4. CASE RecvDataPushed
  <2>1. Head(chan) \in Notification BY <1>1, <1>4 DEF RecvDataPushed
  <2>2. Head(chan).keys \subseteq Hours BY <2>1 DEF Notification
  <2> QED BY <1>4, <2>2 DEF RecvDataPushed
<1>5. CASE BuildSnapshot BY <1>1, <1>2, <1>5 DEF BuildSnapshot
<1>6. CASE BuildProgress
  <2>1. PICK b \in Nat : \A h \in keys : h <= b BY DEF Bounded
  <2>2. keys \subseteq Hours OBVIOUS
  <2>3. MaxKey(keys) \in keys \cup {0} BY <2>1, <2>2, GreatestKey, Zenon
  <2> QED BY <1>6, <2>2, <2>3 DEF BuildProgress
<1>7. CASE BuildCheck
  <2>1. keys \subseteq Hours OBVIOUS
  <2>2. keys # {} => Min(keys) \in keys BY <2>1, LeastKey
  <2> QED BY <1>7, <2>1, <2>2 DEF BuildCheck
<1>8. CASE BuildQuery BY <1>1, <1>8 DEF BuildQuery, QueryByHour
<1>9. CASE BuildIngest \/ UpdateIngest
  <2>1. readKey \in Hours BY <1>9 DEF BuildIngest, UpdateIngest
  <2>2. agg[readKey] \in Seq(Record) /\ readLogs \in Seq(Record) BY <2>1
  <2>3. \A f, g \in Seq(Record) : f \o g \in Seq(Record) OBVIOUS
  <2> DEFINE both == agg[readKey] \o readLogs
  <2>4. both \in Seq(Record) BY <2>2, <2>3, Zenon
  <2>5. agg' = [agg EXCEPT ![readKey] = both] BY <1>9 DEF BuildIngest, UpdateIngest
  <2> HIDE DEF both
  <2> QED BY <1>9, <2>4, <2>5 DEF BuildIngest, UpdateIngest
<1>10. CASE BuildMark \/ UpdateMark
  <2>1. readKey \in Hours BY <1>10 DEF BuildMark, UpdateMark
  <2>2. CASE BuildMark BY <2>1, <2>2 DEF BuildMark
  <2>3. CASE UpdateMark BY <2>1, <2>3 DEF UpdateMark
  <2> QED BY <1>10, <2>2, <2>3
<1>11. CASE BuildDone \/ UpdateDone
  <2>1. signals' \in 0 .. (SignalCap + 1) BY <1>11, SignalType DEF BuildDone, UpdateDone
  <2>2. CASE BuildDone BY <2>1, <2>2 DEF BuildDone
  <2>3. CASE UpdateDone BY <2>1, <2>3 DEF UpdateDone
  <2> QED BY <1>11, <2>2, <2>3
<1>12. CASE UpdateQuery
  <2>1. Min(updating) \in updating BY <1>12, LeastKey DEF UpdateQuery
  <2>2. Min(updating) \in Hours /\ files[Min(updating)] \in Seq(Record) BY <1>1, <2>1
  <2> QED BY <1>12, <2>2 DEF UpdateQuery, QueryByHour
<1> QED
  BY <1>3, <1>4, <1>5, <1>6, <1>7, <1>8, <1>9, <1>10, <1>11, <1>12 DEF Cache, CacheStep

LEMMA RefreshStepTypes ==
    ASSUME FaultsTypeOK, CacheTypes, RefreshTypes, NEW t \in Refreshers, RefreshStep(t)
    PROVE  RefreshTypes' /\ cacheVars' = cacheVars
<1>1. files \in [Hours -> Seq(Record)] /\ ActiveHours \subseteq Hours
  BY DEF FaultsTypeOK, TypeOK, ActiveHours
<1>2. agg \in Sums /\ term \in Hours \cup {0} BY DEF CacheTypes, CacheTypeOK, Sums
<1>3. NoFiles \in Sums /\ NoCold \in [logs : Sums, term : Hours \cup {0}]
  BY DEF NoFiles, NoCold, Sums
<1> USE DEF RefreshTypes, RefreshStep
<1>4. CASE TakeSnapshot(t)
  <2>1. [logs |-> agg, term |-> term] \in [logs : Sums, term : Hours \cup {0}] BY <1>2
  <2> QED BY <1>4, <2>1 DEF TakeSnapshot
<1>5. CASE QueryKeys(t) BY <1>1, <1>5 DEF QueryKeys
<1>6. CASE ReadHot(t)
  <2>1. hotKeys[t] \subseteq Hours /\ hotKeys[t] # {} BY <1>6 DEF ReadHot
  <2>2. Min(hotKeys[t]) \in Hours BY <2>1, LeastKey
  <2>3. hot' \in [Refreshers -> Sums]
    <3>1. hot' \in {hot, [hot EXCEPT ![t][Min(hotKeys[t])] = files[Min(hotKeys[t])]]} BY <1>6 DEF ReadHot
    <3>2. files[Min(hotKeys[t])] \in Seq(Record) BY <1>1, <2>2
    <3>3. [hot[t] EXCEPT ![Min(hotKeys[t])] = files[Min(hotKeys[t])]] \in Sums BY <3>2 DEF Sums
    <3> QED BY <3>1, <3>3
  <2> QED BY <1>6, <2>3 DEF ReadHot
<1>7. CASE Store(t) BY <1>3, <1>7 DEF Store
<1>8. CASE BuildView(t)
  <2>1. cold[t].logs \in Sums /\ shared \in Sums /\ cold[t] \in [logs : Sums, term : Hours \cup {0}] OBVIOUS
  <2>2. \A h \in Hours : cold[t].logs[h] \in Seq(Record) /\ shared[h] \in Seq(Record) BY <2>1 DEF Sums
  <2>3. \A h \in Hours : cold[t].logs[h] \o shared[h] \in Seq(Record) BY <2>2
  <2>4. [h \in Hours |-> cold[t].logs[h] \o shared[h]] \in Sums BY <2>3 DEF Sums
  <2>5. [cold[t] EXCEPT !.logs = [h \in Hours |-> cold[t].logs[h] \o shared[h]]]
          \in [logs : Sums, term : Hours \cup {0}]
    BY <2>1, <2>4
  <2>6. cold' = [cold EXCEPT ![t] = [cold[t] EXCEPT !.logs = [h \in Hours |-> cold[t].logs[h] \o shared[h]]]]
    BY <1>8 DEF BuildView
  <2>7. cold' \in [Refreshers -> [logs : Sums, term : Hours \cup {0}]] BY <2>5, <2>6
  <2> QED BY <1>8, <2>7 DEF BuildView
<1>9. CASE SendView(t) BY <1>3, <1>9 DEF SendView
<1>10. cacheVars' = cacheVars
  BY DEF TakeSnapshot, QueryKeys, ReadHot, Store, BuildView, SendView
<1> QED BY <1>4, <1>5, <1>6, <1>7, <1>8, <1>9, <1>10

Types == FaultsTypeOK /\ CacheTypes /\ RefreshTypes /\ CommandTypes /\ {met, overlapped} \subseteq BOOLEAN

LEMMA TypesInit == ShowInit => Types
<1> SUFFICES ASSUME ShowInit PROVE Types
  OBVIOUS
<1>1. NoFiles \in Sums /\ NoCold \in [logs : Sums, term : Hours \cup {0}] /\ <<>> \in Seq(Record)
  BY DEF NoFiles, NoCold, Sums
<1>2. FaultsTypeOK BY InitTypeOK, FaultBoundsAssumption DEF ShowInit, FaultsInit, FaultsTypeOK, ClearPcValues
<1>3. IndexedHours = {} BY DEF ShowInit, FaultsInit, Init, EmptyMeta, IndexedHours
<1>4. CacheTypes
  <2>1. Bounded BY <1>3 DEF ShowInit, CacheInit, Bounded
  <2>2. 0 \in 0 .. (SignalCap + 1) BY SignalAssumption
  <2> QED BY <1>1, <2>1, <2>2
          DEF ShowInit, CacheInit, CacheTypes, CacheTypeOK, CachePcValues, AtHour, Sums
<1>5. RefreshTypes /\ CommandTypes
  BY <1>1, RefreshAssumption DEF ShowInit, RefreshTypes, CommandTypes
<1>6. {met, overlapped} \subseteq BOOLEAN BY DEF ShowInit
<1> QED BY <1>2, <1>4, <1>5, <1>6 DEF Types

LEMMA BoundedStep ==
    ASSUME FaultsTypeOK, CacheTypes, [Next]_vars, keys' \subseteq keys \cup IndexedHours
    PROVE  Bounded'
<1>1. PICK b \in Nat : \A h \in IndexedHours \cup keys : h <= b BY DEF CacheTypes, Bounded
<1>2. CASE IndexedHours' \subseteq IndexedHours
  <2>1. \A h \in IndexedHours' \cup keys' : h <= b BY <1>1, <1>2
  <2> QED BY <2>1 DEF Bounded
<1>3. CASE cur.hour \in Hours /\ IndexedHours' = IndexedHours \cup {cur.hour}
  <2>1. cur.hour \in Nat /\ IndexedHours \cup keys \subseteq Nat
    BY <1>3, HoursAssumption DEF IndexedHours, CacheTypes, CacheTypeOK
  <2>2. \A h \in IndexedHours' \cup keys' : h <= b + cur.hour BY <1>1, <1>3, <2>1
  <2>3. b + cur.hour \in Nat BY <2>1
  <2> QED BY <2>2, <2>3 DEF Bounded
<1> QED BY <1>2, <1>3, IndexStep

\* Every step keeps the ghosts' record.
LEMMA Remembers == ASSUME [Next]_vars PROVE History \/ UNCHANGED vars
  BY DEF Next, Ingest, NewBatch, Cache, Loop, Command, CommandRefresh, CommandRebuild

LEMMA TypesStep == ASSUME Types, [Next]_vars PROVE Types'
<1>1. FaultsTypeOK' BY StepFaultsTypes DEF Types
<1>0. {met, overlapped}' \subseteq BOOLEAN BY Remembers DEF Types, History, vars, history
<1> SUFFICES CacheTypeOK' /\ (AtHour => readKey \in Hours)' /\ keys' \subseteq keys \cup IndexedHours
             /\ RefreshTypes' /\ CommandTypes'
  BY <1>0, <1>1, BoundedStep DEF Types, CacheTypes
<1>2. ASSUME cacheVars' = cacheVars
      PROVE  CacheTypeOK' /\ (AtHour => readKey \in Hours)' /\ keys' \subseteq keys \cup IndexedHours
  BY <1>2 DEF cacheVars, Types, CacheTypes, CacheTypeOK, AtHour
<1>3. ASSUME showVars' = showVars PROVE RefreshTypes' BY <1>3 DEF showVars, Types, RefreshTypes
<1>4. ASSUME cmdVars' = cmdVars PROVE CommandTypes' BY <1>4 DEF cmdVars, Types, CommandTypes
<1>5. CASE Ingest \/ NewBatch \/ UNCHANGED vars
  BY <1>2, <1>3, <1>4, <1>5 DEF Ingest, NewBatch, vars
<1>6. CASE Cache BY <1>3, <1>4, <1>6, CacheStepTypes DEF Cache, Types
<1>7. ASSUME NEW t \in Refreshers, RefreshStep(t), cmdVars' = cmdVars
      PROVE  CacheTypeOK' /\ (AtHour => readKey \in Hours)' /\ keys' \subseteq keys \cup IndexedHours
             /\ RefreshTypes' /\ CommandTypes'
  BY <1>2, <1>4, <1>7, RefreshStepTypes DEF Types
<1>8. CASE LoopRecv /\ UNCHANGED <<allVars, cmdVars>>
  <2>1. signals' \in 0 .. (SignalCap + 1)
    BY <1>8, SignalAssumption DEF LoopRecv, Types, CacheTypes, CacheTypeOK
  <2>2. RefreshTypes' BY <1>8 DEF LoopRecv, Types, RefreshTypes, Refreshers
  <2>3. CacheTypeOK' /\ (AtHour => readKey \in Hours)' /\ keys' = keys
    BY <1>8, <2>1 DEF LoopRecv, Types, CacheTypes, CacheTypeOK, AtHour
  <2> QED BY <1>4, <1>8, <2>2, <2>3
<1>9. CASE CommandRefresh
  <2>1. RefreshTypes' BY <1>9 DEF CommandRefresh, Types, RefreshTypes, Refreshers
  <2>2. CommandTypes' BY <1>9, RefreshAssumption DEF CommandRefresh, Types, CommandTypes
  <2> QED BY <1>2, <1>9, <2>1, <2>2 DEF CommandRefresh
<1>10. CASE CommandRebuild \/ RebuildStorage \/ CommandDone
  <2>1. CommandTypes' BY <1>10 DEF CommandRebuild, RebuildStorage, CommandDone, cmdVars, Types, CommandTypes
  <2> QED BY <1>2, <1>3, <1>10, <2>1 DEF CommandRebuild, RebuildStorage, CommandDone
<1>11. CASE RebuildCache
  <2>1. CommandTypes' BY <1>11 DEF RebuildCache, Types, CommandTypes
  <2>2. RefreshTypes' BY <1>11 DEF RebuildCache, Types, RefreshTypes, Refreshers
  <2>3. NoFiles \in [Hours -> Seq(Record)] BY Empties
  <2>4. CacheTypeOK' /\ (AtHour => readKey \in Hours)' /\ keys' = keys
    BY <1>11, <2>3
       DEF RebuildCache, ClearAgg, ClearProcessed, ClearProgress, Types, CacheTypes, CacheTypeOK, AtHour
  <2> QED BY <2>1, <2>2, <2>4
<1>12. "loop" \in Refreshers /\ "command" \in Refreshers BY DEF Refreshers
<1> QED
  BY <1>5, <1>6, <1>7, <1>8, <1>9, <1>10, <1>11, <1>12 DEF Next, Loop, Command

\* Type correctness of pool, cache and view with pushes, refreshes and Rebuilds in any
\* order: above all, a build's last hour exists, and the signal ring keeps to its size.
THEOREM ShowTypeCorrect == Spec => []ShowTypeOK
<1>1. Types => ShowTypeOK
  BY DEF Types, CacheTypes, RefreshTypes, CommandTypes, ShowTypeOK
<1> QED BY <1>1, TypesInit, TypesStep, PTL DEF Spec

-----------------------------------------------------------------------------
(* Without Rebuilds *)

\* No Rebuild: nothing fails and the command task only ever refreshes.
Calm == clearPc = "off" /\ errors = 0 /\ crashes = 0 /\ clears = 0 /\ cmdPc \in {"idle", "refresh"}

\* A step of one of the refreshing tasks.
Shows ==
    /\ allVars' = allVars
    /\ UNCHANGED <<agg, processed, term, cachePc, snapVersion, keys, updating,
                   incremental, readKey, readLogs>>

LEMMA CalmSteps ==
    ASSUME clears' = 0, Calm, Types, [Next]_vars
    PROVE  \/ (Ingest \/ NewBatch) /\ cacheVars' = cacheVars
           \/ Cache /\ Receives
           \/ Shows
<1>1. CASE Ingest \/ NewBatch BY <1>1 DEF Ingest, NewBatch
<1>2. CASE Cache BY <1>2, CacheReceives
<1>3. ~(CommandRebuild \/ RebuildStorage)
  BY DEF CommandRebuild, RebuildStorage, ClearActive, ClearActiveFails, Calm
<1>4. CASE Loop \/ CommandRefresh \/ Command \/ UNCHANGED vars
  <2>1. ~RebuildCache BY DEF RebuildCache, Calm
  <2>2. "loop" \in Refreshers /\ "command" \in Refreshers BY DEF Refreshers
  <2>3. \A t \in Refreshers : RefreshStep(t) => cacheVars' = cacheVars
    BY RefreshStepTypes DEF Types
  <2> QED BY <1>3, <1>4, <2>1, <2>2, <2>3
          DEF Shows, Loop, LoopRecv, CommandRefresh, Command, CommandDone, vars, cacheVars
<1> QED BY <1>1, <1>2, <1>3, <1>4 DEF Next

LEMMA CalmStep == ASSUME clears' = 0, Calm, [Next]_vars PROVE Calm'
<1> USE DEF Calm, faultVars, allVars, cmdVars
<1>1. CASE Ingest \/ NewBatch BY <1>1 DEF Ingest, NewBatch
<1>2. CASE Cache \/ Loop \/ UNCHANGED vars BY <1>2 DEF Cache, Loop, vars
<1>3. CASE Command \/ CommandRefresh \/ CommandRebuild
  BY <1>3 DEF Command, CommandRefresh, CommandRebuild, RebuildStorage, RebuildCache, CommandDone,
              ClearActive, ClearActiveFails
<1> QED BY <1>1, <1>2, <1>3 DEF Next

LEMMA ClearsGrow == ASSUME clears' = 0, Types, [Next]_vars PROVE clears = 0
<1>1. clears \in Nat BY FaultBoundsAssumption DEF Types, FaultsTypeOK
<1> USE DEF faultVars, allVars
<1>2. CASE Ingest \/ NewBatch BY <1>2 DEF Ingest, NewBatch
<1>3. CASE Cache \/ Loop \/ UNCHANGED vars BY <1>3 DEF Cache, Loop, vars
<1>4. CASE Command \/ CommandRefresh \/ CommandRebuild
  BY <1>1, <1>4 DEF Command, CommandRefresh, CommandRebuild, RebuildStorage, RebuildCache, CommandDone,
              ClearActive, ClearActiveFails, ClearArchive, ClearMeta, ClearRegistry, ClearFails
<1> QED BY <1>2, <1>3, <1>4 DEF Next

LEMMA CalmInit == ShowInit => Calm
  BY DEF ShowInit, FaultsInit, Calm

\* IndexFirst of the pool with faults (DataPoolFaultsProofs) holds here too.
LEMMA IndexFirstStep == ASSUME Types, XInv, [Next]_vars PROVE XInv'
<1>1. CASE [FaultsNext]_allVars BY <1>1, StepIndexFirst DEF Types
<1>2. CASE Receives
  BY <1>2 DEF Receives, storeVars, callVars, faultVars, XInv, IndexFirst, Covered, Replacing, Current
<1> QED BY <1>1, <1>2, PoolPart

LEMMA IndexFirstInit == ShowInit => XInv
  BY DEF ShowInit, FaultsInit, Init, XInv, IndexFirst, Covered, Replacing, EmptyRegistry

-----------------------------------------------------------------------------
(* Files and index *)

\* The hours a call has to do with are among those it will announce, and indexed or
\* about to be; a file that has records is indexed or announced, and an indexed one has
\* records, unless it is being rewritten.
Filled ==
    /\ \A h \in affected : Covered(h)
    /\ \A h \in Hours : byHour[h] # <<>> => h \in affected
    /\ pc = "index" => cur.hour \in affected /\ files[cur.hour] # <<>>
    /\ Replacing => CurHour \in affected
    /\ pc \in {"create", "rewrite"} => buf # <<>>
    /\ pc = "idle" => affected = {}
    /\ \A h \in Hours : files[h] # <<>> => h \in IndexedHours \cup affected
    /\ \A h \in IndexedHours : files[h] # <<>> \/ (pc = "rewrite" /\ h = CurHour)

LEMMA FilledInit == ShowInit => Filled
<1> SUFFICES ASSUME ShowInit PROVE Filled
  OBVIOUS
<1>1. files = NoFiles /\ byHour = NoFiles /\ affected = {} /\ pc = "idle" /\ IndexedHours = {}
  BY DEF ShowInit, FaultsInit, Init, IndexedHours, EmptyMeta
<1> QED BY <1>1 DEF Filled, NoFiles, Replacing

\* A push changes no file it will not announce.
FilesKept == \A h \in Hours : files'[h] = files[h] \/ (h \in affected /\ h \in affected')

LEMMA NotEmpty ==
    ASSUME NEW f \in Seq(Record), NEW r \in Record
    PROVE  Append(f, r) # <<>> /\ (f # <<>> => ReplaceFirst(f, r) # <<>>)
<1>1. Len(Append(f, r)) = Len(f) + 1 /\ Len(f) \in Nat /\ Len(<<>>) = 0 OBVIOUS
<1>2. Append(f, r) # <<>> BY <1>1
<1>3. ASSUME f # <<>> PROVE ReplaceFirst(f, r) # <<>>
  <2>1. 1 \in DOMAIN f BY <1>3
  <2>2. DOMAIN ReplaceFirst(f, r) = DOMAIN f BY DEF ReplaceFirst
  <2>3. DOMAIN <<>> = {} OBVIOUS
  <2> QED BY <2>1, <2>2, <2>3, Zenon
<1> QED BY <1>2, <1>3

LEMMA FilledPush ==
    ASSUME TypeOK, IndexFirst, Filled, PoolNext
    PROVE  Filled' /\ FilesKept
<1> USE DEF storeVars, chanVars, callVars
<1>1. /\ files \in [Hours -> Seq(Record)] /\ byHour \in [Hours -> Seq(Record)]
      /\ affected \subseteq Hours /\ IndexedHours \subseteq Hours /\ buf \in Seq(Record)
  BY DEF TypeOK, IndexedHours
<1>2. todo # <<>> => Current \in Record /\ CurHour \in Hours BY CurrentType
<1>3. (Replacing => todo # <<>>) /\ (Replacing => registry[Current.uid] # "none")
  BY DEF TypeOK, IndexFirst, Replacing
<1>4. \A f \in Seq(Record), r \in Record : Append(f, r) # <<>> BY NotEmpty
<1>5. CASE \E b \in Batches : PushBegin(b)
  BY <1>5 DEF PushBegin, Filled, FilesKept, Covered, IndexedHours, Replacing
<1>6. CASE ApplyPush
  <2>1. CurHour \in Hours /\ Current \in Record BY <1>2, <1>6 DEF ApplyPush
  <2>2. byHour' = [byHour EXCEPT ![CurHour] = Append(@, Current)] /\ affected' = affected \cup {CurHour}
        /\ pc' = "apply" /\ files' = files /\ meta' = meta /\ buf' = buf /\ cur' = cur
    BY <1>6 DEF ApplyPush
  <2>3. \A h \in Hours : byHour'[h] = IF h = CurHour THEN Append(byHour[h], Current) ELSE byHour[h]
    BY <1>1, <2>1, <2>2
  <2>4. byHour'[CurHour] # <<>> BY <1>1, <1>4, <2>1, <2>3
  <2>5. ~Replacing' BY <2>2 DEF Replacing
  <2>6. IndexedHours' = IndexedHours /\ pc = "apply" BY <1>6, <2>2 DEF IndexedHours, ApplyPush
  <2>7. \A h \in affected' : Covered(h)'
    <3>1. \A h \in affected : Covered(h)' BY <1>1, <2>2, <2>3, <2>4, <2>6 DEF Filled, Covered
    <3>2. \A h \in {CurHour} : Covered(h)' BY <2>2, <2>4 DEF Covered
    <3> QED BY <2>2, <3>1, <3>2
  <2> QED BY <1>1, <2>1, <2>2, <2>3, <2>5, <2>6, <2>7 DEF Filled, FilesKept
<1>7. CASE ApplyReplace
  <2>1. CurHour \in Hours /\ Current \in Record /\ registry[Current.uid] # "none"
    BY <1>2, <1>7 DEF ApplyReplace, Decision
  <2>2. Covered(CurHour) BY <1>7, <2>1 DEF IndexFirst, CurHour, Current, ApplyReplace, Record
  <2>3. /\ affected' = affected \cup {CurHour} /\ pc' = "read" /\ pc = "apply" /\ CurHour' = CurHour
        /\ UNCHANGED <<files, meta, byHour, buf, cur>> /\ IndexedHours' = IndexedHours
    BY <1>7 DEF ApplyReplace, CurHour, IndexedHours
  <2>4. \A h \in affected' : Covered(h)' BY <2>2, <2>3 DEF Filled, Covered
  <2> QED BY <1>1, <2>1, <2>3, <2>4 DEF Filled, FilesKept, Replacing
<1>8. CASE ApplySkip
  BY <1>8 DEF ApplySkip, Filled, FilesKept, Covered, IndexedHours, Replacing
<1>9. CASE ReplaceRead
  <2>1. CurHour \in Hours /\ CurHour' = CurHour BY <1>2, <1>3, <1>9 DEF ReplaceRead, Replacing, CurHour
  <2>2. pc' = "create" => buf' # <<>> BY <1>9 DEF ReplaceRead, Holds
  <2>3. UNCHANGED <<files, meta, byHour, affected, cur>> /\ pc = "read" /\ pc' \in {"create", "append"}
        /\ IndexedHours' = IndexedHours
    BY <1>9 DEF ReplaceRead, IndexedHours
  <2> QED BY <2>1, <2>2, <2>3 DEF Filled, FilesKept, Covered, Replacing
<1>10. CASE ReplaceCreate
  <2>1. CurHour \in Hours /\ CurHour' = CurHour /\ CurHour \in affected
    BY <1>2, <1>3, <1>10 DEF ReplaceCreate, Replacing, CurHour, Filled
  <2>2. UNCHANGED <<meta, byHour, affected, cur, buf>> /\ pc = "create" /\ pc' = "rewrite"
        /\ IndexedHours' = IndexedHours /\ files' = [files EXCEPT ![CurHour] = <<>>]
    BY <1>10 DEF ReplaceCreate, IndexedHours
  <2>3. \A h \in Hours : files'[h] = IF h = CurHour THEN <<>> ELSE files[h] BY <1>1, <2>2
  <2> QED BY <1>1, <2>1, <2>2, <2>3 DEF Filled, FilesKept, Covered, Replacing
<1>11. CASE ReplaceRewrite \/ ReplaceAppend
  <2>1. CurHour \in Hours /\ CurHour' = CurHour /\ CurHour \in affected /\ Current \in Record
    BY <1>2, <1>3, <1>11 DEF ReplaceRewrite, ReplaceAppend, Replacing, CurHour, Filled
  <2>2. UNCHANGED <<meta, byHour, affected, cur>> /\ pc \in {"rewrite", "append"} /\ pc' = "register"
        /\ IndexedHours' = IndexedHours
    BY <1>11 DEF ReplaceRewrite, ReplaceAppend, IndexedHours
  <2>3. files'[CurHour] # <<>>
    <3>1. CASE ReplaceRewrite
      <4>1. files'[CurHour] = ReplaceFirst(buf, Current) /\ buf # <<>>
        BY <1>1, <2>1, <3>1 DEF ReplaceRewrite, Filled
      <4> QED BY <1>1, <2>1, <4>1, NotEmpty
    <3>2. CASE ReplaceAppend
      <4>1. files'[CurHour] = Append(files[CurHour], Current) BY <1>1, <2>1, <3>2 DEF ReplaceAppend
      <4> QED BY <1>1, <1>4, <2>1, <4>1
    <3> QED BY <1>11, <3>1, <3>2
  <2>4. \A h \in Hours : h # CurHour => files'[h] = files[h]
    BY <1>1, <1>11 DEF ReplaceRewrite, ReplaceAppend
  <2> QED BY <1>1, <2>1, <2>2, <2>3, <2>4 DEF Filled, FilesKept, Covered, Replacing
<1>12. CASE Register
  BY <1>12 DEF Register, Filled, FilesKept, Covered, IndexedHours, Replacing
<1>13. ASSUME NEW k \in Hours, WriteLogs(k) PROVE Filled' /\ FilesKept
  <2>1. k \in affected /\ byHour[k] # <<>> /\ pc = "apply" BY <1>13 DEF WriteLogs, Filled
  <2>2. /\ files' = [files EXCEPT ![k] = @ \o byHour[k]] /\ byHour' = [byHour EXCEPT ![k] = <<>>]
        /\ cur' = [hour |-> k, count |-> Len(byHour[k])] /\ pc' = "index" /\ UNCHANGED <<meta, affected, buf>>
        /\ IndexedHours' = IndexedHours
    BY <1>13 DEF WriteLogs, IndexedHours
  <2>3. \A f, g \in Seq(Record) : g # <<>> => f \o g # <<>> OBVIOUS
  <2>4. files'[k] = files[k] \o byHour[k] BY <1>1, <2>2
  <2>5. files'[k] # <<>> BY <1>1, <2>1, <2>3, <2>4
  <2>6. \A h \in Hours : h # k => files'[h] = files[h] /\ byHour'[h] = byHour[h] BY <1>1, <2>2
  <2>7. cur'.hour = k /\ byHour'[k] = <<>> BY <1>1, <2>2
  <2>8. \A h \in affected : Covered(h)' BY <1>1, <2>1, <2>2, <2>6, <2>7 DEF Filled, Covered
  <2> QED BY <1>1, <2>1, <2>2, <2>5, <2>6, <2>7, <2>8 DEF Filled, FilesKept, Replacing
<1>14. CASE EnsureIndex
  <2>1. /\ cur.hour \in Hours /\ meta'.tier[cur.hour] # "none"
        /\ \A h \in Hours : meta.tier[h] # "none" => meta'.tier[h] # "none"
    BY <1>14, EnsureIndexTiers
  <2>2. \A h \in Hours : h # cur.hour => meta'.tier[h] = meta.tier[h]
    <3>1. meta \in Meta BY DEF TypeOK
    <3>2. CASE meta.tier[cur.hour] = "none"
      <4>1. meta' = [meta EXCEPT !.version = @ + 1, !.tier[cur.hour] = "active",
                                 !.count[cur.hour] = @ + cur.count]
        BY <1>14, <3>2 DEF EnsureIndex
      <4> QED BY <3>1, <4>1 DEF Meta
    <3>3. CASE meta.tier[cur.hour] # "none"
      <4>1. meta' = [meta EXCEPT !.count[cur.hour] = @ + cur.count] BY <1>14, <3>3 DEF EnsureIndex
      <4> QED BY <3>1, <4>1 DEF Meta
    <3> QED BY <3>2, <3>3
  <2>3. UNCHANGED <<files, byHour, affected, buf>> /\ pc = "index" /\ pc' = "apply"
    BY <1>14 DEF EnsureIndex
  <2> QED BY <1>1, <2>1, <2>2, <2>3 DEF Filled, FilesKept, Covered, IndexedHours, Replacing
<1>15. CASE SaveMeta \/ SaveRegistry
  BY <1>15 DEF SaveMeta, SaveRegistry, Filled, FilesKept, Covered, IndexedHours, Replacing
<1>16. CASE Notify
  <2>1. byHour = NoFiles /\ pc = "notify" /\ \A h \in Hours : NoFiles[h] = <<>>
    BY <1>16, Empties DEF Notify, IndexFirst
  <2>2. affected \subseteq IndexedHours BY <1>1, <2>1 DEF Filled, Covered, IndexedHours
  <2>3. /\ UNCHANGED <<files, meta>> /\ IndexedHours' = IndexedHours /\ affected' = {}
        /\ byHour' = NoFiles /\ pc' = "idle"
    BY <1>16 DEF Notify, Return, IndexedHours
  <2> QED BY <1>1, <2>1, <2>2, <2>3 DEF Filled, FilesKept, Replacing
<1> QED
  BY <1>5, <1>6, <1>7, <1>8, <1>9, <1>10, <1>11, <1>12, <1>13, <1>14, <1>15, <1>16 DEF PoolNext, PushStep

LEMMA FilledStep ==
    ASSUME clears' = 0, Calm, Types, XInv, Filled, [Next]_vars
    PROVE  Filled' /\ FilesKept
<1>1. CASE Ingest \/ NewBatch
  <2>1. IndexFirst /\ TypeOK /\ PoolNext
    BY <1>1 DEF XInv, Calm, Types, FaultsTypeOK, PoolNext, Ingest, NewBatch
  <2> QED BY <2>1, FilledPush
<1>2. CASE Receives \/ Shows
  BY <1>2 DEF Receives, Shows, allVars, poolVars, storeVars, callVars, Filled, FilesKept, Covered,
              IndexedHours, Replacing, CurHour
<1> QED BY <1>1, <1>2, CalmSteps

-----------------------------------------------------------------------------
(* The notifications *)

\* Of the first n notifications, or the notice that some were lost, one makes the
\* cache build anew.
Met(n) == lagged \/ \E j \in 1 .. n : chan[j].type = "meta"

LEMMA Sent ==
    ASSUME chan \in Seq(Notification), NEW n \in Notification, Send(n)
    PROVE  /\ \A i \in DOMAIN chan' : chan'[i] = n \/ \E j \in DOMAIN chan : chan'[i] = chan[j]
           /\ \/ lagged'
              \/ /\ lagged' = lagged /\ Len(chan') = Len(chan) + 1 /\ chan'[Len(chan) + 1] = n
                 /\ \A i \in 1 .. Len(chan) : chan'[i] = chan[i]
<1>1. CASE Len(chan) < ChanCap
  <2>1. chan' = Append(chan, n) /\ lagged' = lagged BY <1>1 DEF Send
  <2>2. /\ Len(chan') = Len(chan) + 1 /\ chan'[Len(chan) + 1] = n
        /\ \A i \in 1 .. Len(chan) : chan'[i] = chan[i] /\ Len(chan) \in Nat
        /\ DOMAIN chan = 1 .. Len(chan) /\ DOMAIN chan' = 1 .. (Len(chan) + 1)
    BY <2>1
  <2>3. \A i \in DOMAIN chan' : i = Len(chan) + 1 \/ i \in DOMAIN chan BY <2>2
  <2> QED BY <2>1, <2>2, <2>3
<1>2. CASE ~(Len(chan) < ChanCap)
  <2>1. chan' = Append(Tail(chan), n) /\ lagged' BY <1>2 DEF Send
  <2>2. chan # <<>> BY <1>2, BoundsAssumption
  <2>3. Tail(chan) \in Seq(Notification) /\ Len(Tail(chan)) = Len(chan) - 1 BY <2>2
  <2>4. \A i \in 1 .. (Len(chan) - 1) : Tail(chan)[i] = chan[i + 1] BY <2>2
  <2>5. DOMAIN chan' = 1 .. Len(chan) /\ Len(chan) \in Nat \ {0} BY <2>1, <2>2, <2>3
  <2>6. \A i \in 1 .. Len(chan) : chan'[i] = IF i = Len(chan) THEN n ELSE Tail(chan)[i]
    <3>1. \A t \in Seq(Notification) : \A i \in 1 .. (Len(t) + 1) :
              Append(t, n)[i] = IF i = Len(t) + 1 THEN n ELSE t[i]
      OBVIOUS
    <3>2. Len(Tail(chan)) + 1 = Len(chan) BY <2>3, <2>5
    <3> QED BY <2>1, <2>3, <3>1, <3>2
  <2>7. \A i \in 1 .. (Len(chan) - 1) : chan'[i] = chan[i + 1] /\ i + 1 \in DOMAIN chan
    BY <2>4, <2>5, <2>6
  <2>8. \A i \in DOMAIN chan' : i = Len(chan) \/ i \in 1 .. (Len(chan) - 1) BY <2>5
  <2>9. \A i \in DOMAIN chan' : chan'[i] = n \/ i \in 1 .. (Len(chan) - 1) BY <2>5, <2>6, <2>8
  <2> QED BY <2>1, <2>7, <2>9
<1> QED BY <1>1, <1>2

LEMMA Taken ==
    ASSUME chan \in Seq(Notification), chan # <<>>, chan' = Tail(chan)
    PROVE  /\ Len(chan) \in Nat \ {0} /\ Len(chan') = Len(chan) - 1
           /\ \A i \in 1 .. (Len(chan) - 1) : chan'[i] = chan[i + 1]
           /\ Head(chan) = chan[1] /\ 1 \in DOMAIN chan
           /\ \A i \in DOMAIN chan' : i + 1 \in DOMAIN chan /\ chan'[i] = chan[i + 1]
<1>1. Len(chan) \in Nat \ {0} /\ Len(chan') = Len(chan) - 1 /\ chan' \in Seq(Notification) OBVIOUS
<1>2. \A i \in 1 .. (Len(chan) - 1) : chan'[i] = chan[i + 1] OBVIOUS
<1>3. DOMAIN chan' = 1 .. (Len(chan) - 1) /\ DOMAIN chan = 1 .. Len(chan) BY <1>1
<1> QED BY <1>1, <1>2, <1>3

\* What a push says: nothing while it leaves the index alone and is still at its hours, a
\* new hour in the index, or its hours at the end.
LEMMA Tells ==
    ASSUME Types, Ingest \/ NewBatch
    PROVE  \/ chanVars' = chanVars /\ IndexedHours' = IndexedHours /\ affected \subseteq affected'
           \/ \E n \in Notification :
                  /\ Send(n) /\ n.type = "meta" /\ affected' = affected
                  /\ IndexedHours \subseteq IndexedHours' /\ n.keys \subseteq IndexedHours'
           \/ \E n \in Notification :
                  /\ pc = "notify" /\ Send(n) /\ n.type = "pushed" /\ n.keys = affected
                  /\ IndexedHours' = IndexedHours
<1> USE DEF storeVars, chanVars, callVars
<1>1. TypeOK /\ [Next]_vars BY DEF Types, FaultsTypeOK, Next
<1>2. CASE Ingest /\ EnsureIndex
  <2>1. cur.hour \in Hours /\ affected' = affected /\ IndexedHours' = IndexedHours \cup {cur.hour}
    <3>1. /\ cur.hour \in Hours /\ meta'.tier[cur.hour] # "none"
          /\ \A h \in Hours : meta.tier[h] # "none" => meta'.tier[h] # "none"
      BY <1>1, <1>2, EnsureIndexTiers
    <3>2. IndexedHours' = {h \in Hours : meta'.tier[h] # "none"} BY DEF IndexedHours
    <3>3. cur.hour \in IndexedHours' BY <3>1, <3>2
    <3>4. \/ IndexedHours' = IndexedHours
          \/ IndexedHours' = {}
          \/ IndexedHours' = IndexedHours \cup {cur.hour}
      BY <1>1, IndexStep DEF Types
    <3> QED BY <1>2, <3>1, <3>3, <3>4 DEF EnsureIndex
  <2>2. CASE meta.tier[cur.hour] = "none"
    <3> DEFINE n == [type |-> "meta", keys |-> {cur.hour}]
    <3>1. n \in Notification /\ n.type = "meta" /\ n.keys = {cur.hour} BY <2>1 DEF Notification
    <3>2. Send(n) BY <1>2, <2>2 DEF EnsureIndex
    <3> HIDE DEF n
    <3> QED BY <2>1, <3>1, <3>2
  <2>3. CASE meta.tier[cur.hour] # "none"
    <3>1. cur.hour \in IndexedHours BY <2>1, <2>3 DEF IndexedHours
    <3> QED BY <1>2, <2>1, <2>3, <3>1 DEF EnsureIndex
  <2> QED BY <2>2, <2>3
<1>3. CASE Ingest /\ Notify
  <2>1. affected \subseteq Hours /\ IndexedHours' = IndexedHours /\ pc = "notify"
    BY <1>1, <1>3 DEF TypeOK, Notify, IndexedHours
  <2>2. CASE affected = {}
    BY <1>3, <2>1, <2>2 DEF Notify
  <2>3. CASE affected # {}
    <3> DEFINE n == [type |-> "pushed", keys |-> affected]
    <3>1. n \in Notification /\ n.type = "pushed" /\ n.keys = affected BY <2>1 DEF Notification
    <3>2. Send(n) BY <1>3, <2>3 DEF Notify
    <3> HIDE DEF n
    <3> QED BY <2>1, <3>1, <3>2
  <2> QED BY <2>2, <2>3
<1>4. CASE NewBatch BY <1>4 DEF NewBatch, PushBegin, IndexedHours
<1>5. CASE Ingest /\ ~EnsureIndex /\ ~Notify
  BY <1>5 DEF Ingest, PushStep, IndexedHours, ApplyPush, ApplyReplace, ApplySkip, ReplaceRead,
         ReplaceCreate, ReplaceRewrite, ReplaceAppend, Register, WriteLogs, SaveMeta, SaveRegistry
<1> QED BY <1>2, <1>3, <1>4, <1>5

\* What has been announced when there has been no Rebuild is in the index.
LEMMA Announces ==
    ASSUME Types, Calm, XInv, Filled, Ingest \/ NewBatch
    PROVE  \/ chanVars' = chanVars /\ IndexedHours' = IndexedHours /\ affected \subseteq affected'
           \/ \E n \in Notification :
                  /\ Send(n) /\ n.type = "meta" /\ affected' = affected
                  /\ IndexedHours \subseteq IndexedHours' /\ n.keys \subseteq IndexedHours'
           \/ \E n \in Notification :
                  /\ Send(n) /\ n.type = "pushed" /\ n.keys = affected
                  /\ affected \subseteq IndexedHours /\ IndexedHours' = IndexedHours
<1>1. affected \subseteq Hours /\ IndexFirst
  BY DEF Types, FaultsTypeOK, TypeOK, Calm, XInv
<1>2. pc = "notify" => \A h \in Hours : byHour[h] = <<>> BY <1>1, Empties DEF IndexFirst
<1>3. pc = "notify" => affected \subseteq IndexedHours BY <1>1, <1>2 DEF Filled, Covered, IndexedHours
<1> QED BY <1>3, Tells

-----------------------------------------------------------------------------
(* The boundary between cold and hot *)

\* The termination key is not before h, or will not be when the build under way has set it.
Seen(h) ==
    \/ cachePc = "snapshot"
    \/ cachePc = "progress" /\ h \in keys
    \/ cachePc \notin {"snapshot", "progress"} /\ h <= term

\* What the cache is told of, reads or has read is in the index.
Named ==
    /\ \A n \in DOMAIN chan : chan[n].keys \subseteq IndexedHours
    /\ keys \subseteq IndexedHours /\ updating \subseteq IndexedHours /\ processed \subseteq IndexedHours

\* An indexed hour is not after the termination key, or there is a notification that
\* makes the cache build anew, and it comes before any that names the hour.
Ahead ==
    /\ \A n \in DOMAIN chan :
           chan[n].type = "pushed" => \A h \in chan[n].keys : Seen(h) \/ Met(n - 1)
    /\ \A h \in IndexedHours : Seen(h) \/ Met(Len(chan))

\* What is read or has been read is not after the termination key.
Below ==
    /\ cachePc \in {"check", "query", "ingest", "mark"} => \A h \in keys : h <= term
    /\ cachePc \in {"query", "ingest", "mark"} => readKey \in keys
    /\ cachePc \in {"update", "add", "addMark"} => \A h \in updating : h <= term
    /\ cachePc \in {"add", "addMark"} => readKey \in updating
    /\ cachePc = "progress" => agg = NoFiles
    /\ \A h \in Hours : agg[h] # <<>> => h <= term

Boundary == Named /\ Ahead /\ Below

LEMMA BoundaryInit == ShowInit => Boundary
<1> SUFFICES ASSUME ShowInit PROVE Boundary
  OBVIOUS
<1>1. /\ chan = <<>> /\ IndexedHours = {} /\ keys = {} /\ updating = {} /\ processed = {}
      /\ cachePc = "snapshot" /\ agg = NoFiles
  BY DEF ShowInit, FaultsInit, CacheInit, Init, IndexedHours, EmptyMeta
<1>2. DOMAIN chan = {} BY <1>1
<1>3. Named /\ Ahead BY <1>1, <1>2 DEF Named, Ahead
<1>4. \A h \in Hours : agg[h] = <<>> BY <1>1, Empties
<1> QED BY <1>1, <1>3, <1>4 DEF Boundary, Below

\* A push.
LEMMA BoundaryPush ==
    ASSUME Types, Calm, XInv, Filled, Boundary, Ingest \/ NewBatch
    PROVE  Boundary'
<1>1. cacheVars' = cacheVars BY DEF Ingest, NewBatch
<1>2. Below' BY <1>1 DEF cacheVars, Boundary, Below
<1>3. \A h : Seen(h)' <=> Seen(h) BY <1>1 DEF cacheVars, Seen
<1>4. chan \in Seq(Notification) /\ lagged \in BOOLEAN BY DEF Types, FaultsTypeOK, TypeOK
<1>5. CASE chanVars' = chanVars /\ IndexedHours' = IndexedHours
  BY <1>1, <1>2, <1>3, <1>5 DEF chanVars, cacheVars, Boundary, Named, Ahead, Met
<1>6. ASSUME NEW n \in Notification, Send(n),
             IndexedHours \subseteq IndexedHours', n.keys \subseteq IndexedHours',
             \/ n.type = "meta"
             \/ n.type = "pushed" /\ n.keys \subseteq IndexedHours /\ IndexedHours' = IndexedHours
      PROVE  Boundary'
  <2>1. /\ \A i \in DOMAIN chan' : chan'[i] = n \/ \E j \in DOMAIN chan : chan'[i] = chan[j]
        /\ \/ lagged'
           \/ /\ lagged' = lagged /\ Len(chan') = Len(chan) + 1 /\ chan'[Len(chan) + 1] = n
              /\ \A i \in 1 .. Len(chan) : chan'[i] = chan[i]
    BY <1>4, <1>6, Sent
  <2>2. Named' BY <1>1, <1>6, <2>1 DEF cacheVars, Boundary, Named
  <2>3. lagged' => Ahead' BY DEF Ahead, Met
  <2>4. ASSUME ~lagged' PROVE Ahead'
    <3>1. /\ lagged' = lagged /\ Len(chan') = Len(chan) + 1 /\ chan'[Len(chan) + 1] = n
          /\ \A i \in 1 .. Len(chan) : chan'[i] = chan[i]
      BY <2>1, <2>4
    <3>2. /\ Len(chan) \in Nat /\ DOMAIN chan = 1 .. Len(chan)
      BY <1>4
    <3>3. DOMAIN chan' = 1 .. (Len(chan) + 1)
      <4>1. chan' \in Seq(Notification) BY <1>4, <1>6, SendType
      <4> QED BY <3>1, <4>1
    <3>4. \A i \in 0 .. Len(chan) : Met(i)' <=> Met(i) BY <3>1, <3>2 DEF Met
    <3>5. Met(Len(chan)) => (Met(Len(chan)))' BY <3>1, <3>2, <3>4 DEF Met
    <3>6. n.type = "meta" => (Met(Len(chan)))' BY <3>1, <3>2 DEF Met
    <3>7. \A h \in IndexedHours' : Seen(h)' \/ (Met(Len(chan)))'
      BY <1>3, <1>6, <3>5, <3>6 DEF Boundary, Ahead
    <3>8. ASSUME NEW i \in DOMAIN chan', chan'[i].type = "pushed", NEW h \in chan'[i].keys
          PROVE  Seen(h)' \/ Met(i - 1)'
      <4>1. CASE i \in DOMAIN chan
        <5>1. i - 1 \in 0 .. Len(chan) BY <3>2, <4>1
        <5>2. chan'[i] = chan[i] BY <3>1, <3>2, <4>1
        <5> QED BY <1>3, <3>4, <3>8, <4>1, <5>1, <5>2 DEF Boundary, Ahead
      <4>2. CASE i = Len(chan) + 1
        <5>1. i - 1 = Len(chan) /\ Len(chan) \in 0 .. Len(chan) BY <3>2, <4>2
        <5>2. chan'[i] = n /\ n.type # "meta" BY <3>1, <3>8, <4>2
        <5>3. h \in IndexedHours BY <1>6, <3>8, <5>2
        <5>4. Seen(h) \/ Met(Len(chan)) BY <5>3 DEF Boundary, Ahead
        <5> QED BY <1>3, <3>4, <5>1, <5>4
      <4> QED BY <3>2, <3>3, <4>1, <4>2
    <3> QED BY <3>7, <3>8 DEF Ahead
  <2> QED BY <1>2, <2>2, <2>3, <2>4 DEF Boundary
<1> QED BY <1>5, <1>6, Announces

\* The cache takes a notification.
LEMMA BoundaryTake ==
    ASSUME Types, Boundary, Cache, RecvLagged \/ RecvMetadataChanged \/ RecvDataPushed
    PROVE  Boundary'
<1> USE DEF cacheData
<1>1. chan \in Seq(Notification) BY DEF Types, FaultsTypeOK, TypeOK
<1>2. IndexedHours' = IndexedHours BY DEF Cache, storeVars, IndexedHours
<1>3. CASE RecvLagged
  <2>1. chan' = chan /\ cachePc' = "snapshot" /\ UNCHANGED <<agg, processed, term, keys, updating>>
    BY <1>3 DEF RecvLagged
  <2> QED BY <1>2, <2>1 DEF Boundary, Named, Ahead, Below, Seen
<1>4. CASE RecvMetadataChanged \/ RecvDataPushed
  <2>1. /\ chan # <<>> /\ chan' = Tail(chan) /\ ~lagged /\ lagged' = lagged /\ cachePc = "idle"
        /\ UNCHANGED <<agg, processed, term, keys, readKey>>
    BY <1>4 DEF RecvMetadataChanged, RecvDataPushed
  <2>2. /\ Len(chan) \in Nat \ {0} /\ Len(chan') = Len(chan) - 1
        /\ \A i \in 1 .. (Len(chan) - 1) : chan'[i] = chan[i + 1]
        /\ Head(chan) = chan[1] /\ 1 \in DOMAIN chan
        /\ \A i \in DOMAIN chan' : i + 1 \in DOMAIN chan /\ chan'[i] = chan[i + 1]
    BY <1>1, <2>1, Taken
  <2>3. \A i \in DOMAIN chan' : chan'[i].keys \subseteq IndexedHours BY <2>2 DEF Boundary, Named
  <2>4. CASE RecvMetadataChanged
    <3>1. cachePc' = "snapshot" /\ updating' = updating BY <2>4 DEF RecvMetadataChanged
    <3> QED BY <1>2, <2>1, <2>3, <3>1 DEF Boundary, Named, Ahead, Below, Seen
  <2>5. CASE RecvDataPushed
    <3>1. cachePc' = "update" /\ updating' = Head(chan).keys /\ Head(chan).type = "pushed"
      BY <2>5 DEF RecvDataPushed
    <3>2. Named' BY <1>2, <2>1, <2>2, <2>3, <3>1 DEF Boundary, Named
    <3>3. \A h \in Head(chan).keys : h <= term
      <4>1. ~Met(1 - 1) BY <2>1 DEF Met
      <4> QED BY <2>1, <2>2, <3>1, <4>1 DEF Boundary, Ahead, Seen
    <3>4. Below' BY <2>1, <3>1, <3>3 DEF Boundary, Below
    <3>5. \A h : Seen(h) => Seen(h)' BY <2>1, <3>1 DEF Seen
    <3>6. ASSUME NEW i \in 1 .. Len(chan), Met(i) PROVE Met(i - 1)'
      <4>1. PICK j \in 1 .. i : chan[j].type = "meta" BY <2>1, <3>6 DEF Met
      <4>2. j # 1 BY <2>2, <3>1, <4>1
      <4>3. j - 1 \in 1 .. (i - 1) /\ j - 1 \in 1 .. (Len(chan) - 1) BY <2>2, <4>2
      <4>4. chan'[j - 1] = chan[j] BY <2>2, <4>3
      <4> QED BY <4>1, <4>3, <4>4 DEF Met
    <3>7. Ahead'
      <4>1. \A h \in IndexedHours' : Seen(h)' \/ (Met(Len(chan)))'
        <5>1. Len(chan) \in 1 .. Len(chan) /\ Len(chan') = Len(chan) - 1 BY <2>2
        <5> QED BY <1>2, <3>5, <3>6, <5>1 DEF Boundary, Ahead
      <4>2. ASSUME NEW i \in DOMAIN chan', chan'[i].type = "pushed", NEW h \in chan'[i].keys
            PROVE  Seen(h)' \/ Met(i - 1)'
        <5>1. i + 1 \in DOMAIN chan /\ chan'[i] = chan[i + 1] BY <2>2
        <5>2. i \in 1 .. Len(chan) /\ (i + 1) - 1 = i
          <6>1. chan' \in Seq(Notification) BY <1>1, <2>1
          <6> QED BY <2>2, <6>1
        <5>3. Seen(h) \/ Met(i) BY <4>2, <5>1, <5>2 DEF Boundary, Ahead
        <5> QED BY <3>5, <3>6, <5>2, <5>3
      <4> QED BY <4>1, <4>2 DEF Ahead
    <3> QED BY <3>2, <3>4, <3>7 DEF Boundary
  <2> QED BY <1>4, <2>4, <2>5
<1> QED BY <1>3, <1>4

\* The cache builds or updates.
LEMMA BoundaryWork ==
    ASSUME Types, Boundary, Cache, ~(RecvLagged \/ RecvMetadataChanged \/ RecvDataPushed)
    PROVE  Boundary'
<1> USE DEF cacheData, chanVars
<1>1. agg \in [Hours -> Seq(Record)] /\ keys \subseteq Hours /\ updating \subseteq Hours
  BY DEF Types, CacheTypes, CacheTypeOK
<1>2. IndexedHours' = IndexedHours BY DEF Cache, storeVars, IndexedHours
<1>3. ASSUME chanVars' = chanVars, term' = term, cachePc \notin {"snapshot", "progress"},
             cachePc' # "progress"
      PROVE  Ahead'
  <2>1. \A h : Seen(h) => Seen(h)' BY <1>3 DEF Seen
  <2> QED BY <1>2, <1>3, <2>1 DEF Boundary, Ahead, Met
<1>4. CASE BuildSnapshot
  <2>1. \A h \in Hours : NoFiles[h] = <<>> BY Empties
  <2>2. \A h \in IndexedHours' : Seen(h)' BY <1>2, <1>4 DEF BuildSnapshot, Seen
  <2> QED BY <1>2, <1>4, <2>1, <2>2 DEF BuildSnapshot, Boundary, Named, Ahead, Below
<1>5. CASE BuildProgress
  <2>1. PICK b \in Nat : \A h \in keys : h <= b BY DEF Types, CacheTypes, Bounded
  <2>2. \A h \in keys : h <= MaxKey(keys) BY <1>1, <2>1, GreatestKey, Zenon
  <2>3. \A h : Seen(h) => Seen(h)' BY <1>5, <2>2 DEF BuildProgress, Seen
  <2>4. \A h \in Hours : agg[h] = <<>> BY <1>5, Empties DEF BuildProgress, Boundary, Below
  <2>5. Named' /\ Ahead' BY <1>2, <1>5, <2>3 DEF BuildProgress, Boundary, Named, Ahead, Met
  <2>6. Below' BY <1>5, <2>2, <2>4 DEF BuildProgress, Below
  <2> QED BY <2>5, <2>6 DEF Boundary
<1>6. CASE BuildCheck
  <2>1. keys # {} => Min(keys) \in keys BY <1>1, LeastKey
  <2>2. Ahead' BY <1>3, <1>6 DEF BuildCheck
  <2> QED BY <1>2, <1>6, <2>1, <2>2 DEF BuildCheck, Boundary, Named, Below
<1>7. CASE BuildQuery
  <2>1. Ahead' BY <1>3, <1>7 DEF BuildQuery
  <2> QED BY <1>2, <1>7, <2>1 DEF BuildQuery, Boundary, Named, Below
<1>8. CASE BuildIngest \/ UpdateIngest
  <2>1. Ahead' BY <1>3, <1>8 DEF BuildIngest, UpdateIngest
  <2>2. readKey <= term BY <1>8 DEF BuildIngest, UpdateIngest, Boundary, Below
  <2>3. \A h \in Hours : h # readKey => agg'[h] = agg[h] BY <1>1, <1>8 DEF BuildIngest, UpdateIngest
  <2>4. \A h \in Hours : agg'[h] # <<>> => h <= term BY <2>2, <2>3 DEF Boundary, Below
  <2> QED BY <1>2, <1>8, <2>1, <2>4 DEF BuildIngest, UpdateIngest, Boundary, Named, Below
<1>9. CASE BuildMark
  <2>1. Ahead' BY <1>3, <1>9 DEF BuildMark
  <2>2. readKey \in IndexedHours BY <1>9 DEF BuildMark, Boundary, Named, Below
  <2> QED BY <1>2, <1>9, <2>1, <2>2 DEF BuildMark, Boundary, Named, Below
<1>10. CASE UpdateMark
  <2>1. Ahead' BY <1>3, <1>10 DEF UpdateMark
  <2>2. readKey \in IndexedHours BY <1>10 DEF UpdateMark, Boundary, Named, Below
  <2> QED BY <1>2, <1>10, <2>1, <2>2 DEF UpdateMark, Boundary, Named, Below
<1>11. CASE BuildDone \/ UpdateDone
  <2>1. Ahead' BY <1>3, <1>11 DEF BuildDone, UpdateDone
  <2> QED BY <1>2, <1>11, <2>1 DEF BuildDone, UpdateDone, Boundary, Named, Below
<1>12. CASE UpdateQuery
  <2>1. Min(updating) \in updating BY <1>1, <1>12, LeastKey DEF UpdateQuery
  <2>2. Ahead' BY <1>3, <1>12 DEF UpdateQuery
  <2> QED BY <1>2, <1>12, <2>1, <2>2 DEF UpdateQuery, Boundary, Named, Below
<1> QED
  BY <1>4, <1>5, <1>6, <1>7, <1>8, <1>9, <1>10, <1>11, <1>12 DEF Cache, CacheStep

\* While there has been no Rebuild.
Unbroken == Calm /\ Filled /\ Boundary

BInv == Types /\ XInv /\ (clears = 0 => Unbroken)

LEMMA UnbrokenStep ==
    ASSUME BInv, [Next]_vars, clears' = 0
    PROVE  Unbroken' /\ FilesKept
<1>1. Types /\ XInv /\ Calm /\ Filled /\ Boundary BY ClearsGrow DEF BInv, Unbroken
<1>2. Calm' /\ Filled' /\ FilesKept BY <1>1, CalmStep, FilledStep
<1>3. CASE Ingest \/ NewBatch BY <1>1, <1>2, <1>3, BoundaryPush DEF Unbroken
<1>4. CASE Cache BY <1>1, <1>2, <1>4, BoundaryTake, BoundaryWork DEF Unbroken
<1>5. CASE Shows
  <2>1. Boundary'
    BY <1>1, <1>5 DEF Shows, allVars, poolVars, IndexedHours, Boundary, Named, Ahead, Below, Seen, Met
  <2> QED BY <1>2, <2>1 DEF Unbroken
<1> QED BY <1>1, <1>3, <1>4, <1>5, CalmSteps

LEMMA ShowUnbroken == Spec => []BInv
<1>1. ShowInit => BInv
  BY TypesInit, IndexFirstInit, CalmInit, FilledInit, BoundaryInit DEF BInv, Unbroken
<1>2. BInv /\ [Next]_vars => BInv'
  BY TypesStep, IndexFirstStep, UnbrokenStep DEF BInv
<1> QED BY <1>1, <1>2, PTL DEF Spec

\* The boundary between cold and hot, at every moment of every build and update: the
\* cache never holds an hour after its termination key. An hour is read only after the
\* build that sets the key has seen it in the index: the index announces a new hour before
\* the push that filled it announces its records, and the two keep their order.
THEOREM ShowColdHotDisjoint == Spec => [](clears = 0 => ColdHotDisjoint)
<1>1. BInv => (clears = 0 => ColdHotDisjoint)
  BY DEF BInv, Unbroken, Boundary, Below, ColdHotDisjoint
<1> QED BY <1>1, ShowUnbroken, PTL

-----------------------------------------------------------------------------
(* What the cache has counted *)

Building == cachePc \in {"progress", "check", "query", "ingest", "mark"}

\* A notification on the way makes the cache read hour h again.
Mentions(h) == lagged \/ \E n \in DOMAIN chan : chan[n].type = "meta" \/ h \in chan[n].keys

\* The build or update under way is still to read hour h.
Queued(h) ==
    \/ cachePc = "snapshot"
    \/ cachePc = "update" /\ h \in updating
    \/ cachePc \in {"add", "addMark"} /\ h \in updating \ {readKey}
    \/ cachePc \in {"progress", "check", "query"} /\ h \in keys
    \/ cachePc \in {"ingest", "mark"} /\ h \in keys \ {readKey}

Due(h) == Mentions(h) \/ h \in affected \/ Queued(h)

Counted(h) == IF cachePc \in {"ingest", "add"} /\ h = readKey
              THEN readLogs = files[h] ELSE agg[h] = files[h]

\* Every hour is counted as the pool has it, or due; none is counted twice: what is
\* not marked as processed has not been added.
Accounts ==
    /\ \A h \in Hours : Due(h) \/ Counted(h)
    /\ \A h \in Hours : agg[h] # <<>> => h \in processed \/ (cachePc \in {"mark", "addMark"} /\ h = readKey)
    /\ Building => keys \cap processed = {}
    /\ cachePc = "add" => readKey \notin processed

\* The cache will build anew.
Fresh == cachePc = "snapshot" \/ Met(Len(chan))

\* Otherwise it has processed what is indexed, and knows the last hour.
Complete ==
    \/ Fresh
    \/ /\ IndexedHours \subseteq processed \cup (IF Building THEN keys ELSE {})
       /\ IF cachePc = "progress" THEN keys = IndexedHours ELSE term = MaxKey(IndexedHours)

Settling == Accounts /\ Complete

LEMMA SettlingInit == ShowInit => Settling
<1> SUFFICES ASSUME ShowInit PROVE Settling
  OBVIOUS
<1>1. cachePc = "snapshot" /\ agg = NoFiles BY DEF ShowInit, CacheInit
<1>2. \A h \in Hours : agg[h] = <<>> BY <1>1, Empties
<1> QED BY <1>1, <1>2 DEF Settling, Accounts, Complete, Due, Queued, Fresh, Building

LEMMA Mentioned ==
    ASSUME chan \in Seq(Notification), NEW n \in Notification, Send(n)
    PROVE  /\ \A h : Mentions(h) => Mentions(h)'
           /\ n.type = "meta" => \A h : Mentions(h)'
           /\ \A h \in n.keys : Mentions(h)'
           /\ Met(Len(chan)) => (Met(Len(chan)))'
           /\ n.type = "meta" => (Met(Len(chan)))'
<1>1. CASE lagged' BY <1>1 DEF Mentions, Met
<1>2. CASE ~lagged'
  <2>1. /\ lagged' = lagged /\ Len(chan') = Len(chan) + 1 /\ chan'[Len(chan) + 1] = n
        /\ \A i \in 1 .. Len(chan) : chan'[i] = chan[i]
    BY <1>2, Sent
  <2>2. /\ Len(chan) \in Nat /\ DOMAIN chan = 1 .. Len(chan) OBVIOUS
  <2>3. DOMAIN chan' = 1 .. (Len(chan) + 1)
    <3>1. CASE Len(chan) < ChanCap BY <3>1 DEF Send
    <3>2. CASE ~(Len(chan) < ChanCap) BY <1>2, <3>2 DEF Send
    <3> QED BY <3>1, <3>2
  <2>4. DOMAIN chan \subseteq DOMAIN chan' /\ Len(chan) + 1 \in DOMAIN chan' BY <2>2, <2>3
  <2>5. \A i \in DOMAIN chan : chan'[i] = chan[i] BY <2>1, <2>2
  <2>6. /\ \A h : Mentions(h) => Mentions(h)'
        /\ n.type = "meta" => \A h : Mentions(h)'
        /\ \A h \in n.keys : Mentions(h)'
    BY <2>1, <2>4, <2>5 DEF Mentions
  <2>7. (Met(Len(chan)) => (Met(Len(chan)))') /\ (n.type = "meta" => (Met(Len(chan)))')
    BY <2>1, <2>2 DEF Met
  <2> QED BY <2>6, <2>7
<1> QED BY <1>1, <1>2

LEMMA SettlingPush ==
    ASSUME Types, XInv, Unbroken, FilesKept, Settling, Ingest \/ NewBatch
    PROVE  Settling'
<1>1. cacheVars' = cacheVars BY DEF Ingest, NewBatch
<1>2. chan \in Seq(Notification) BY DEF Types, FaultsTypeOK, TypeOK
<1>3. ASSUME \A h : Mentions(h) => Mentions(h)',
             \/ affected \subseteq affected'
             \/ \A h \in affected : Mentions(h)'
      PROVE  Accounts'
  <2>1. \A h \in Hours : Due(h)' \/ (files'[h] = files[h] /\ ~Due(h))
    BY <1>1, <1>3 DEF cacheVars, FilesKept, Due, Queued
  <2>2. \A h \in Hours : Due(h)' \/ Counted(h)'
    BY <1>1, <2>1 DEF cacheVars, Settling, Accounts, Counted
  <2> QED BY <1>1, <2>2 DEF cacheVars, Settling, Accounts, Building
<1>4. ASSUME Met(Len(chan)) => (Met(Len(chan)))', IndexedHours' = IndexedHours
      PROVE  Complete'
  BY <1>1, <1>4 DEF cacheVars, Settling, Complete, Fresh, Building
<1>5. CASE chanVars' = chanVars /\ IndexedHours' = IndexedHours /\ affected \subseteq affected'
  <2>1. (\A h : Mentions(h) => Mentions(h)') /\ (Met(Len(chan)) => (Met(Len(chan)))')
    BY <1>5 DEF chanVars, Mentions, Met
  <2> QED BY <1>3, <1>4, <1>5, <2>1 DEF Settling
<1>6. ASSUME NEW n \in Notification, Send(n), n.type = "meta" PROVE Settling'
  <2>1. (\A h : Mentions(h)') /\ (Met(Len(chan)))' BY <1>2, <1>6, Mentioned
  <2> QED BY <1>3, <2>1 DEF Settling, Complete, Fresh
<1>7. ASSUME NEW n \in Notification, Send(n), n.keys = affected, IndexedHours' = IndexedHours
      PROVE  Settling'
  <2>1. /\ \A h : Mentions(h) => Mentions(h)'
        /\ \A h \in n.keys : Mentions(h)'
        /\ Met(Len(chan)) => (Met(Len(chan)))'
    BY <1>2, <1>7, Mentioned
  <2> QED BY <1>3, <1>4, <1>7, <2>1 DEF Settling
<1> QED BY <1>5, <1>6, <1>7, Announces DEF Unbroken

\* What a notification asks for is due until it is read, once the notification is taken.
LEMMA TakenDue ==
    ASSUME Types, Cache, RecvDataPushed
    PROVE  /\ \A h : Due(h) => Due(h)'
           /\ Met(Len(chan)) => (Met(Len(chan)))'
<1>1. /\ chan \in Seq(Notification) /\ affected' = affected /\ cachePc = "idle"
      /\ chan # <<>> /\ chan' = Tail(chan) /\ ~lagged /\ lagged' = lagged
      /\ cachePc' = "update" /\ updating' = Head(chan).keys /\ Head(chan).type = "pushed"
  BY DEF Types, FaultsTypeOK, TypeOK, Cache, callVars, RecvDataPushed
<1>2. /\ Len(chan) \in Nat \ {0} /\ Len(chan') = Len(chan) - 1
      /\ \A i \in 1 .. (Len(chan) - 1) : chan'[i] = chan[i + 1]
      /\ Head(chan) = chan[1] /\ 1 \in DOMAIN chan
  BY <1>1, Taken
<1>3. DOMAIN chan = 1 .. Len(chan) /\ DOMAIN chan' = 1 .. (Len(chan) - 1)
  <2>1. chan' \in Seq(Notification) BY <1>1
  <2> QED BY <1>1, <1>2, <2>1
<1>4. \A i \in DOMAIN chan : i = 1 \/ (i - 1 \in DOMAIN chan' /\ chan'[i - 1] = chan[i])
  BY <1>2, <1>3
<1>5. ASSUME NEW h, Mentions(h) PROVE Mentions(h)' \/ h \in updating'
  <2>1. PICK i \in DOMAIN chan : chan[i].type = "meta" \/ h \in chan[i].keys BY <1>1, <1>5 DEF Mentions
  <2>2. CASE i = 1 BY <1>1, <1>2, <2>1, <2>2
  <2>3. CASE i # 1 BY <1>4, <2>1, <2>3 DEF Mentions
  <2> QED BY <2>2, <2>3
<1>6. Met(Len(chan)) => (Met(Len(chan)))' BY <1>1, <1>2, <1>3, <1>4 DEF Met
<1>7. \A h : Due(h) => Due(h)' BY <1>1, <1>5 DEF Due, Queued
<1> QED BY <1>6, <1>7

LEMMA SettlingTake ==
    ASSUME Types, Settling, Cache, RecvLagged \/ RecvMetadataChanged \/ RecvDataPushed
    PROVE  Settling'
<1> USE DEF cacheData
<1>1. /\ chan \in Seq(Notification) /\ UNCHANGED <<files, affected>> /\ IndexedHours' = IndexedHours
      /\ UNCHANGED <<agg, processed, term, keys, readKey, readLogs>> /\ cachePc = "idle"
  BY DEF Types, FaultsTypeOK, TypeOK, Cache, storeVars, callVars, IndexedHours,
         RecvLagged, RecvMetadataChanged, RecvDataPushed
<1>2. CASE RecvLagged \/ RecvMetadataChanged
  <2>1. cachePc' = "snapshot" BY <1>2 DEF RecvLagged, RecvMetadataChanged
  <2> QED BY <1>1, <2>1 DEF Settling, Accounts, Complete, Due, Queued, Fresh, Building
<1>3. CASE RecvDataPushed
  <2>1. /\ chan # <<>> /\ chan' = Tail(chan) /\ ~lagged /\ lagged' = lagged
        /\ cachePc' = "update" /\ updating' = Head(chan).keys /\ Head(chan).type = "pushed"
    BY <1>3 DEF RecvDataPushed
  <2>2. \A h : Due(h) => Due(h)' BY <1>3, TakenDue
  <2>3. Accounts' BY <1>1, <2>1, <2>2 DEF Settling, Accounts, Counted, Building
  <2>4. Met(Len(chan)) => (Met(Len(chan)))' BY <1>3, TakenDue
  <2> QED BY <1>1, <2>1, <2>3, <2>4 DEF Settling, Complete, Fresh, Building
<1> QED BY <1>2, <1>3

\* An hour is added when nothing of it has been.
LEMMA IngestOnce ==
    ASSUME Types, Unbroken, Settling, BuildIngest \/ UpdateIngest
    PROVE  /\ readKey \in Hours /\ agg'[readKey] = readLogs
           /\ \A h \in Hours : h # readKey => agg'[h] = agg[h]
<1>1. /\ agg \in [Hours -> Seq(Record)] /\ readLogs \in Seq(Record) /\ readKey \in Hours
  BY DEF Types, CacheTypes, CacheTypeOK, AtHour, BuildIngest, UpdateIngest
<1>2. cachePc \in {"ingest", "add"} /\ agg' = [agg EXCEPT ![readKey] = @ \o readLogs]
  BY DEF BuildIngest, UpdateIngest
<1>3. readKey \notin processed
  BY <1>2 DEF Unbroken, Boundary, Below, Settling, Accounts, Building
<1>4. agg[readKey] = <<>> BY <1>1, <1>2, <1>3 DEF Settling, Accounts
<1>5. \A f \in Seq(Record) : <<>> \o f = f OBVIOUS
<1> QED BY <1>1, <1>2, <1>4, <1>5

LEMMA SettlingBuild ==
    ASSUME Types, Unbroken, Settling, Cache,
           \/ BuildSnapshot \/ BuildProgress \/ BuildCheck
           \/ BuildQuery \/ BuildIngest \/ BuildMark \/ BuildDone
    PROVE  Settling'
<1> USE DEF cacheData, chanVars
<1>1. /\ UNCHANGED <<files, affected>> /\ IndexedHours' = IndexedHours /\ chan' = chan /\ lagged' = lagged
  BY DEF Cache, storeVars, callVars, IndexedHours,
         BuildSnapshot, BuildProgress, BuildCheck, BuildQuery, BuildIngest, BuildMark, BuildDone
<1>3. (\A h : Mentions(h)' <=> Mentions(h)) /\ (Met(Len(chan)))' = Met(Len(chan))
  BY <1>1 DEF Mentions, Met
<1>4. CASE BuildSnapshot
  <2>1. /\ keys' = IndexedHours /\ agg' = NoFiles /\ processed' = {} /\ cachePc' = "progress"
    BY <1>4 DEF BuildSnapshot
  <2>2. \A h \in Hours : agg'[h] = <<>> BY <2>1, Empties
  <2>3. \A h \in Hours : Due(h)' \/ Counted(h)'
    BY <1>1, <2>1, <2>2 DEF Unbroken, Filled, Due, Queued, Counted
  <2> QED BY <1>1, <2>1, <2>2, <2>3 DEF Settling, Accounts, Complete, Building
<1>5. CASE BuildProgress
  <2>1. /\ term' = MaxKey(keys) /\ cachePc = "progress" /\ cachePc' = "check"
        /\ UNCHANGED <<agg, processed, keys>>
    BY <1>5 DEF BuildProgress
  <2>2. \A h : (Due(h)' <=> Due(h)) /\ (Counted(h)' <=> Counted(h))
    BY <1>1, <1>3, <2>1 DEF Due, Queued, Counted
  <2>3. Accounts' BY <2>1, <2>2 DEF Settling, Accounts, Building
  <2>4. Complete' BY <1>1, <1>3, <2>1 DEF Settling, Complete, Fresh, Building
  <2> QED BY <2>3, <2>4 DEF Settling
<1>6. CASE BuildCheck
  <2>1. CASE cachePc' = "snapshot"
    BY <1>6, <2>1 DEF BuildCheck, Settling, Accounts, Complete, Due, Queued, Fresh, Building
  <2>2. CASE cachePc' # "snapshot"
    <3>1. /\ cachePc = "check" /\ UNCHANGED <<agg, processed, term, keys, readLogs>>
          /\ (cachePc' = "done" /\ keys = {}) \/ cachePc' = "query"
      BY <1>6, <2>2 DEF BuildCheck
    <3>2. \A h : (Due(h)' <=> Due(h)) /\ (Counted(h)' <=> Counted(h))
      BY <1>1, <1>3, <3>1 DEF Due, Queued, Counted
    <3>3. Accounts' BY <3>1, <3>2 DEF Settling, Accounts, Building
    <3>4. Complete' BY <1>1, <1>3, <3>1 DEF Settling, Complete, Fresh, Building
    <3> QED BY <3>3, <3>4 DEF Settling
  <2> QED BY <2>1, <2>2
<1>7. CASE BuildQuery
  <2>1. /\ cachePc = "query" /\ cachePc' = "ingest" /\ readLogs' = files[readKey]
        /\ UNCHANGED <<agg, processed, term, keys, readKey>>
    BY <1>7 DEF BuildQuery, QueryByHour
  <2>2. \A h \in Hours : Due(h)' \/ Counted(h)'
    BY <1>1, <1>3, <2>1 DEF Settling, Accounts, Due, Queued, Counted
  <2>3. Accounts' BY <2>1, <2>2 DEF Settling, Accounts, Building
  <2>4. Complete' BY <1>1, <1>3, <2>1 DEF Settling, Complete, Fresh, Building
  <2> QED BY <2>3, <2>4 DEF Settling
<1>8. CASE BuildIngest
  <2>1. /\ cachePc = "ingest" /\ cachePc' = "mark" /\ UNCHANGED <<processed, term, keys, readKey>>
    BY <1>8 DEF BuildIngest
  <2>2. /\ agg'[readKey] = readLogs
        /\ \A h \in Hours : h # readKey => agg'[h] = agg[h]
    BY <1>8, IngestOnce
  <2>3. \A h \in Hours : Due(h)' \/ Counted(h)'
    BY <1>1, <1>3, <2>1, <2>2 DEF Settling, Accounts, Due, Queued, Counted
  <2>4. Accounts' BY <2>1, <2>2, <2>3 DEF Settling, Accounts, Building
  <2>5. Complete' BY <1>1, <1>3, <2>1 DEF Settling, Complete, Fresh, Building
  <2> QED BY <2>4, <2>5 DEF Settling
<1>9. CASE BuildMark
  <2>1. /\ cachePc = "mark" /\ cachePc' = "check" /\ processed' = processed \cup {readKey}
        /\ keys' = keys \ {readKey} /\ UNCHANGED <<agg, term>>
    BY <1>9 DEF BuildMark
  <2>2. \A h : (Due(h)' <=> Due(h)) /\ (Counted(h)' <=> Counted(h))
    BY <1>1, <1>3, <2>1 DEF Due, Queued, Counted
  <2>3. Accounts' BY <2>1, <2>2 DEF Settling, Accounts, Building
  <2>4. Complete' BY <1>1, <1>3, <2>1 DEF Settling, Complete, Fresh, Building
  <2> QED BY <2>3, <2>4 DEF Settling
<1>10. CASE BuildDone
  <2>1. cachePc = "done" /\ cachePc' \in {"updated", "idle"} /\ UNCHANGED <<agg, processed, term>>
    BY <1>10 DEF BuildDone
  <2>2. \A h : (Due(h)' <=> Due(h)) /\ (Counted(h)' <=> Counted(h))
    BY <1>1, <1>3, <2>1 DEF Due, Queued, Counted
  <2>3. Accounts' BY <2>1, <2>2 DEF Settling, Accounts, Building
  <2>4. Complete' BY <1>1, <1>3, <2>1 DEF Settling, Complete, Fresh, Building
  <2> QED BY <2>3, <2>4 DEF Settling
<1> QED BY <1>4, <1>5, <1>6, <1>7, <1>8, <1>9, <1>10

LEMMA SettlingUpdate ==
    ASSUME Types, Unbroken, Settling, Cache, UpdateQuery \/ UpdateIngest \/ UpdateMark \/ UpdateDone
    PROVE  Settling'
<1> USE DEF cacheData, chanVars
<1>1. /\ UNCHANGED <<files, affected, pc, todo>> /\ IndexedHours' = IndexedHours
      /\ chan' = chan /\ lagged' = lagged
  BY DEF Cache, storeVars, callVars, IndexedHours, UpdateQuery, UpdateIngest, UpdateMark, UpdateDone
<1>2. updating \subseteq Hours BY DEF Types, CacheTypes, CacheTypeOK
<1>3. (\A h : Mentions(h)' <=> Mentions(h)) /\ (Met(Len(chan)))' = Met(Len(chan))
  BY <1>1 DEF Mentions, Met
<1>4. CASE UpdateQuery
  <2> PICK h0 : h0 = Min(updating) OBVIOUS
  <2>1. h0 \in updating BY <1>2, <1>4, LeastKey DEF UpdateQuery
  <2>2. cachePc = "update" /\ UNCHANGED <<agg, processed, term, keys>> BY <1>4 DEF UpdateQuery
  <2>3. \/ files[h0] = <<>> /\ updating' = updating \ {h0} /\ cachePc' = "update"
        \/ cachePc' = "snapshot"
        \/ cachePc' = "add" /\ readKey' = h0 /\ readLogs' = files[h0] /\ h0 \notin processed
           /\ updating' = updating
    BY <1>4 DEF UpdateQuery, QueryByHour
  <2>4. CASE cachePc' = "snapshot"
    BY <2>2, <2>4 DEF Settling, Accounts, Complete, Due, Queued, Fresh, Building
  <2>5. CASE cachePc' # "snapshot"
    <3>1. \A h \in Hours : h # h0 => (Due(h) => Due(h)') /\ (Counted(h) => Counted(h)')
      BY <1>1, <1>3, <2>2, <2>3, <2>5 DEF Due, Queued, Counted
    <3>2. Due(h0)' \/ Counted(h0)'
      <4>1. CASE cachePc' = "add" BY <1>1, <2>3, <4>1 DEF Counted
      <4>2. CASE cachePc' # "add"
        <5>1. files[h0] = <<>> /\ h0 \in IndexedHours
          BY <2>1, <2>3, <2>5, <4>2 DEF Unbroken, Boundary, Named
        <5>2. h0 \in affected BY <5>1 DEF Unbroken, Filled, Replacing
        <5> QED BY <1>1, <5>2 DEF Due
      <4> QED BY <4>1, <4>2
    <3>3. \A h \in Hours : Due(h)' \/ Counted(h)' BY <3>1, <3>2 DEF Settling, Accounts
    <3>4. Accounts' BY <2>2, <2>3, <2>5, <3>3 DEF Settling, Accounts, Building
    <3>5. Complete' BY <1>1, <1>3, <2>2, <2>3, <2>5 DEF Settling, Complete, Fresh, Building
    <3> QED BY <3>4, <3>5 DEF Settling
  <2> QED BY <2>4, <2>5
<1>5. CASE UpdateIngest
  <2>1. /\ cachePc = "add" /\ cachePc' = "addMark" /\ UNCHANGED <<processed, term, keys, updating, readKey>>
    BY <1>5 DEF UpdateIngest
  <2>2. /\ agg'[readKey] = readLogs
        /\ \A h \in Hours : h # readKey => agg'[h] = agg[h]
    BY <1>5, IngestOnce
  <2>3. \A h \in Hours : Due(h)' \/ Counted(h)'
    BY <1>1, <1>3, <2>1, <2>2 DEF Settling, Accounts, Due, Queued, Counted
  <2>4. Accounts' BY <2>1, <2>2, <2>3 DEF Settling, Accounts, Building
  <2>5. Complete' BY <1>1, <1>3, <2>1 DEF Settling, Complete, Fresh, Building
  <2> QED BY <2>4, <2>5 DEF Settling
<1>6. CASE UpdateMark
  <2>1. /\ cachePc = "addMark" /\ cachePc' = "update" /\ processed' = processed \cup {readKey}
        /\ updating' = updating \ {readKey} /\ UNCHANGED <<agg, term, keys>>
    BY <1>6 DEF UpdateMark
  <2>2. \A h : (Due(h)' <=> Due(h)) /\ (Counted(h)' <=> Counted(h))
    BY <1>1, <1>3, <2>1 DEF Due, Queued, Counted
  <2>3. Accounts' BY <2>1, <2>2 DEF Settling, Accounts, Building
  <2>4. Complete' BY <1>1, <1>3, <2>1 DEF Settling, Complete, Fresh, Building
  <2> QED BY <2>3, <2>4 DEF Settling
<1>7. CASE UpdateDone
  <2>1. /\ cachePc = "updated" \/ (cachePc = "update" /\ updating = {})
        /\ cachePc' = "idle" /\ UNCHANGED <<agg, processed, term>>
    BY <1>7 DEF UpdateDone
  <2>2. \A h : (Due(h)' <=> Due(h)) /\ (Counted(h)' <=> Counted(h))
    BY <1>1, <1>3, <2>1 DEF Due, Queued, Counted
  <2>3. Accounts' BY <2>1, <2>2 DEF Settling, Accounts, Building
  <2>4. Complete' BY <1>1, <1>3, <2>1 DEF Settling, Complete, Fresh, Building
  <2> QED BY <2>3, <2>4 DEF Settling
<1> QED BY <1>4, <1>5, <1>6, <1>7

SInv == BInv /\ (clears = 0 => Settling)

LEMMA SettlingStep ==
    ASSUME SInv, [Next]_vars, clears' = 0
    PROVE  Settling'
<1>1. Types /\ XInv /\ Unbroken /\ Settling /\ Calm /\ FilesKept
  BY ClearsGrow, UnbrokenStep DEF SInv, BInv, Unbroken
<1>2. CASE Ingest \/ NewBatch BY <1>1, <1>2, SettlingPush
<1>3. CASE Cache
  BY <1>1, <1>3, SettlingTake, SettlingBuild, SettlingUpdate DEF Cache, CacheStep
<1>4. CASE Shows
  BY <1>1, <1>4
     DEF Shows, allVars, poolVars, IndexedHours, Settling, Accounts, Complete, Due, Mentions, Queued,
         Counted, Fresh, Met, Building
<1> QED BY <1>1, <1>2, <1>3, <1>4, CalmSteps

LEMMA ShowSettling == Spec => []SInv
<1>1. SInv /\ [Next]_vars => SInv'
  <2>1. BInv /\ [Next]_vars => BInv' BY TypesStep, IndexFirstStep, UnbrokenStep DEF BInv
  <2> QED BY <2>1, SettlingStep DEF SInv
<1>2. ShowInit => SInv
  BY TypesInit, IndexFirstInit, CalmInit, FilledInit, BoundaryInit, SettlingInit
     DEF BInv, SInv, Unbroken
<1> QED BY <1>1, <1>2, PTL DEF Spec

\* The cache answers every change, without sharing a lock with the pushes: once it has
\* handled what it was told, its totals are the pool's records, each once, its processed
\* hours those of the index and its termination key the last of them, whatever a build
\* read from files that pushes were writing.
THEOREM ShowCacheSettles == Spec => [](clears = 0 => CacheSettles)
<1>1. SInv => (clears = 0 => CacheSettles)
  <2> SUFFICES ASSUME SInv, clears = 0, CacheQuiet
               PROVE  agg = files /\ processed = IndexedHours /\ term = MaxKey(IndexedHours)
    BY DEF CacheSettles
  <2>1. /\ chan = <<>> /\ ~lagged /\ pc = "idle" /\ cachePc = "idle" BY DEF CacheQuiet, PoolQuiet
  <2>2. DOMAIN chan = {} /\ Len(chan) = 0 BY <2>1
  <2>3. Settling /\ Unbroken /\ agg \in [Hours -> Seq(Record)] /\ files \in [Hours -> Seq(Record)]
    BY DEF SInv, BInv, Types, CacheTypes, CacheTypeOK, FaultsTypeOK, TypeOK
  <2>4. affected = {} BY <2>1, <2>3 DEF Unbroken, Filled
  <2>5. \A h \in Hours : ~Due(h) BY <2>1, <2>2, <2>4 DEF Due, Mentions, Queued
  <2>6. \A h \in Hours : agg[h] = files[h] BY <2>1, <2>3, <2>5 DEF Settling, Accounts, Counted
  <2>7. ~Fresh BY <2>1, <2>2 DEF Fresh, Met
  <2>8. IndexedHours \subseteq processed /\ term = MaxKey(IndexedHours)
    BY <2>1, <2>3, <2>7 DEF Settling, Complete, Building
  <2>9. processed \subseteq IndexedHours BY <2>3 DEF Unbroken, Boundary, Named
  <2> QED BY <2>3, <2>6, <2>8, <2>9
<1> QED BY <1>1, ShowSettling, PTL

-----------------------------------------------------------------------------
(* The view, while the background loop alone refreshes it *)

\* No Refresh command so far, and no Rebuild, which ends in a refresh.
LoopOnly == cmdPc = "idle" /\ showPc["command"] = "idle"

\* The view has still to learn of hour h: a push or the cache is at it, or there is a signal.
Unseen(h) == Mentions(h) \/ h \in affected \/ cachePc # "idle" \/ signals > 0

\* The snapshot has hour h as the pool has it, and the hour is not taken for hot.
Right(h) == cold["loop"].logs[h] = files[h] /\ (h <= cold["loop"].term \/ files[h] = <<>>)

\* The view has hour h as the pool has it, or the refresh under way will.
Viewed(h) ==
    \/ showPc["loop"] = "idle" /\ view[h] = files[h]
    \/ showPc["loop"] = "snapshot"
    \/ showPc["loop"] = "keys" /\ Right(h)
    \/ showPc["loop"] = "read" /\ Right(h) /\ hot["loop"][h] = <<>>
    \/ showPc["loop"] = "store" /\ Right(h) /\ shared[h] = <<>>
    \/ showPc["loop"] = "build" /\ cold["loop"].logs[h] = files[h]

\* Hot records are kept while they are being read only.
Emptied == showPc["loop"] # "read" => hot["loop"] = NoFiles

Shown == LoopOnly /\ Emptied /\ \A h \in Hours : Unseen(h) \/ Viewed(h)

LEMMA ShownInit == ShowInit => Shown
<1> SUFFICES ASSUME ShowInit PROVE Shown
  OBVIOUS
<1>1. /\ cachePc = "snapshot" /\ cmdPc = "idle" /\ showPc = [t \in Refreshers |-> "idle"]
      /\ hot = [t \in Refreshers |-> NoFiles]
  BY DEF ShowInit, CacheInit
<1>2. "loop" \in Refreshers /\ "command" \in Refreshers BY DEF Refreshers
<1> QED BY <1>1, <1>2 DEF Shown, LoopOnly, Emptied, Unseen

\* A push changes no file without having the cache told of it, takes back nothing, and
\* tells of every hour that it adds to the index.
LEMMA PushKeeps ==
    ASSUME Types, FilesKept, Ingest \/ NewBatch, NEW h \in Hours
    PROVE  /\ Mentions(h) \/ h \in affected => Mentions(h)' \/ h \in affected'
           /\ files'[h] = files[h] \/ Mentions(h)' \/ h \in affected'
           /\ h \in IndexedHours' => h \in IndexedHours \/ Mentions(h)'
<1>1. chan \in Seq(Notification) BY DEF Types, FaultsTypeOK, TypeOK
<1>2. files'[h] = files[h] \/ h \in affected' BY DEF FilesKept
<1>3. CASE chanVars' = chanVars /\ affected \subseteq affected' /\ IndexedHours' = IndexedHours
  BY <1>2, <1>3 DEF chanVars, Mentions
<1>4. ASSUME NEW n \in Notification, Send(n), n.type = "meta"
      PROVE  Mentions(h)'
  BY <1>1, <1>4, Mentioned
<1>5. ASSUME NEW n \in Notification, Send(n), n.keys = affected
      PROVE  Mentions(h) \/ h \in affected => Mentions(h)'
  BY <1>1, <1>5, Mentioned
<1> QED BY <1>2, <1>3, <1>4, <1>5, Tells

\* Whatever the cache does, afterwards it is at work or has signalled.
LEMMA CacheSignals ==
    ASSUME Types, Cache
    PROVE  cachePc' # "idle" \/ signals' > 0
<1> USE DEF cacheData, chanVars
<1>1. CASE BuildDone \/ UpdateDone
  <2>1. signals \in 0 .. (SignalCap + 1) /\ Signal
    BY <1>1 DEF Types, CacheTypes, CacheTypeOK, BuildDone, UpdateDone
  <2>2. Min({signals + 1, SignalCap + 1}) \in {signals + 1, SignalCap + 1}
    <3>1. signals + 1 <= SignalCap + 1 \/ SignalCap + 1 <= signals + 1 BY <2>1, SignalAssumption
    <3>2. \E x \in {signals + 1, SignalCap + 1} : \A y \in {signals + 1, SignalCap + 1} : x <= y
      BY <2>1, <3>1, SignalAssumption
    <3> QED BY <3>2 DEF Min
  <2> QED BY <2>1, <2>2, SignalAssumption DEF Signal
<1>2. CASE RecvLagged \/ RecvMetadataChanged \/ RecvDataPushed
  BY <1>2 DEF RecvLagged, RecvMetadataChanged, RecvDataPushed
<1>3. CASE BuildSnapshot \/ BuildProgress \/ BuildCheck \/ BuildQuery \/ BuildIngest \/ BuildMark
  BY <1>3 DEF BuildSnapshot, BuildProgress, BuildCheck, BuildQuery, BuildIngest, BuildMark
<1>4. CASE UpdateQuery \/ UpdateIngest \/ UpdateMark
  BY <1>4 DEF UpdateQuery, UpdateIngest, UpdateMark
<1> QED BY <1>1, <1>2, <1>3, <1>4 DEF Cache, CacheStep

LEMMA RefreshesGrow == ASSUME refreshes' = 0, Types, [Next]_vars PROVE refreshes = 0
<1>1. refreshes \in Nat BY RefreshAssumption DEF Types, CommandTypes
<1>2. refreshes' = refreshes \/ refreshes' = refreshes + 1
  BY DEF Next, Ingest, NewBatch, Cache, Loop, Command, CommandRefresh, CommandRebuild, RebuildStorage,
         RebuildCache, CommandDone, vars, cmdVars
<1> QED BY <1>1, <1>2

LEMMA LoopOnlyStep ==
    ASSUME Types, Calm, LoopOnly, [Next]_vars, clears' = 0, refreshes' = 0
    PROVE  /\ LoopOnly'
           /\ \/ Ingest \/ NewBatch \/ Cache
              \/ (LoopRecv \/ RefreshStep("loop")) /\ UNCHANGED allVars
              \/ UNCHANGED vars
<1>1. refreshes \in Nat BY RefreshAssumption DEF Types, CommandTypes
<1>2. "loop" \in Refreshers /\ "command" \in Refreshers BY DEF Refreshers
<1>3. showPc \in [Refreshers -> {"idle", "snapshot", "keys", "read", "store", "build"}]
  BY DEF Types, RefreshTypes
<1>4. ~CommandRefresh BY <1>1 DEF CommandRefresh
<1>5. ~RefreshStep("command")
  BY DEF LoopOnly, RefreshStep, TakeSnapshot, QueryKeys, ReadHot, Store, BuildView, SendView
<1>6. ~CommandRebuild /\ ~RebuildStorage /\ ~RebuildCache /\ ~CommandDone
  BY DEF CommandRebuild, RebuildStorage, RebuildCache, CommandDone, LoopOnly, Calm,
         ClearActive, ClearActiveFails
<1>7. CASE Ingest \/ NewBatch \/ Cache \/ UNCHANGED vars
  BY <1>7 DEF Ingest, NewBatch, Cache, vars, showVars, cmdVars, LoopOnly
<1>8. CASE Loop
  <2>1. showPc'["command"] = showPc["command"]
    <3>1. \A pc1 : [showPc EXCEPT !["loop"] = pc1]["command"] = showPc["command"] BY <1>2, <1>3
    <3> QED
      BY <1>8, <3>1
         DEF Loop, LoopRecv, RefreshStep, TakeSnapshot, QueryKeys, ReadHot, Store, BuildView, SendView
  <2> QED BY <1>8, <2>1 DEF Loop, cmdVars, LoopOnly
<1> QED BY <1>4, <1>5, <1>6, <1>7, <1>8 DEF Next, Command

LEMMA LoopTypes ==
    ASSUME Types
    PROVE  /\ "loop" \in Refreshers
           /\ cold["loop"] \in [logs : Sums, term : Hours \cup {0}] /\ cold["loop"].term \in Nat
           /\ hot["loop"] \in [Hours -> Seq(Record)]
<1>1. "loop" \in Refreshers BY DEF Refreshers
<1>2. cold["loop"] \in [logs : Sums, term : Hours \cup {0}] BY <1>1 DEF Types, RefreshTypes
<1>3. cold["loop"].term \in Nat BY <1>2, HoursAssumption
<1>4. hot["loop"] \in Sums BY <1>1 DEF Types, RefreshTypes
<1> QED BY <1>1, <1>2, <1>3, <1>4 DEF Sums

LEMMA ShownLoop ==
    ASSUME Types, Unbroken, Settling, Shown, LoopRecv \/ RefreshStep("loop"), UNCHANGED allVars
    PROVE  Emptied' /\ \A h \in Hours : Unseen(h)' \/ Viewed(h)'
<1>1. /\ UNCHANGED <<files, meta, affected, chan, lagged>> /\ cachePc' = cachePc
  BY DEF allVars, poolVars, LoopRecv, RefreshStep, TakeSnapshot, QueryKeys, ReadHot, Store, BuildView,
         SendView, cacheVars
<1>2. "loop" \in Refreshers BY DEF Refreshers
<1>3. /\ files \in [Hours -> Seq(Record)] /\ agg \in [Hours -> Seq(Record)] /\ term \in Nat
      /\ showPc \in [Refreshers -> {"idle", "snapshot", "keys", "read", "store", "build"}]
      /\ \A h \in Hours : NoFiles[h] = <<>>
  <2>1. files \in [Hours -> Seq(Record)] BY DEF Types, FaultsTypeOK, TypeOK
  <2>2. agg \in [Hours -> Seq(Record)] BY DEF Types, CacheTypes, CacheTypeOK
  <2>3. term \in Nat BY HoursAssumption DEF Types, CacheTypes, CacheTypeOK
  <2>4. showPc \in [Refreshers -> {"idle", "snapshot", "keys", "read", "store", "build"}]
    BY DEF Types, RefreshTypes
  <2> QED BY <2>1, <2>2, <2>3, <2>4, Empties
<1> USE DEF Types, RefreshTypes
<1>4. \A h : Mentions(h)' <=> Mentions(h) BY <1>1 DEF Mentions
<1>5. ASSUME signals' = signals PROVE \A h : Unseen(h)' <=> Unseen(h)
  BY <1>1, <1>4, <1>5 DEF Unseen
<1>6. CASE LoopRecv
  <2>1. showPc["loop"] = "idle" /\ showPc'["loop"] = "snapshot" /\ hot' = hot BY <1>2, <1>3, <1>6 DEF LoopRecv
  <2> QED BY <2>1 DEF Emptied, Viewed, Shown
<1>7. CASE TakeSnapshot("loop")
  <2>1. /\ showPc["loop"] = "snapshot" /\ showPc'["loop"] = "keys" /\ hot' = hot /\ signals' = signals
        /\ cold'["loop"] = [logs |-> agg, term |-> term]
    BY <1>2, <1>3, <1>7 DEF TakeSnapshot, cacheVars
  <2>2. ASSUME NEW h \in Hours, ~Unseen(h) PROVE Viewed(h)'
    <3>1. ~Due(h) /\ cachePc = "idle" BY <2>2 DEF Unseen, Due, Queued
    <3>2. agg[h] = files[h] BY <3>1 DEF Settling, Accounts, Counted
    <3>3. agg[h] # <<>> => h <= term BY DEF Unbroken, Boundary, Below
    <3> QED BY <1>1, <2>1, <3>2, <3>3 DEF Viewed, Right
  <2> QED BY <1>5, <2>1, <2>2 DEF Emptied, Shown
<1>8. CASE QueryKeys("loop")
  <2>1. /\ showPc["loop"] = "keys" /\ showPc'["loop"] = "read" /\ signals' = signals
        /\ hot' = hot /\ cold' = cold /\ hot["loop"] = NoFiles
    BY <1>2, <1>3, <1>8 DEF QueryKeys, cacheVars, Shown, Emptied
  <2>2. \A h \in Hours : Viewed(h) => Viewed(h)' BY <1>1, <1>3, <2>1 DEF Viewed, Right
  <2> QED BY <1>5, <2>1, <2>2 DEF Emptied, Shown
<1>9. CASE ReadHot("loop")
  <2> PICK k : k = Min(hotKeys["loop"]) OBVIOUS
  <2>1. /\ showPc["loop"] = "read" /\ showPc' = showPc /\ signals' = signals /\ cold' = cold
        /\ hot' = IF k > cold["loop"].term THEN [hot EXCEPT !["loop"][k] = files[k]] ELSE hot
    BY <1>9 DEF ReadHot, cacheVars
  <2>2. k \in Hours
    <3>1. hotKeys["loop"] \subseteq Hours /\ hotKeys["loop"] # {} BY <1>2, <1>9 DEF ReadHot
    <3> QED BY <3>1, LeastKey
  <2>3. cold["loop"].term \in Nat /\ hot["loop"] \in [Hours -> Seq(Record)] BY LoopTypes
  <2>4. \A h \in Hours : hot'["loop"][h] = hot["loop"][h]
                        \/ (h = k /\ k > cold["loop"].term /\ hot'["loop"][h] = files[h])
    BY <1>2, <2>1, <2>2, <2>3
  <2>5. ASSUME NEW h \in Hours, Viewed(h) PROVE Viewed(h)'
    <3>1. Right(h) /\ hot["loop"][h] = <<>> BY <2>1, <2>5 DEF Viewed
    <3>2. Right(h)' BY <1>1, <2>1, <3>1 DEF Right
    <3>3. hot'["loop"][h] = <<>>
      <4>1. CASE h > cold["loop"].term
        <5>1. ~(h <= cold["loop"].term) BY <2>3, <4>1, HoursAssumption
        <5> QED BY <2>4, <3>1, <5>1 DEF Right
      <4>2. CASE ~(h > cold["loop"].term) BY <2>4, <3>1, <4>2
      <4> QED BY <4>1, <4>2
    <3> QED BY <2>1, <3>2, <3>3 DEF Viewed
  <2> QED BY <1>5, <2>1, <2>5 DEF Emptied, Shown
<1>10. CASE Store("loop")
  <2>1. /\ showPc["loop"] = "read" /\ showPc'["loop"] = "store" /\ signals' = signals /\ cold' = cold
        /\ shared' = hot["loop"] /\ hot'["loop"] = NoFiles
    BY <1>2, <1>3, <1>10 DEF Store, cacheVars
  <2>2. \A h \in Hours : Viewed(h) => Viewed(h)' BY <1>1, <2>1 DEF Viewed, Right
  <2> QED BY <1>5, <2>1, <2>2 DEF Emptied, Shown
<1>11. CASE BuildView("loop")
  <2>1. /\ showPc["loop"] = "store" /\ showPc'["loop"] = "build" /\ signals' = signals /\ hot' = hot
    BY <1>2, <1>3, <1>11 DEF BuildView, cacheVars
  <2>2. cold["loop"] \in [logs : Sums, term : Hours \cup {0}] BY <1>2
  <2>3. cold' = [cold EXCEPT !["loop"].logs = [h \in Hours |-> @[h] \o shared[h]]] BY <1>11 DEF BuildView
  <2>4. \A h \in Hours : cold'["loop"].logs[h] = cold["loop"].logs[h] \o shared[h] BY <1>2, <2>2, <2>3
  <2>5. ASSUME NEW h \in Hours, Viewed(h) PROVE Viewed(h)'
    <3>1. cold["loop"].logs[h] = files[h] /\ shared[h] = <<>> BY <2>1, <2>5 DEF Viewed, Right
    <3>2. \A f \in Seq(Record) : f \o <<>> = f OBVIOUS
    <3>3. cold'["loop"].logs[h] = files'[h] BY <1>1, <1>3, <2>4, <3>1, <3>2
    <3> QED BY <2>1, <3>3 DEF Viewed
  <2> QED BY <1>5, <2>1, <2>5 DEF Emptied, Shown
<1>12. CASE SendView("loop")
  <2>1. /\ showPc["loop"] = "build" /\ showPc'["loop"] = "idle" /\ signals' = signals
        /\ view' = cold["loop"].logs /\ hot' = hot
    BY <1>2, <1>3, <1>12 DEF SendView, cacheVars
  <2>2. \A h \in Hours : Viewed(h) => Viewed(h)' BY <1>1, <2>1 DEF Viewed
  <2> QED BY <1>5, <2>1, <2>2 DEF Emptied, Shown
<1> QED BY <1>6, <1>7, <1>8, <1>9, <1>10, <1>11, <1>12 DEF RefreshStep

VInv == SInv /\ (clears = 0 /\ refreshes = 0 => Shown)

LEMMA ShownStep ==
    ASSUME VInv, [Next]_vars, clears' = 0, refreshes' = 0
    PROVE  Shown'
<1>1. Types /\ XInv /\ Unbroken /\ Settling /\ Calm /\ FilesKept /\ clears = 0
  BY ClearsGrow, UnbrokenStep, SettlingStep DEF VInv, SInv, BInv, Unbroken
<1>2. refreshes = 0 /\ Shown BY <1>1, RefreshesGrow DEF VInv
<1>3. /\ LoopOnly'
      /\ \/ Ingest \/ NewBatch \/ Cache
         \/ (LoopRecv \/ RefreshStep("loop")) /\ UNCHANGED allVars
         \/ UNCHANGED vars
  BY <1>1, <1>2, LoopOnlyStep DEF Shown
<1>4. CASE Ingest \/ NewBatch
  <2>1. cacheVars' = cacheVars /\ showVars' = showVars BY <1>4 DEF Ingest, NewBatch
  <2>2. ASSUME NEW h \in Hours PROVE Unseen(h)' \/ Viewed(h)'
    <3>1. /\ Mentions(h) \/ h \in affected => Mentions(h)' \/ h \in affected'
          /\ files'[h] = files[h] \/ Mentions(h)' \/ h \in affected'
      BY <1>1, <1>4, PushKeeps
    <3>2. Unseen(h)' \/ (~Unseen(h) /\ files'[h] = files[h])
      BY <2>1, <3>1 DEF cacheVars, Unseen
    <3>3. ~Unseen(h) => Viewed(h) BY <1>2 DEF Shown
    <3> QED BY <2>1, <3>2, <3>3 DEF showVars, Viewed, Right
  <2>3. Emptied' BY <1>2, <2>1 DEF showVars, Shown, Emptied
  <2> QED BY <1>3, <2>2, <2>3 DEF Shown
<1>5. CASE Cache
  <2>1. \A h : Unseen(h)' BY <1>1, <1>5, CacheSignals DEF Unseen
  <2>2. Emptied' BY <1>2, <1>5 DEF Cache, showVars, Shown, Emptied
  <2> QED BY <1>3, <2>1, <2>2 DEF Shown
<1>6. CASE (LoopRecv \/ RefreshStep("loop")) /\ UNCHANGED allVars
  BY <1>1, <1>2, <1>3, <1>6, ShownLoop DEF Shown
<1>7. CASE UNCHANGED vars
  <2>1. \A h \in Hours : (Unseen(h)' <=> Unseen(h)) /\ (Viewed(h)' <=> Viewed(h))
    BY <1>7 DEF vars, allVars, poolVars, cacheVars, showVars, Unseen, Mentions, Viewed, Right
  <2> QED BY <1>2, <1>3, <1>7, <2>1 DEF vars, showVars, Shown, Emptied
<1> QED BY <1>3, <1>4, <1>5, <1>6, <1>7

LEMMA ShowShown == Spec => []VInv
<1>1. VInv /\ [Next]_vars => VInv'
  <2>1. SInv /\ [Next]_vars => SInv'
    BY TypesStep, IndexFirstStep, UnbrokenStep, SettlingStep DEF SInv, BInv
  <2> QED BY <2>1, ShownStep DEF VInv
<1>2. ShowInit => VInv
  BY TypesInit, IndexFirstInit, CalmInit, FilledInit, BoundaryInit, SettlingInit, ShownInit
     DEF BInv, SInv, VInv, Unbroken
<1> QED BY <1>1, <1>2, PTL DEF Spec

\* When everything has come to rest the view is the pool: no push is missed between the
\* snapshot of the cache and the look at the active hours, and no hour is taken from both.
THEOREM ShowViewSettles == Spec => [](clears = 0 /\ refreshes = 0 => ViewSettles)
<1>1. VInv => (clears = 0 /\ refreshes = 0 => ViewSettles)
  <2> SUFFICES ASSUME VInv, clears = 0, refreshes = 0, Quiet
               PROVE  view = files
    BY DEF ViewSettles
  <2>1. /\ chan = <<>> /\ ~lagged /\ pc = "idle" /\ cachePc = "idle" /\ signals = 0
        /\ showPc["loop"] = "idle"
    BY DEF Quiet, CacheQuiet, PoolQuiet
  <2>2. DOMAIN chan = {} BY <2>1
  <2>3. Shown /\ Unbroken /\ view \in [Hours -> Seq(Record)] /\ files \in [Hours -> Seq(Record)]
    BY DEF VInv, SInv, BInv, Types, RefreshTypes, Sums, FaultsTypeOK, TypeOK
  <2>4. affected = {} BY <2>1, <2>3 DEF Unbroken, Filled
  <2>5. \A h \in Hours : ~Unseen(h) BY <2>1, <2>2, <2>4 DEF Unseen, Mentions
  <2>6. \A h \in Hours : view[h] = files[h] BY <2>1, <2>3, <2>5 DEF Shown, Viewed
  <2> QED BY <2>3, <2>6
<1> QED BY <1>1, ShowShown, PTL

-----------------------------------------------------------------------------
(* Each record once *)

\* No uid occurs twice in anything the view is put together from.
Once ==
    /\ OnePerUid(readLogs)
    /\ \A h \in Hours : /\ OnePerUid(agg[h]) /\ OnePerUid(shared[h]) /\ OnePerUid(view[h])
                       /\ OnePerUid(cold["loop"].logs[h]) /\ OnePerUid(hot["loop"][h])

\* What is taken from the cache and what is taken from the active files do not overlap.
Apart ==
    \A h \in Hours :
        /\ showPc["loop"] \in {"keys", "read", "store"} /\ cold["loop"].logs[h] # <<>> =>
               h <= cold["loop"].term
        /\ showPc["loop"] = "read" /\ hot["loop"][h] # <<>> => ~(h <= cold["loop"].term)
        /\ showPc["loop"] = "store" /\ shared[h] # <<>> => ~(h <= cold["loop"].term)

LEMMA OnceInit == ShowInit => Once /\ Apart
<1> SUFFICES ASSUME ShowInit PROVE Once /\ Apart
  OBVIOUS
<1>1. "loop" \in Refreshers BY DEF Refreshers
<1>2. /\ agg = NoFiles /\ readLogs = <<>> /\ shared = NoFiles /\ view = NoFiles
      /\ showPc["loop"] = "idle" /\ cold["loop"].logs = NoFiles /\ hot["loop"] = NoFiles
  BY <1>1 DEF ShowInit, CacheInit, NoCold
<1> QED BY <1>2, Empties DEF Once, Apart

LEMMA OnceCache ==
    ASSUME Types, Unbroken, Settling, Once, Apart, Cache, \A h \in Hours : OnePerUid(files[h])
    PROVE  Once' /\ Apart'
<1> USE DEF cacheData, chanVars
<1>1. showVars' = showVars BY DEF Cache
<1>2. Apart' BY <1>1 DEF showVars, Apart
<1>3. ASSUME \A h \in Hours : OnePerUid(agg'[h]), OnePerUid(readLogs') PROVE Once'
  BY <1>1, <1>3 DEF showVars, Once
<1>4. CASE BuildIngest \/ UpdateIngest
  <2>1. /\ agg'[readKey] = readLogs
        /\ \A h \in Hours : h # readKey => agg'[h] = agg[h]
    BY <1>4, IngestOnce
  <2>2. readLogs' = readLogs BY <1>4 DEF BuildIngest, UpdateIngest
  <2> QED BY <1>2, <1>3, <2>1, <2>2 DEF Once
<1>5. CASE BuildSnapshot
  <2>1. agg' = NoFiles /\ readLogs' = readLogs BY <1>5 DEF BuildSnapshot
  <2> QED BY <1>2, <1>3, <2>1, Empties DEF Once
<1>6. CASE BuildQuery
  <2>1. readKey \in Hours BY <1>6 DEF BuildQuery, Types, CacheTypes, AtHour
  <2>2. agg' = agg /\ readLogs' = files[readKey] BY <1>6 DEF BuildQuery, QueryByHour
  <2> QED BY <1>2, <1>3, <2>1, <2>2 DEF Once
<1>7. CASE UpdateQuery
  <2>1. updating \subseteq Hours /\ updating # {}
    BY <1>7 DEF UpdateQuery, Types, CacheTypes, CacheTypeOK
  <2>2. Min(updating) \in Hours BY <2>1, LeastKey
  <2>3. agg' = agg /\ readLogs' \in {readLogs, files[Min(updating)]} BY <1>7 DEF UpdateQuery, QueryByHour
  <2> QED BY <1>2, <1>3, <2>2, <2>3 DEF Once
<1>8. CASE BuildMark \/ UpdateMark
  <2>1. agg' = agg /\ readLogs' = <<>> BY <1>8 DEF BuildMark, UpdateMark
  <2> QED BY <1>2, <1>3, <2>1, Empties DEF Once
<1>9. CASE \/ RecvLagged \/ RecvMetadataChanged \/ RecvDataPushed
           \/ BuildProgress \/ BuildCheck \/ BuildDone \/ UpdateDone
  <2>1. agg' = agg /\ readLogs' = readLogs
    BY <1>9 DEF RecvLagged, RecvMetadataChanged, RecvDataPushed, BuildProgress, BuildCheck, BuildDone,
               UpdateDone
  <2> QED BY <1>2, <1>3, <2>1 DEF Once
<1> QED BY <1>4, <1>5, <1>6, <1>7, <1>8, <1>9 DEF Cache, CacheStep

LEMMA OnceLoop ==
    ASSUME Types, Unbroken, Shown, Once, Apart, LoopRecv \/ RefreshStep("loop"),
           \A h \in Hours : OnePerUid(files[h])
    PROVE  Once' /\ Apart'
<1>1. UNCHANGED <<agg, readLogs>>
  BY DEF LoopRecv, RefreshStep, TakeSnapshot, QueryKeys, ReadHot, Store, BuildView, SendView, cacheVars
<1>2. "loop" \in Refreshers BY DEF Refreshers
<1> USE DEF Types, RefreshTypes
<1>3. /\ showPc \in [Refreshers -> {"idle", "snapshot", "keys", "read", "store", "build"}]
      /\ term \in Nat /\ \A h \in Hours : NoFiles[h] = <<>>
      /\ cold["loop"] \in [logs : Sums, term : Hours \cup {0}] /\ cold["loop"].term \in Nat
      /\ hot["loop"] \in [Hours -> Seq(Record)]
  BY HoursAssumption, Empties, LoopTypes DEF CacheTypes, CacheTypeOK
<1>4. CASE LoopRecv
  <2>1. showPc'["loop"] = "snapshot" /\ UNCHANGED <<cold, hot, shared, view>> BY <1>2, <1>3, <1>4 DEF LoopRecv
  <2> QED BY <1>1, <2>1 DEF Once, Apart
<1>5. CASE TakeSnapshot("loop")
  <2>1. /\ showPc'["loop"] = "keys" /\ UNCHANGED <<hot, shared, view>>
        /\ cold'["loop"] = [logs |-> agg, term |-> term]
    BY <1>2, <1>3, <1>5 DEF TakeSnapshot
  <2>2. \A h \in Hours : agg[h] # <<>> => h <= term BY DEF Unbroken, Boundary, Below
  <2> QED BY <1>1, <2>1, <2>2 DEF Once, Apart
<1>6. CASE QueryKeys("loop")
  <2>1. /\ showPc["loop"] = "keys" /\ showPc'["loop"] = "read" /\ UNCHANGED <<cold, hot, shared, view>>
        /\ hot["loop"] = NoFiles
    BY <1>2, <1>3, <1>6 DEF QueryKeys, Shown, Emptied
  <2> QED BY <1>1, <1>3, <2>1 DEF Once, Apart
<1>7. CASE ReadHot("loop")
  <2> PICK k : k = Min(hotKeys["loop"]) OBVIOUS
  <2>1. /\ showPc["loop"] = "read" /\ UNCHANGED <<showPc, cold, shared, view>>
        /\ hot' = IF k > cold["loop"].term THEN [hot EXCEPT !["loop"][k] = files[k]] ELSE hot
    BY <1>7 DEF ReadHot
  <2>2. k \in Hours
    <3>1. hotKeys["loop"] \subseteq Hours /\ hotKeys["loop"] # {} BY <1>2, <1>7 DEF ReadHot
    <3> QED BY <3>1, LeastKey
  <2>3. \A h \in Hours : hot'["loop"][h] = hot["loop"][h]
                        \/ (h = k /\ k > cold["loop"].term /\ hot'["loop"][h] = files[h])
    BY <1>2, <1>3, <2>1, <2>2
  <2>4. k > cold["loop"].term => ~(k <= cold["loop"].term) BY <1>3, <2>2, HoursAssumption
  <2>5. \A h \in Hours : OnePerUid(hot'["loop"][h]) /\ (hot'["loop"][h] # <<>> => ~(h <= cold["loop"].term))
    BY <2>1, <2>3, <2>4 DEF Once, Apart
  <2> QED BY <1>1, <2>1, <2>5 DEF Once, Apart
<1>8. CASE Store("loop")
  <2>1. /\ showPc["loop"] = "read" /\ showPc'["loop"] = "store" /\ UNCHANGED <<cold, view>>
        /\ shared' = hot["loop"] /\ hot'["loop"] = NoFiles
    BY <1>2, <1>3, <1>8 DEF Store
  <2> QED BY <1>1, <1>3, <2>1, Empties DEF Once, Apart
<1>9. CASE BuildView("loop")
  <2>1. /\ showPc["loop"] = "store" /\ showPc'["loop"] = "build" /\ UNCHANGED <<hot, shared, view>>
    BY <1>2, <1>3, <1>9 DEF BuildView
  <2>2. cold' = [cold EXCEPT !["loop"].logs = [h \in Hours |-> @[h] \o shared[h]]] BY <1>9 DEF BuildView
  <2>3. \A h \in Hours : cold'["loop"].logs[h] = cold["loop"].logs[h] \o shared[h] BY <1>2, <1>3, <2>2
  <2>4. ASSUME NEW h \in Hours PROVE OnePerUid(cold'["loop"].logs[h])
    <3>1. cold["loop"].logs[h] \in Seq(Record) /\ shared[h] \in Seq(Record) BY <1>3 DEF Sums
    <3>2. \A f \in Seq(Record) : f \o <<>> = f /\ <<>> \o f = f OBVIOUS
    <3>3. cold["loop"].logs[h] = <<>> \/ shared[h] = <<>> BY <2>1 DEF Apart
    <3>4. cold'["loop"].logs[h] \in {cold["loop"].logs[h], shared[h]} BY <2>3, <3>1, <3>2, <3>3
    <3> QED BY <3>4 DEF Once
  <2> QED BY <1>1, <2>1, <2>4 DEF Once, Apart
<1>10. CASE SendView("loop")
  <2>1. /\ showPc'["loop"] = "idle" /\ UNCHANGED <<hot, shared>> /\ view' = cold["loop"].logs
        /\ cold'["loop"] = NoCold
    BY <1>2, <1>3, <1>10 DEF SendView
  <2>2. cold'["loop"].logs = NoFiles BY <2>1 DEF NoCold
  <2> QED BY <1>1, <2>1, <2>2, Empties DEF Once, Apart
<1> QED BY <1>4, <1>5, <1>6, <1>7, <1>8, <1>9, <1>10 DEF RefreshStep

OInv == VInv /\ RInv /\ DInv /\ (clears = 0 /\ refreshes = 0 => Once /\ Apart)

\* RInv and DInv of the pool with faults (DataPoolFaultsProofs) hold here too.
LEMMA DistinctStep ==
    ASSUME DistinctBatches, Types, RInv, DInv, [Next]_vars
    PROVE  RInv' /\ DInv'
<1>1. CASE [FaultsNext]_allVars BY <1>1, StepRegistered, StepDistinct DEF Types
<1>2. CASE Receives
  <2>1. UNCHANGED <<storeVars, callVars, faultVars>> BY <1>2 DEF Receives
  <2> QED BY <2>1 DEF storeVars, callVars, faultVars, RInv, DInv, Undisturbed, Registered, Known, Replacing,
                      Current, CurHour, Distinct
<1> QED BY <1>1, <1>2, PoolPart

LEMMA OnceStep ==
    ASSUME OInv, [Next]_vars, clears' = 0, refreshes' = 0
    PROVE  Once' /\ Apart'
<1>1. Types /\ Unbroken /\ Settling /\ Shown /\ Once /\ Apart /\ Calm
  <2>1. clears = 0 BY ClearsGrow DEF OInv, VInv, SInv, BInv
  <2>2. refreshes = 0 BY RefreshesGrow DEF OInv, VInv, SInv, BInv
  <2> QED BY <2>1, <2>2 DEF OInv, VInv, SInv, BInv, Unbroken
<1>2. \A h \in Hours : OnePerUid(files[h])
  BY <1>1 DEF OInv, DInv, Undisturbed, Calm, Distinct
<1>3. \/ Ingest \/ NewBatch \/ Cache
      \/ (LoopRecv \/ RefreshStep("loop")) /\ UNCHANGED allVars
      \/ UNCHANGED vars
  BY <1>1, LoopOnlyStep DEF Shown
<1>4. CASE Cache BY <1>1, <1>2, <1>4, OnceCache
<1>5. CASE LoopRecv \/ RefreshStep("loop") BY <1>1, <1>2, <1>5, OnceLoop
<1>6. CASE Ingest \/ NewBatch \/ UNCHANGED vars
  <2>1. cacheVars' = cacheVars /\ showVars' = showVars BY <1>6 DEF Ingest, NewBatch, vars
  <2> QED BY <1>1, <2>1 DEF cacheVars, showVars, Once, Apart
<1> QED BY <1>3, <1>4, <1>5, <1>6

\* No view shows a record twice, at no time: the cache adds an hour once, and what a
\* refresh takes from the cache ends where what it takes from the active files begins,
\* however many pushes and builds go on between its steps.
THEOREM ShowNoDoubleCount ==
    ASSUME DistinctBatches PROVE Spec => [](clears = 0 /\ refreshes = 0 => NoDoubleCount)
<1>1. OInv /\ [Next]_vars => OInv'
  <2>1. VInv /\ [Next]_vars => VInv'
    BY TypesStep, IndexFirstStep, UnbrokenStep, SettlingStep, ShownStep DEF VInv, SInv, BInv
  <2>2. OInv /\ [Next]_vars => RInv' /\ DInv' BY DistinctStep DEF OInv, VInv, SInv, BInv
  <2> QED BY <2>1, <2>2, OnceStep DEF OInv
<1>2. ShowInit => OInv
  <2>1. ShowInit => RInv
    BY Empties DEF ShowInit, FaultsInit, Init, RInv, Registered, Replacing, Known
  <2>2. ShowInit => DInv BY Empties DEF ShowInit, FaultsInit, Init, DInv, Distinct
  <2> QED
    BY <2>1, <2>2, TypesInit, IndexFirstInit, CalmInit, FilledInit, BoundaryInit, SettlingInit, ShownInit,
       OnceInit
       DEF BInv, SInv, VInv, OInv, Unbroken
<1>3. OInv => (clears = 0 /\ refreshes = 0 => NoDoubleCount)
  BY DEF OInv, Once, NoDoubleCount
<1> QED BY <1>1, <1>2, <1>3, PTL DEF Spec

-----------------------------------------------------------------------------
(* Nothing missing, across Rebuilds that may fail *)

Within(f, g) == Range(f) \subseteq Range(g)

LEMMA WithinIs ==
    /\ \A f : Within(f, f)
    /\ \A g : Within(<<>>, g)
    /\ \A f, g, k \in Seq(Record) : Within(f, g) \/ Within(f, k) => Within(f, g \o k)
<1>1. \A f : Within(f, f) BY DEF Within
<1>2. Range(<<>>) = {} BY DEF Range
<1>3. ASSUME NEW f \in Seq(Record), NEW g \in Seq(Record), NEW k \in Seq(Record),
             Within(f, g) \/ Within(f, k)
      PROVE  Within(f, g \o k)
  <2>1. \A i \in DOMAIN g : i \in DOMAIN (g \o k) /\ (g \o k)[i] = g[i] OBVIOUS
  <2>2. \A i \in DOMAIN k : Len(g) + i \in DOMAIN (g \o k) /\ (g \o k)[Len(g) + i] = k[i] OBVIOUS
  <2>3. Range(g) \subseteq Range(g \o k) BY <2>1 DEF Range
  <2>4. Range(k) \subseteq Range(g \o k) BY <2>2 DEF Range
  <2> QED BY <1>3, <2>3, <2>4 DEF Within
<1> QED BY <1>1, <1>2, <1>3 DEF Within

\* A push announces the hours of its records, and is done when it is idle.
Told ==
    /\ \A h \in Hours : byHour[h] # <<>> => h \in affected
    /\ Replacing => CurHour \in affected
    /\ pc = "idle" => affected = {}

LEMMA ToldPush ==
    ASSUME TypeOK, Told, PoolNext
    PROVE  Told' /\ FilesKept
<1> USE DEF storeVars, callVars
<1>1. files \in [Hours -> Seq(Record)] /\ byHour \in [Hours -> Seq(Record)] /\ affected \subseteq Hours
  BY DEF TypeOK
<1>2. todo # <<>> => CurHour \in Hours BY CurrentType
<1>3. Replacing => todo # <<>> BY DEF TypeOK, Replacing
<1>4. CASE \E b \in Batches : PushBegin(b) BY <1>4 DEF PushBegin, Told, FilesKept, Replacing
<1>5. CASE ApplyPush
  <2>1. CurHour \in Hours BY <1>2, <1>5 DEF ApplyPush
  <2>2. /\ affected' = affected \cup {CurHour} /\ pc' = "apply" /\ files' = files
        /\ \A h \in Hours : h # CurHour => byHour'[h] = byHour[h]
    BY <1>1, <1>5 DEF ApplyPush
  <2> QED BY <1>1, <2>1, <2>2 DEF Told, FilesKept, Replacing
<1>6. CASE ApplyReplace
  <2>1. /\ affected' = affected \cup {CurHour} /\ pc' = "read" /\ CurHour' = CurHour
        /\ UNCHANGED <<files, byHour>>
    BY <1>6 DEF ApplyReplace, CurHour
  <2> QED BY <2>1 DEF Told, FilesKept
<1>7. CASE ApplySkip \/ SaveMeta \/ SaveRegistry \/ Register
  <2>1. UNCHANGED <<files, byHour, affected>> /\ pc' \in {"apply", "saveRegistry", "notify"}
    BY <1>7 DEF ApplySkip, SaveMeta, SaveRegistry, Register
  <2> QED BY <2>1 DEF Told, FilesKept, Replacing
<1>8. CASE ReplaceRead \/ ReplaceCreate \/ ReplaceRewrite \/ ReplaceAppend
  <2>1. Replacing /\ CurHour \in Hours /\ CurHour' = CurHour
    BY <1>2, <1>3, <1>8 DEF ReplaceRead, ReplaceCreate, ReplaceRewrite, ReplaceAppend, Replacing, CurHour
  <2>2. /\ UNCHANGED <<byHour, affected>> /\ pc' # "idle"
        /\ \A h \in Hours : h # CurHour => files'[h] = files[h]
    BY <1>1, <1>8 DEF ReplaceRead, ReplaceCreate, ReplaceRewrite, ReplaceAppend
  <2> QED BY <2>1, <2>2 DEF Told, FilesKept
<1>9. ASSUME NEW k \in Hours, WriteLogs(k) PROVE Told' /\ FilesKept
  <2>1. /\ byHour[k] # <<>> /\ pc' = "index" /\ affected' = affected
        /\ byHour' = [byHour EXCEPT ![k] = <<>>]
        /\ \A h \in Hours : h # k => files'[h] = files[h]
    BY <1>1, <1>9 DEF WriteLogs
  <2>2. \A h \in Hours : byHour'[h] # <<>> => byHour[h] # <<>> BY <1>1, <2>1
  <2> QED BY <2>1, <2>2 DEF Told, FilesKept, Replacing
<1>10. CASE EnsureIndex BY <1>10 DEF EnsureIndex, Told, FilesKept, Replacing
<1>11. CASE Notify
  <2>1. affected' = {} /\ byHour' = NoFiles /\ pc' = "idle" /\ files' = files BY <1>11 DEF Notify, Return
  <2> QED BY <2>1, Empties DEF Told, FilesKept, Replacing
<1> QED BY <1>4, <1>5, <1>6, <1>7, <1>8, <1>9, <1>10, <1>11 DEF PoolNext, PushStep

\* A step of a Rebuild in the pool: files and index lose, the calls under way and the
\* notifications stay as they are.
Wipes == CommandRebuild \/ RebuildStorage

LEMMA WipesTake ==
    ASSUME Types, Wipes
    PROVE  /\ UNCHANGED <<callVars, chanVars, cacheVars, showVars>> /\ cmdPc' = "storage"
           /\ \A h \in Hours : files'[h] \in {files[h], <<>>}
           /\ meta' \in {meta, EmptyMeta} /\ IndexedHours' \subseteq IndexedHours
           /\ errors' = errors \/ errors' > 0
<1> USE DEF callVars, chanVars, cacheVars, showVars, cmdVars, poolVars, faultVars
<1>1. files \in [Hours -> Seq(Record)] /\ errors \in Nat
  BY FaultBoundsAssumption DEF Types, FaultsTypeOK, TypeOK
<1>2. EmptyMeta.tier = [h \in Hours |-> "none"] BY DEF EmptyMeta
<1>3. meta' \in {meta, EmptyMeta} => IndexedHours' \subseteq IndexedHours BY <1>2 DEF IndexedHours
<1>4. CASE ClearActive
  <2>1. CommandRebuild BY <1>4 DEF Wipes, CommandRebuild, RebuildStorage, ClearActive, ClearArchive,
                                   ClearMeta, ClearRegistry, ClearFails
  <2> QED BY <1>3, <1>4, <2>1, Empties DEF CommandRebuild, ClearActive
<1>5. CASE ClearActiveFails
  <2>1. CommandRebuild BY <1>1, <1>5 DEF Wipes, CommandRebuild, RebuildStorage, ClearActiveFails,
                                   ClearArchive, ClearMeta, ClearRegistry, ClearFails
  <2> QED BY <1>1, <1>3, <1>5, <2>1 DEF CommandRebuild, ClearActiveFails
<1>6. CASE RebuildStorage
  <2>1. /\ UNCHANGED <<callVars, chanVars, files>> /\ meta' \in {meta, EmptyMeta}
        /\ errors' = errors \/ errors' > 0
    BY <1>1, <1>6 DEF RebuildStorage, ClearArchive, ClearMeta, ClearRegistry, ClearFails, TornClear
  <2> QED BY <1>3, <1>6, <2>1 DEF RebuildStorage
<1> QED BY <1>4, <1>5, <1>6 DEF Wipes, CommandRebuild

\* Every other step leaves the pool's own state alone, but for the notifications.
LEMMA PoolIdle ==
    ASSUME [Next]_vars, ~(Ingest \/ NewBatch), ~Wipes
    PROVE  UNCHANGED <<storeVars, callVars, faultVars>>
  BY DEF Next, Wipes, Cache, Loop, Command, CommandRefresh, RebuildCache, CommandDone, vars, allVars,
         poolVars, storeVars, callVars

\* While no error has been met: what IndexFirst and Filled say, except under a
\* clear_storage, which finds no push, leaves no file, and resets the registry last.
Tidy ==
    IF clearPc = "off" THEN IndexFirst /\ Filled
    ELSE /\ files = NoFiles /\ byHour = NoFiles
         /\ clearPc = "registry" => IndexedHours = {}

LEMMA ToldStep == ASSUME Types, Told, [Next]_vars PROVE Told' /\ (Ingest \/ NewBatch => FilesKept)
<1>1. CASE Ingest \/ NewBatch
  <2>1. TypeOK /\ PoolNext BY <1>1 DEF Types, FaultsTypeOK, Ingest, NewBatch, PoolNext
  <2> QED BY <2>1, <1>1, ToldPush, FilledPush
<1>2. CASE ~(Ingest \/ NewBatch)
  <2>1. UNCHANGED callVars BY <1>2, PoolIdle, WipesTake
  <2> QED BY <1>2, <2>1 DEF callVars, Told, Replacing, CurHour
<1> QED BY <1>1, <1>2

\* No push runs while the storage is being cleared.
RebuildAlone == clearPc # "off" => pc = "idle"

LEMMA AloneStep ==
    ASSUME overlapped \/ RebuildAlone, [Next]_vars, ~overlapped'
    PROVE  ~overlapped /\ RebuildAlone /\ RebuildAlone'
<1>1. CASE History BY <1>1 DEF History, RebuildAlone
<1>2. CASE UNCHANGED vars
  <2>1. UNCHANGED <<pc, clearPc, overlapped>>
    BY <1>2 DEF vars, history, allVars, poolVars, callVars, faultVars
  <2> QED BY <2>1 DEF RebuildAlone
<1> QED BY <1>1, <1>2, Remembers

LEMMA TidyPush ==
    ASSUME Types, Tidy, RebuildAlone, RebuildAlone', Ingest \/ NewBatch
    PROVE  Tidy'
<1>1. TypeOK /\ PoolNext /\ UNCHANGED faultVars
  BY DEF Types, FaultsTypeOK, Ingest, NewBatch, PoolNext
<1>2. pc # "idle" \/ pc' # "idle"
  BY DEF Ingest, NewBatch, PushBegin, PushStep, ApplyPush, ApplyReplace, ApplySkip, ReplaceRead,
         ReplaceCreate, ReplaceRewrite, ReplaceAppend, Register, WriteLogs, EnsureIndex, SaveMeta,
         SaveRegistry, Notify
<1>3. clearPc = "off" /\ clearPc' = "off" BY <1>1, <1>2 DEF RebuildAlone, faultVars
<1>4. IndexFirst' /\ Filled' BY <1>1, <1>3, PushIndexFirst, FilledPush DEF Tidy
<1> QED BY <1>3, <1>4 DEF Tidy

LEMMA TidyWipes ==
    ASSUME Types, Told, Tidy, RebuildAlone, RebuildAlone', Wipes, errors' = errors
    PROVE  Tidy'
<1> USE DEF storeVars, callVars
<1>1. errors \in Nat BY FaultBoundsAssumption DEF Types, FaultsTypeOK
<1>2. ~ClearActiveFails /\ ~ClearFails BY <1>1 DEF ClearActiveFails, ClearFails
<1>3. UNCHANGED callVars BY WipesTake
<1>4. CASE ClearActive
  <2>1. clearPc = "off" /\ clearPc' = "archive" /\ files' = NoFiles BY <1>4 DEF ClearActive
  <2>2. pc = "idle" BY <1>3, <2>1 DEF RebuildAlone
  <2>3. byHour' = NoFiles BY <1>3, <2>1, <2>2 DEF Tidy, IndexFirst
  <2> QED BY <2>1, <2>3 DEF Tidy
<1>5. CASE ClearArchive
  BY <1>5 DEF ClearArchive, poolVars, Tidy
<1>6. CASE ClearMeta
  <2>1. clearPc = "meta" /\ clearPc' = "registry" /\ meta' = EmptyMeta /\ files' = files
    BY <1>6 DEF ClearMeta
  <2>2. IndexedHours' = {} BY <2>1 DEF IndexedHours, EmptyMeta
  <2> QED BY <1>3, <2>1, <2>2 DEF Tidy
<1>7. CASE ClearRegistry
  <2>1. /\ clearPc = "registry" /\ clearPc' = "off" /\ files' = files /\ IndexedHours' = IndexedHours
        /\ registry' = EmptyRegistry /\ diskRegistry' = EmptyRegistry
    BY <1>7 DEF ClearRegistry, IndexedHours
  <2>2. pc = "idle" /\ pc' = "idle" BY <1>3, <2>1 DEF RebuildAlone
  <2>3. files' = NoFiles /\ byHour' = NoFiles /\ affected' = {} /\ IndexedHours' = {}
    BY <1>3, <2>1, <2>2 DEF Tidy, Told
  <2>4. IndexFirst' BY <2>1, <2>2, <2>3, Empties DEF IndexFirst, Replacing
  <2>5. Filled' BY <2>2, <2>3, Empties DEF Filled, Replacing
  <2> QED BY <2>1, <2>4, <2>5 DEF Tidy
<1> QED BY <1>2, <1>4, <1>5, <1>6, <1>7 DEF Wipes, CommandRebuild, RebuildStorage

LEMMA TidyStep ==
    ASSUME Types, Told, errors = 0 /\ ~overlapped => Tidy, overlapped \/ RebuildAlone, [Next]_vars
    PROVE  errors' = 0 /\ ~overlapped' => Tidy'
<1> SUFFICES ASSUME ~overlapped' PROVE errors' = 0 => Tidy'
  OBVIOUS
<1>0. ~overlapped /\ RebuildAlone /\ RebuildAlone' BY AloneStep
<1>1. CASE Ingest \/ NewBatch
  <2>1. errors' = errors BY <1>1 DEF Ingest, NewBatch, faultVars
  <2> QED BY <1>0, <1>1, <2>1, TidyPush
<1>2. CASE Wipes BY <1>0, <1>2, WipesTake, TidyWipes
<1>3. CASE ~(Ingest \/ NewBatch) /\ ~Wipes
  <2>1. UNCHANGED <<storeVars, callVars, faultVars>> BY <1>3, PoolIdle
  <2> QED BY <1>0, <2>1 DEF storeVars, callVars, faultVars, Tidy, IndexFirst, Filled, Covered, IndexedHours,
                      Replacing, Current, CurHour
<1> QED BY <1>1, <1>2, <1>3

\* Nothing is archived here: an indexed hour is active.
Plain == \A h \in IndexedHours : h \in ActiveHours

LEMMA PlainStep == ASSUME Types, Plain, [Next]_vars PROVE Plain'
<1>1. CASE meta' = meta BY <1>1 DEF Plain, IndexedHours, ActiveHours
<1>2. CASE meta' = EmptyMeta
  BY <1>2 DEF Plain, IndexedHours, EmptyMeta
<1>3. CASE Ingest /\ EnsureIndex
  <2>1. cur \in [hour : Hours, count : Nat] /\ meta \in Meta
    BY <1>3 DEF Types, FaultsTypeOK, TypeOK, EnsureIndex
  <2>2. \A h \in Hours : meta'.tier[h] \in {meta.tier[h], "active"}
    <3>1. CASE meta.tier[cur.hour] = "none"
      <4>1. meta' = [meta EXCEPT !.version = @ + 1, !.tier[cur.hour] = "active",
                                 !.count[cur.hour] = @ + cur.count]
        BY <1>3, <3>1 DEF EnsureIndex
      <4> QED BY <2>1, <4>1 DEF Meta
    <3>2. CASE meta.tier[cur.hour] # "none"
      <4>1. meta' = [meta EXCEPT !.count[cur.hour] = @ + cur.count] BY <1>3, <3>2 DEF EnsureIndex
      <4> QED BY <2>1, <4>1 DEF Meta
    <3> QED BY <3>1, <3>2
  <2> QED BY <2>2 DEF Plain, IndexedHours, ActiveHours
<1>4. CASE Ingest /\ ~EnsureIndex
  <2>1. meta' = meta
    BY <1>4 DEF Ingest, PushStep, ApplyPush, ApplyReplace, ApplySkip, ReplaceRead, ReplaceCreate, storeVars,
           ReplaceRewrite, ReplaceAppend, Register, WriteLogs, SaveMeta, SaveRegistry, Notify
  <2> QED BY <1>1, <2>1
<1>5. CASE NewBatch BY <1>1, <1>5 DEF NewBatch, PushBegin, storeVars
<1>6. CASE Wipes BY <1>1, <1>2, <1>6, WipesTake
<1>7. CASE ~(Ingest \/ NewBatch) /\ ~Wipes BY <1>1, <1>7, PoolIdle DEF storeVars
<1> QED BY <1>3, <1>4, <1>5, <1>6, <1>7

\* The command's refresh runs while the command waits for it.
Attended == cmdPc # "refresh" => showPc["command"] = "idle"

LEMMA AttendedStep == ASSUME Types, Attended, [Next]_vars PROVE Attended'
<1>1. showPc \in [Refreshers -> {"idle", "snapshot", "keys", "read", "store", "build"}]
      /\ "command" \in Refreshers /\ "loop" \in Refreshers
  BY DEF Types, RefreshTypes, Refreshers
<1>2. CASE UNCHANGED <<showVars, cmdVars>> BY <1>2 DEF showVars, cmdVars, Attended
<1>3. CASE Ingest \/ NewBatch \/ Cache \/ UNCHANGED vars BY <1>2, <1>3 DEF Ingest, NewBatch, Cache, vars
<1>4. CASE Loop
  <2>1. showPc'["command"] = showPc["command"]
    <3>1. \A pc1 : [showPc EXCEPT !["loop"] = pc1]["command"] = showPc["command"] BY <1>1
    <3> QED
      BY <1>4, <3>1
         DEF Loop, LoopRecv, RefreshStep, TakeSnapshot, QueryKeys, ReadHot, Store, BuildView, SendView
  <2> QED BY <1>4, <2>1 DEF Loop, cmdVars, Attended
<1>5. CASE RefreshStep("command") /\ UNCHANGED cmdVars
  BY <1>5 DEF RefreshStep, TakeSnapshot, QueryKeys, ReadHot, Store, BuildView, SendView, cmdVars, Attended
<1>6. CASE Wipes
  <2>1. cmdPc # "refresh" BY <1>6 DEF Wipes, CommandRebuild, RebuildStorage
  <2> QED BY <1>6, <2>1, WipesTake DEF showVars, Attended
<1>7. CASE RebuildCache \/ CommandRefresh \/ CommandDone
  BY <1>1, <1>7 DEF RebuildCache, CommandRefresh, CommandDone, showVars, Attended
<1> QED BY <1>3, <1>4, <1>5, <1>6, <1>7 DEF Next, Command, Wipes

\* clear has taken what the cache had counted, but not yet the termination key.
Wiped == cmdPc \in {"processed", "progress"}

Holding(h) == IF cachePc \in {"ingest", "add"} /\ h = readKey THEN readLogs ELSE agg[h]

\* The cache holds every record of an indexed hour, at least once, unless the hour is due,
\* or after the termination key and so for the active files to show. A build that has not
\* set the key yet has every such hour before it.
Remembered ==
    /\ \A h \in IndexedHours : Due(h) \/ Wiped \/ h > term \/ Within(files[h], Holding(h))
    /\ cachePc = "progress" => \A h \in IndexedHours : Due(h)

LEMMA RememberedPush ==
    ASSUME Types, FilesKept, Remembered, Ingest \/ NewBatch
    PROVE  Remembered'
<1>1. cacheVars' = cacheVars /\ cmdVars' = cmdVars BY DEF Ingest, NewBatch
<1>2. ASSUME NEW h \in Hours, h \in IndexedHours'
      PROVE  Due(h)' \/ (h \in IndexedHours /\ ~Due(h) /\ files'[h] = files[h])
  BY <1>1, <1>2, PushKeeps DEF cacheVars, Due, Queued
<1>3. IndexedHours' \subseteq Hours BY DEF IndexedHours
<1> QED BY <1>1, <1>2, <1>3 DEF cacheVars, cmdVars, Remembered, Wiped, Holding

LEMMA RememberedCache ==
    ASSUME Types, Remembered, Cache
    PROVE  Remembered'
<1> USE DEF cacheData, chanVars
<1>1. UNCHANGED <<files, affected, cmdPc>> /\ IndexedHours' = IndexedHours /\ IndexedHours \subseteq Hours
  BY DEF Cache, storeVars, callVars, cmdVars, IndexedHours
<1>2. /\ agg \in [Hours -> Seq(Record)] /\ readLogs \in Seq(Record) /\ files \in [Hours -> Seq(Record)]
      /\ updating \subseteq Hours
  BY DEF Types, CacheTypes, CacheTypeOK, FaultsTypeOK, TypeOK
<1>3. ASSUME \A h \in IndexedHours : Due(h)' \/ Wiped \/ h > term' \/ Within(files[h], Holding(h)'),
             cachePc' # "progress"
      PROVE  Remembered'
  BY <1>1, <1>3 DEF Remembered, Wiped
<1>4. CASE cachePc' = "snapshot" BY <1>3, <1>4 DEF Due, Queued
<1>5. CASE RecvDataPushed
  <2>1. \A h : Due(h) => Due(h)' BY <1>5, TakenDue
  <2>2. cachePc = "idle" /\ cachePc' = "update" /\ UNCHANGED <<agg, term>> BY <1>5 DEF RecvDataPushed
  <2> QED BY <1>3, <2>1, <2>2 DEF Remembered, Holding
<1>6. CASE BuildSnapshot
  <2>1. \A h \in IndexedHours' : Due(h)' BY <1>1, <1>6 DEF BuildSnapshot, Due, Queued
  <2> QED BY <2>1 DEF Remembered
<1>7. ASSUME chan' = chan, lagged' = lagged PROVE \A h : Mentions(h)' <=> Mentions(h)
  BY <1>7 DEF Mentions
<1>8. CASE BuildProgress
  <2>1. \A h : Due(h) => Due(h)' BY <1>1, <1>7, <1>8 DEF BuildProgress, Due, Queued
  <2> QED BY <1>3, <1>8, <2>1 DEF BuildProgress, Remembered
<1>9. CASE BuildCheck /\ cachePc' # "snapshot"
  <2>1. /\ cachePc = "check" /\ UNCHANGED <<agg, term, keys>>
        /\ (cachePc' = "done" /\ keys = {}) \/ cachePc' = "query"
    BY <1>9 DEF BuildCheck
  <2>2. \A h : Due(h) => Due(h)' BY <1>1, <1>7, <1>9, <2>1 DEF BuildCheck, Due, Queued
  <2> QED BY <1>3, <2>1, <2>2 DEF Remembered, Holding
<1>10. CASE BuildQuery
  <2>1. /\ cachePc = "query" /\ cachePc' = "ingest" /\ readLogs' = files[readKey]
        /\ UNCHANGED <<agg, term, keys, readKey>>
    BY <1>10 DEF BuildQuery, QueryByHour
  <2>2. \A h : h # readKey => (Due(h) => Due(h)') BY <1>1, <1>7, <1>10, <2>1 DEF BuildQuery, Due, Queued
  <2>3. readKey \in IndexedHours => Within(files[readKey], Holding(readKey)') BY <2>1, WithinIs DEF Holding
  <2>4. \A h : h # readKey => Holding(h)' = Holding(h) BY <2>1 DEF Holding
  <2> QED BY <1>3, <2>1, <2>2, <2>3, <2>4 DEF Remembered
<1>11. CASE BuildIngest \/ UpdateIngest
  <2>1. /\ readKey \in Hours /\ cachePc \in {"ingest", "add"} /\ UNCHANGED <<keys, updating, term, readKey>>
        /\ (cachePc = "ingest" /\ cachePc' = "mark") \/ (cachePc = "add" /\ cachePc' = "addMark")
        /\ agg' = [agg EXCEPT ![readKey] = @ \o readLogs] /\ chan' = chan /\ lagged' = lagged
    BY <1>11 DEF BuildIngest, UpdateIngest, Types, CacheTypes, AtHour
  <2>2. \A h : Due(h) => Due(h)' BY <1>1, <1>7, <2>1 DEF Due, Queued
  <2>3. \A h \in Hours : h # readKey => Holding(h)' = Holding(h) BY <1>2, <2>1 DEF Holding
  <2>4. /\ Holding(readKey) = readLogs /\ agg[readKey] \in Seq(Record) /\ files[readKey] \in Seq(Record)
        /\ Holding(readKey)' = agg[readKey] \o readLogs
    BY <1>2, <2>1 DEF Holding
  <2>5. Within(files[readKey], Holding(readKey)) => Within(files[readKey], Holding(readKey)')
    BY <1>2, <2>4, WithinIs
  <2> QED BY <1>1, <1>3, <2>1, <2>2, <2>3, <2>5 DEF Remembered
<1>12. CASE BuildMark \/ UpdateMark
  <2>1. /\ UNCHANGED <<agg, term>> /\ chan' = chan /\ lagged' = lagged
        /\ \/ cachePc = "mark" /\ cachePc' = "check" /\ keys' = keys \ {readKey}
           \/ cachePc = "addMark" /\ cachePc' = "update" /\ updating' = updating \ {readKey}
    BY <1>12 DEF BuildMark, UpdateMark
  <2>2. \A h : Due(h) => Due(h)' BY <1>1, <1>7, <2>1 DEF Due, Queued
  <2> QED BY <1>3, <2>1, <2>2 DEF Remembered, Holding
<1>13. CASE BuildDone \/ UpdateDone
  <2>1. /\ UNCHANGED <<agg, term>> /\ chan' = chan /\ lagged' = lagged /\ cachePc' \in {"updated", "idle"}
        /\ cachePc \in {"done", "updated"} \/ (cachePc = "update" /\ updating = {})
    BY <1>13 DEF BuildDone, UpdateDone
  <2>2. \A h : Due(h) => Due(h)' BY <1>1, <1>7, <2>1 DEF Due, Queued
  <2> QED BY <1>3, <2>1, <2>2 DEF Remembered, Holding
<1>14. CASE UpdateQuery /\ cachePc' # "snapshot"
  <2> PICK h0 : h0 = Min(updating) OBVIOUS
  <2>1. cachePc = "update" /\ UNCHANGED <<agg, term>> /\ chan' = chan /\ lagged' = lagged
    BY <1>14 DEF UpdateQuery
  <2>2. \/ files[h0] = <<>> /\ updating' = updating \ {h0} /\ cachePc' = "update"
        \/ cachePc' = "add" /\ readKey' = h0 /\ readLogs' = files[h0] /\ updating' = updating
    BY <1>14 DEF UpdateQuery, QueryByHour
  <2>3. \A h : h # h0 => (Due(h) => Due(h)') /\ Holding(h)' = Holding(h)
    BY <1>1, <1>7, <2>1, <2>2 DEF Due, Queued, Holding
  <2>4. Within(files[h0], Holding(h0)') BY <2>2, WithinIs DEF Holding
  <2> QED BY <1>3, <2>1, <2>2, <2>3, <2>4 DEF Remembered
<1>15. RecvLagged \/ RecvMetadataChanged => cachePc' = "snapshot" BY DEF RecvLagged, RecvMetadataChanged
<1> QED
  BY <1>4, <1>5, <1>6, <1>8, <1>9, <1>10, <1>11, <1>12, <1>13, <1>14, <1>15 DEF Cache, CacheStep

LEMMA RememberedRest ==
    ASSUME Types, Remembered, [Next]_vars, ~(Ingest \/ NewBatch), ~Cache
    PROVE  Remembered'
<1>1. CASE Wipes
  <2>1. /\ UNCHANGED <<affected, chanVars, cacheVars>> /\ cmdPc' = "storage"
        /\ \A h \in Hours : files'[h] \in {files[h], <<>>}
        /\ IndexedHours' \subseteq IndexedHours /\ IndexedHours \subseteq Hours
    BY <1>1, WipesTake DEF callVars, IndexedHours
  <2>2. ~Wiped BY <1>1 DEF Wipes, CommandRebuild, RebuildStorage, Wiped
  <2>3. \A h : Due(h) => Due(h)' BY <2>1 DEF cacheVars, chanVars, Due, Mentions, Queued
  <2>4. \A h \in Hours : Within(files[h], Holding(h)) => Within(files'[h], Holding(h)')
    BY <2>1, WithinIs DEF cacheVars, Holding
  <2> QED BY <2>1, <2>2, <2>3, <2>4 DEF cacheVars, Remembered
<1>2. ASSUME ~Wipes
      PROVE  UNCHANGED <<files, meta, affected, chan, lagged, cachePc, keys, updating, readKey, readLogs>>
  <2>1. UNCHANGED <<files, meta, affected>> BY <1>2, PoolIdle DEF storeVars, callVars
  <2>2. \A t \in Refreshers : RefreshStep(t) => cacheVars' = cacheVars
    BY DEF RefreshStep, TakeSnapshot, QueryKeys, ReadHot, Store, BuildView, SendView
  <2>3. "loop" \in Refreshers /\ "command" \in Refreshers BY DEF Refreshers
  <2> QED
    BY <1>2, <2>1, <2>2, <2>3 DEF Next, Wipes, Loop, LoopRecv, Command, CommandRefresh, RebuildCache, CommandDone, vars,
              allVars, poolVars, cacheVars, ClearAgg, ClearProcessed, ClearProgress
<1>3. CASE ~Wipes
  <2>1. \A h : Due(h)' <=> Due(h) BY <1>2, <1>3 DEF Due, Mentions, Queued
  <2>2. IndexedHours' = IndexedHours BY <1>2, <1>3 DEF IndexedHours
  <2>3. CASE RebuildCache /\ cmdPc = "progress"
    <3>1. term' = 0 BY <2>3 DEF RebuildCache, ClearProgress
    <3>2. \A h \in IndexedHours : h > term' BY <3>1, HoursAssumption, HoursPositive DEF IndexedHours
    <3> QED BY <1>2, <1>3, <2>1, <2>2, <3>2 DEF Remembered
  <2>4. CASE RebuildCache /\ cmdPc # "progress"
    <3>1. Wiped' BY <2>4 DEF RebuildCache, Wiped
    <3> QED BY <1>2, <1>3, <2>1, <2>2, <3>1 DEF Remembered
  <2>5. CASE ~RebuildCache
    <3>1. UNCHANGED <<agg, term>> /\ (Wiped => Wiped')
      <4>1. \A t \in Refreshers : RefreshStep(t) => cacheVars' = cacheVars
        BY DEF RefreshStep, TakeSnapshot, QueryKeys, ReadHot, Store, BuildView, SendView
      <4>2. "loop" \in Refreshers /\ "command" \in Refreshers BY DEF Refreshers
      <4> QED
        BY <1>3, <2>5, <4>1, <4>2
           DEF Next, Wipes, Loop, LoopRecv, Command, CommandRefresh, CommandDone, vars, cacheVars, cmdVars,
               Wiped
    <3> QED BY <1>2, <1>3, <2>1, <2>2, <3>1 DEF Remembered, Holding
  <2> QED BY <2>3, <2>4, <2>5
<1> QED BY <1>1, <1>3

\* The view has still to learn of hour h, for a refresh has still to come.
Unshown(h) == Unseen(h) \/ cmdPc \in {"storage", "processed", "progress"}

InCold(t, h) == Within(files[h], cold[t].logs[h])

\* A refresh under way shows every record of hour h: its snapshot has them, or the hour is
\* after the snapshot's termination key and read from the active files.
Coming(t, h) ==
    \/ showPc[t] = "snapshot"
    \/ showPc[t] = "keys"  /\ (InCold(t, h) \/ h > cold[t].term)
    \/ showPc[t] = "read"  /\ \/ InCold(t, h)
                              \/ h > cold[t].term /\ (h \in hotKeys[t] \/ Within(files[h], hot[t][h]))
    \/ showPc[t] = "store" /\ (InCold(t, h) \/ Within(files[h], shared[h]))
    \/ showPc[t] = "build" /\ InCold(t, h)

Seeing(h) ==
    /\ \A t \in Refreshers : showPc[t] # "idle" => Coming(t, h)
    /\ (\A t \in Refreshers : showPc[t] = "idle") => Within(files[h], view[h])

Watched == \A h \in IndexedHours : Unshown(h) \/ Seeing(h)

\* Nothing is missing from the cache's snapshot once it is at rest.
LEMMA SnapshotHas ==
    ASSUME Remembered, NEW h \in IndexedHours, ~Unshown(h)
    PROVE  h > term \/ Within(files[h], agg[h])
<1>1. ~Due(h) /\ ~Wiped /\ cachePc = "idle" BY DEF Unshown, Unseen, Due, Queued, Wiped
<1> QED BY <1>1 DEF Remembered, Holding

LEMMA ComingStep ==
    ASSUME Types, Remembered, Plain, NEW t \in Refreshers, RefreshStep(t), UNCHANGED allVars,
           NEW h \in IndexedHours, ~Unshown(h), Coming(t, h)
    PROVE  IF showPc'[t] = "idle" THEN Within(files'[h], view'[h]) ELSE Coming(t, h)'
<1>1. UNCHANGED <<files, meta>> /\ h \in Hours BY DEF allVars, poolVars, IndexedHours
<1> USE DEF Types, RefreshTypes
<1>2. /\ showPc \in [Refreshers -> {"idle", "snapshot", "keys", "read", "store", "build"}]
      /\ cold[t] \in [logs : Sums, term : Hours \cup {0}] /\ hot[t] \in [Hours -> Seq(Record)]
      /\ files \in [Hours -> Seq(Record)] /\ hotKeys[t] \subseteq Hours /\ shared \in Sums
  <2>1. hot[t] \in Sums OBVIOUS
  <2> QED BY <2>1 DEF FaultsTypeOK, TypeOK, Sums
<1>3. CASE TakeSnapshot(t)
  <2>1. showPc'[t] = "keys" /\ cold'[t] = [logs |-> agg, term |-> term] BY <1>2, <1>3 DEF TakeSnapshot
  <2>2. h > term \/ Within(files[h], agg[h]) BY SnapshotHas
  <2> QED BY <1>1, <2>1, <2>2 DEF Coming, InCold
<1>4. CASE QueryKeys(t)
  <2>1. /\ showPc[t] = "keys" /\ showPc'[t] = "read" /\ cold' = cold /\ hotKeys'[t] = ActiveHours
    BY <1>2, <1>4 DEF QueryKeys
  <2>2. h \in ActiveHours BY DEF Plain
  <2> QED BY <1>1, <2>1, <2>2 DEF Coming, InCold
<1>5. CASE ReadHot(t)
  <2> PICK k : k = Min(hotKeys[t]) OBVIOUS
  <2>1. /\ showPc[t] = "read" /\ showPc' = showPc /\ cold' = cold /\ hotKeys'[t] = hotKeys[t] \ {k}
        /\ hot' = IF k > cold[t].term THEN [hot EXCEPT ![t][k] = files[k]] ELSE hot
    BY <1>5 DEF ReadHot
  <2>2. k \in Hours BY <1>2, <1>5, LeastKey DEF ReadHot
  <2>3. hot'[t][h] = IF h = k /\ h > cold[t].term THEN files[h] ELSE hot[t][h] BY <1>1, <1>2, <2>1, <2>2
  <2>4. CASE InCold(t, h) BY <1>1, <2>1, <2>4 DEF Coming, InCold
  <2>5. CASE h > cold[t].term /\ h = k
    <3>1. Within(files'[h], hot'[t][h]) BY <1>1, <2>3, <2>5, WithinIs
    <3> QED BY <2>1, <2>5, <3>1 DEF Coming
  <2>6. CASE h > cold[t].term /\ h # k /\ (h \in hotKeys[t] \/ Within(files[h], hot[t][h]))
    BY <1>1, <2>1, <2>3, <2>6 DEF Coming
  <2> QED BY <2>1, <2>4, <2>5, <2>6 DEF Coming
<1>6. CASE Store(t)
  <2>1. /\ showPc[t] = "read" /\ showPc'[t] = "store" /\ cold' = cold /\ shared' = hot[t] /\ hotKeys[t] = {}
    BY <1>2, <1>6 DEF Store
  <2> QED BY <1>1, <2>1 DEF Coming, InCold
<1>7. CASE BuildView(t)
  <2>1. showPc[t] = "store" /\ showPc'[t] = "build" BY <1>2, <1>7 DEF BuildView
  <2>2. cold' = [cold EXCEPT ![t].logs = [k \in Hours |-> @[k] \o shared[k]]] BY <1>7 DEF BuildView
  <2>3. cold'[t].logs[h] = cold[t].logs[h] \o shared[h] BY <1>1, <1>2, <2>2
  <2>4. files[h] \in Seq(Record) /\ cold[t].logs[h] \in Seq(Record) /\ shared[h] \in Seq(Record)
    BY <1>1, <1>2 DEF Sums
  <2>5. Within(files[h], cold[t].logs[h]) \/ Within(files[h], shared[h]) BY <2>1 DEF Coming, InCold
  <2>6. InCold(t, h)' BY <1>1, <2>3, <2>4, <2>5, WithinIs DEF InCold
  <2> QED BY <2>1, <2>6 DEF Coming
<1>8. CASE SendView(t)
  <2>1. showPc[t] = "build" /\ showPc'[t] = "idle" /\ view' = cold[t].logs BY <1>2, <1>8 DEF SendView
  <2> QED BY <1>1, <2>1 DEF Coming, InCold
<1> QED BY <1>3, <1>4, <1>5, <1>6, <1>7, <1>8 DEF RefreshStep

\* The two refreshers have not met.
OneRefresher == \E t \in Refreshers : showPc[t] = "idle"

\* A refresh starts: the loop's, the command's, a Rebuild's.
Starts == LoopRecv \/ CommandRefresh \/ (RebuildCache /\ cmdPc = "progress")

LEMMA MetStep ==
    ASSUME Types, met \/ OneRefresher, [Next]_vars, ~met'
    PROVE  OneRefresher' /\ (Starts \/ ~met)
<1>1. showPc \in [Refreshers -> {"idle", "snapshot", "keys", "read", "store", "build"}]
      /\ "loop" \in Refreshers /\ "command" \in Refreshers
  BY DEF Types, RefreshTypes, Refreshers
<1>2. CASE UNCHANGED vars BY <1>2 DEF vars, history, showVars, OneRefresher
<1>3. CASE History /\ \E t \in Refreshers : Starting(t)
  <2>1. OneRefresher' BY <1>3 DEF History, OneRefresher
  <2>2. ASSUME NEW t \in Refreshers, Starting(t) PROVE Starts
    <3>1. ~RefreshStep(t)
      BY <2>2 DEF Starting, RefreshStep, TakeSnapshot, QueryKeys, ReadHot, Store, BuildView, SendView
    <3>2. ASSUME NEW r \in Refreshers, r # t PROVE ~RefreshStep(r)
      <4>1. ASSUME RefreshStep(r)
            PROVE  showPc' = showPc
                   \/ \E x \in {"keys", "read", "store", "build", "idle"} : showPc' = [showPc EXCEPT ![r] = x]
        BY <4>1 DEF RefreshStep, TakeSnapshot, QueryKeys, ReadHot, Store, BuildView, SendView
      <4> QED BY <1>1, <2>2, <3>2, <4>1 DEF Starting
    <3>3. ASSUME showVars' = showVars PROVE FALSE BY <2>2, <3>3 DEF showVars, Starting
    <3>4. ~(RebuildCache /\ cmdPc # "progress") BY <2>2 DEF RebuildCache, Starting
    <3> QED
      BY <1>1, <3>1, <3>2, <3>3, <3>4
         DEF Next, Ingest, NewBatch, Cache, Loop, Command, CommandRebuild, RebuildStorage, CommandDone, vars,
             Starts
  <2> QED BY <1>3, <2>1, <2>2
<1>4. CASE History /\ \A t \in Refreshers : ~Starting(t)
  <2>1. ~met BY <1>4 DEF History
  <2> QED BY <1>4, <2>1 DEF OneRefresher, Starting
<1> QED BY <1>2, <1>3, <1>4, Remembers

LEMMA WatchedRefresh ==
    ASSUME Types, Remembered, Plain, Watched, OneRefresher,
           NEW t \in Refreshers, RefreshStep(t), UNCHANGED <<allVars, cmdVars>>
    PROVE  Watched'
<1>1. showPc \in [Refreshers -> {"idle", "snapshot", "keys", "read", "store", "build"}]
  BY DEF Types, RefreshTypes
<1>2. showPc[t] # "idle" /\ cacheVars' = cacheVars
  BY DEF RefreshStep, TakeSnapshot, QueryKeys, ReadHot, Store, BuildView, SendView
<1>3. \A r \in Refreshers : r # t => showPc[r] = "idle" /\ showPc'[r] = "idle"
  <2>1. \A r \in Refreshers : r # t => showPc[r] = "idle" BY <1>2 DEF OneRefresher, Refreshers
  <2>2. showPc' = showPc
        \/ \E x \in {"keys", "read", "store", "build", "idle"} : showPc' = [showPc EXCEPT ![t] = x]
    BY DEF RefreshStep, TakeSnapshot, QueryKeys, ReadHot, Store, BuildView, SendView
  <2>3. \A r \in Refreshers : r # t => showPc'[r] = showPc[r] BY <1>1, <2>2
  <2> QED BY <2>1, <2>3
<1>4. IndexedHours' = IndexedHours /\ \A h : Unshown(h)' <=> Unshown(h)
  BY <1>2 DEF allVars, poolVars, cmdVars, cacheVars, IndexedHours, Unshown, Unseen, Mentions
<1>5. ASSUME NEW h \in IndexedHours, ~Unshown(h) PROVE Seeing(h)'
  <2>1. Coming(t, h) BY <1>2, <1>5 DEF Watched, Seeing
  <2>2. IF showPc'[t] = "idle" THEN Within(files'[h], view'[h]) ELSE Coming(t, h)'
    BY <1>5, <2>1, ComingStep
  <2> QED BY <1>3, <2>2 DEF Seeing
<1> QED BY <1>4, <1>5 DEF Watched

\* A refresh that starts looks at everything.
LEMMA WatchedStart ==
    ASSUME Types, OneRefresher', NEW t \in Refreshers, showPc' = [showPc EXCEPT ![t] = "snapshot"]
    PROVE  Watched'
<1>1. showPc'[t] = "snapshot" BY DEF Types, RefreshTypes
<1>2. \A r \in Refreshers : r # t => showPc'[r] = "idle" BY <1>1 DEF OneRefresher, Refreshers
<1>3. \A h : Seeing(h)' BY <1>1, <1>2 DEF Seeing, Coming
<1> QED BY <1>3 DEF Watched

LEMMA WatchedStep ==
    ASSUME Types, Remembered, Plain, met \/ Watched, Told, met \/ OneRefresher, [Next]_vars
    PROVE  met' \/ Watched'
<1> SUFFICES ASSUME ~met' PROVE Watched'
  OBVIOUS
<1>1. "loop" \in Refreshers /\ "command" \in Refreshers BY DEF Refreshers
<1>2. IndexedHours \subseteq Hours /\ IndexedHours' \subseteq Hours BY DEF IndexedHours
<1>3. CASE Starts
  <2>1. OneRefresher' BY MetStep
  <2> QED BY <1>1, <1>3, <2>1, WatchedStart DEF Starts, LoopRecv, CommandRefresh, RebuildCache
<1> SUFFICES ASSUME ~Starts PROVE Watched'
  BY <1>3
<1>4. Watched /\ OneRefresher BY MetStep
<1>5. CASE Ingest \/ NewBatch
  <2>1. cacheVars' = cacheVars /\ showVars' = showVars /\ cmdVars' = cmdVars BY <1>5 DEF Ingest, NewBatch
  <2>2. FilesKept BY <1>5, ToldStep
  <2>3. ASSUME NEW h \in IndexedHours', ~Unshown(h)' PROVE Seeing(h)'
    <3>1. h \in IndexedHours /\ files'[h] = files[h] /\ ~(Mentions(h) \/ h \in affected)
      BY <1>2, <1>5, <2>2, <2>3, PushKeeps DEF Unshown, Unseen
    <3>2. ~Unshown(h) BY <2>1, <2>3, <3>1 DEF cacheVars, cmdVars, Unshown, Unseen
    <3>3. Seeing(h) BY <1>4, <3>1, <3>2 DEF Watched
    <3> QED BY <2>1, <3>1, <3>3 DEF showVars, Seeing, Coming, InCold
  <2> QED BY <2>3 DEF Watched
<1>6. CASE Cache
  <2>1. \A h : Unseen(h)' BY <1>6, CacheSignals DEF Unseen
  <2> QED BY <2>1 DEF Watched, Unshown
<1>7. ASSUME NEW t \in Refreshers, RefreshStep(t), UNCHANGED <<allVars, cmdVars>> PROVE Watched'
  BY <1>4, <1>7, WatchedRefresh
<1>8. CASE Wipes
  <2>1. cmdPc' = "storage" BY <1>8, WipesTake
  <2> QED BY <2>1 DEF Watched, Unshown
<1>9. CASE RebuildCache /\ cmdPc # "progress"
  <2>1. cmdPc' \in {"processed", "progress"} BY <1>9 DEF RebuildCache
  <2> QED BY <2>1 DEF Watched, Unshown
<1>10. CASE CommandDone \/ UNCHANGED vars
  <2>1. UNCHANGED <<allVars, cacheVars, showVars>> /\ (cmdPc' = cmdPc \/ cmdPc = "refresh")
    BY <1>10 DEF CommandDone, vars, cmdVars
  <2>2. IndexedHours' = IndexedHours BY <2>1 DEF allVars, poolVars, IndexedHours
  <2>3. \A h : Unshown(h) => Unshown(h)'
    BY <2>1 DEF allVars, poolVars, cacheVars, Unshown, Unseen, Mentions
  <2>4. \A h : Seeing(h) => Seeing(h)'
    BY <2>1 DEF allVars, poolVars, showVars, Seeing, Coming, InCold
  <2> QED BY <1>4, <2>2, <2>3, <2>4 DEF Watched
<1> QED
  BY <1>1, <1>5, <1>6, <1>7, <1>8, <1>9, <1>10 DEF Next, Loop, Command, Starts, Wipes

MInv == /\ Types /\ Told /\ Plain /\ Attended
        /\ overlapped \/ RebuildAlone
        /\ errors = 0 /\ ~overlapped => Tidy
        /\ Remembered
        /\ met \/ OneRefresher
        /\ met \/ Watched

LEMMA MissingInit == ShowInit => MInv
<1> SUFFICES ASSUME ShowInit PROVE MInv
  OBVIOUS
<1>1. /\ pc = "idle" /\ byHour = NoFiles /\ affected = {} /\ clearPc = "off" /\ errors = 0 /\ clears = 0
      /\ cachePc = "snapshot" /\ cmdPc = "idle" /\ IndexedHours = {} /\ showPc = [t \in Refreshers |-> "idle"]
  BY DEF ShowInit, FaultsInit, Init, CacheInit, IndexedHours, EmptyMeta
<1>2. Told BY <1>1, Empties DEF Told, Replacing
<1>3. Attended BY <1>1 DEF Attended, Refreshers
<1>4. Tidy BY <1>1, IndexFirstInit, FilledInit DEF XInv, Tidy
<1>5. Plain /\ Remembered /\ Watched BY <1>1 DEF Plain, Remembered, Watched
<1>6. RebuildAlone /\ OneRefresher BY <1>1 DEF RebuildAlone, OneRefresher, Refreshers
<1> QED BY <1>2, <1>3, <1>4, <1>5, <1>6, TypesInit DEF MInv

LEMMA MissingStep ==
    ASSUME MInv, [Next]_vars
    PROVE  MInv'
<1>1. Types' /\ Told' /\ Plain' /\ Attended' BY TypesStep, ToldStep, PlainStep, AttendedStep DEF MInv
<1>2. errors' = 0 /\ ~overlapped' => Tidy' BY TidyStep DEF MInv
<1>3. Remembered'
  <2>1. CASE Ingest \/ NewBatch BY <2>1, ToldStep, RememberedPush DEF MInv
  <2>2. CASE Cache BY <2>2, RememberedCache DEF MInv
  <2>3. CASE ~(Ingest \/ NewBatch) /\ ~Cache BY <2>3, RememberedRest DEF MInv
  <2> QED BY <2>1, <2>2, <2>3
<1>4. met' \/ Watched' BY WatchedStep DEF MInv
<1>5. overlapped' \/ RebuildAlone' BY AloneStep DEF MInv
<1>6. met' \/ OneRefresher' BY MetStep DEF MInv
<1> QED BY <1>1, <1>2, <1>3, <1>4, <1>5, <1>6 DEF MInv

\* Whatever pushes, Rebuilds and refreshes there have been, in any order and number, whole or
\* failed at any step, beside or after each other: once everything has come to rest the view
\* shows every record of every indexed hour, and every record of the pool if no error was met
\* and no push met a clear_storage - unless the refresh that began last found the other
\* task's under way, whose view may be older and sent after its own.
THEOREM ShowNothingMissing == Spec => []NothingMissing
<1>1. MInv /\ [Next]_vars => MInv' BY MissingStep
<1>2. MInv => NothingMissing
  <2> SUFFICES ASSUME MInv, Quiet, ~met, NEW h \in Hours,
                      (errors = 0 /\ ~overlapped) \/ h \in IndexedHours
               PROVE  Within(files[h], view[h])
    BY DEF NothingMissing, Within
  <2>1. /\ chan = <<>> /\ ~lagged /\ pc = "idle" /\ cmdPc = "idle" /\ cachePc = "idle" /\ signals = 0
        /\ showPc["loop"] = "idle" /\ showPc["command"] = "idle"
    BY DEF Quiet, CacheQuiet, PoolQuiet, MInv, Attended
  <2>2. DOMAIN chan = {} /\ affected = {} BY <2>1 DEF MInv, Told
  <2>3. CASE h \in IndexedHours
    <3>1. ~Unshown(h) BY <2>1, <2>2 DEF Unshown, Unseen, Mentions
    <3>2. Seeing(h) BY <2>3, <3>1 DEF MInv, Watched
    <3> QED BY <2>1, <3>2 DEF Seeing, Refreshers
  <2>4. CASE h \notin IndexedHours
    <3>1. files[h] = <<>> BY <2>2, <2>4, Empties DEF MInv, Tidy, Filled
    <3> QED BY <3>1, WithinIs
  <2> QED BY <2>3, <2>4
<1> QED BY <1>1, <1>2, MissingInit, PTL DEF Spec
=============================================================================
