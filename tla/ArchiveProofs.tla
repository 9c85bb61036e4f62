---------------------------- MODULE ArchiveProofs ----------------------------
(***************************************************************************)
(* Proofs about the archive tiers (Archive), for every set of uids, hours, *)
(* payloads and batches, every calendar, every age and every bound.        *)
(***************************************************************************)
EXTENDS Archive, DataPoolProofs, AggregationProofs

-----------------------------------------------------------------------------
(* Type correctness *)

\* The hour, and its day, that a loop of run_archive is at.
LEMMA CurArchIs ==
    ASSUME archTodo \subseteq Hours, archTodo # {}
    PROVE  CurArch \in archTodo /\ CurArch \in Hours /\ CurDay = DayOf(CurArch) /\ CurDay \in Days
<1>1. archTodo \subseteq Nat BY HoursAssumption
<1>2. \E x \in archTodo : \A y \in archTodo : x <= y BY <1>1, LeastNumber
<1>3. CurArch \in archTodo BY <1>2 DEF CurArch, Min
<1> QED BY <1>3 DEF CurArch, CurDay, Days

\* In this module the saved index and registry are never torn, and an hour that a
\* digest stands for was archived in the index the same file holds.
ArchiveTypes ==
    /\ ArchiveTypeOK
    /\ diskMeta \in Meta /\ diskRegistry \in Registry
    /\ archPc # "idle" => pc = "idle"
    /\ \A h \in diskDigested :
          diskMeta.tier[h] \in {"daily", "monthly"} /\ DayOf(h) \in DOMAIN digests
    /\ archPc = "index" => CurDay \in DOMAIN digests

LEMMA InitArchiveTypes == ArchiveInit => ArchiveTypes
<1> SUFFICES ASSUME ArchiveInit PROVE ArchiveTypes
  OBVIOUS
<1>1. TypeOK BY InitTypeOK DEF ArchiveInit
<1>2. [d \in Days |-> <<>>] \in [Days -> Seq(Record)] /\ <<>> \in Seq(Record) /\ DOMAIN <<>> = {}
  OBVIOUS
<1>3. now \in 0..MaxNow /\ archCrashes \in 0..MaxArchCrashes
  BY AgesAssumption DEF ArchiveInit
<1>4. ArchiveTypeOK BY <1>1, <1>2, <1>3 DEF ArchiveInit, ArchiveTypeOK
<1>5. diskMeta \in Meta /\ diskRegistry \in Registry
  BY <1>1 DEF ArchiveInit, Init, TypeOK
<1> QED BY <1>4, <1>5 DEF ArchiveInit, ArchiveTypes

\* update_tier moves an entry there is, and no other.
LEMMA UpdateTierIs ==
    ASSUME TypeOK, NEW h \in Hours, NEW t \in Tiers, UpdateTier(h, t)
    PROVE  /\ meta' \in Meta /\ chan' \in Seq(Notification) /\ lagged' \in BOOLEAN
           /\ \A k \in Hours : meta'.tier[k] =
                 IF k = h /\ meta.tier[h] # "none" THEN t ELSE meta.tier[k]
<1>1. CASE meta.tier[h] = "none" BY <1>1 DEF UpdateTier, TypeOK, chanVars
<1>2. CASE meta.tier[h] # "none"
  <2>1. /\ meta' = [meta EXCEPT !.version = @ + 1, !.tier[h] = t]
        /\ Send([type |-> "meta", keys |-> {h}])
    BY <1>2 DEF UpdateTier
  <2>2. [meta.tier EXCEPT ![h] = t] \in [Hours -> Tiers] /\ meta.version + 1 \in Nat
    BY DEF TypeOK, Meta
  <2>3. meta' = [version |-> meta.version + 1, tier |-> [meta.tier EXCEPT ![h] = t],
                 count |-> meta.count]
    BY <2>1 DEF TypeOK, Meta
  <2>4. meta' \in Meta BY <2>2, <2>3 DEF TypeOK, Meta
  <2>5. \A k \in Hours : meta'.tier[k] = IF k = h THEN t ELSE meta.tier[k]
    BY <2>3 DEF TypeOK, Meta
  <2>6. [type |-> "meta", keys |-> {h}] \in Notification BY DEF Notification
  <2>7. chan' \in Seq(Notification) /\ lagged' \in BOOLEAN
    BY <2>1, <2>6, SendType DEF TypeOK
  <2> QED BY <1>2, <2>4, <2>5, <2>7
<1> QED BY <1>1, <1>2

\* What a push does to the index and to the two saved files.
LEMMA PushTiers ==
    ASSUME TypeOK, PoolNext
    PROVE  /\ \A h \in Hours : \/ meta'.tier[h] = meta.tier[h]
                               \/ /\ meta.tier[h] = "none" /\ meta'.tier[h] = "active"
                                  /\ EnsureIndex /\ AtIndex(h)
           /\ IF pc = "apply" /\ pc' = "saveRegistry" THEN diskMeta' = meta /\ meta' = meta
                                                      ELSE diskMeta' = diskMeta
           /\ diskRegistry' \in {diskRegistry, registry}
           /\ pc' \in {"idle", "notify"} /\ pc # pc' => pc = "notify" \/ diskRegistry' = registry'
           /\ EnsureIndex => meta'.tier[cur.hour] # "none"
<1> USE DEF storeVars, chanVars, callVars
<1>1. CASE EnsureIndex
  <2>1. cur \in [hour : Hours, count : Nat] /\ pc = "index" /\ pc' = "apply"
    BY <1>1 DEF EnsureIndex, TypeOK
  <2>2. meta.tier \in [Hours -> Tiers] /\ meta = [version |-> meta.version, tier |-> meta.tier, count |-> meta.count]
    BY DEF TypeOK, Meta
  <2>3. meta'.tier = IF meta.tier[cur.hour] = "none"
                     THEN [meta.tier EXCEPT ![cur.hour] = "active"] ELSE meta.tier
    <3>1. CASE meta.tier[cur.hour] = "none"
      <4>1. meta' = [meta EXCEPT !.version = @ + 1, !.tier[cur.hour] = "active",
                                 !.count[cur.hour] = @ + cur.count]
        BY <1>1, <3>1 DEF EnsureIndex
      <4> QED BY <4>1, <3>1, <2>2
    <3>2. CASE meta.tier[cur.hour] # "none"
      <4>1. meta' = [meta EXCEPT !.count[cur.hour] = @ + cur.count]
        BY <1>1, <3>2 DEF EnsureIndex
      <4> QED BY <4>1, <3>2, <2>2
    <3> QED BY <3>1, <3>2
  <2>4. diskMeta' = diskMeta /\ diskRegistry' = diskRegistry BY <1>1 DEF EnsureIndex
  <2>5. cur.hour \in Hours BY <2>1
  <2>6. \A h \in Hours : AtIndex(h) <=> h = cur.hour BY <2>1 DEF AtIndex
  <2> QED BY <1>1, <2>1, <2>2, <2>3, <2>4, <2>5, <2>6
<1>2. CASE ~EnsureIndex /\ ~SaveMeta
  BY <1>2 DEF PoolNext, PushStep, PushBegin, ApplyPush, ApplyReplace, ApplySkip, ReplaceRead,
     ReplaceCreate, ReplaceRewrite, ReplaceAppend, Register, WriteLogs, SaveRegistry, Notify, Return
<1>3. CASE SaveMeta BY <1>3 DEF SaveMeta, EnsureIndex
<1> QED BY <1>1, <1>2, <1>3

LEMMA StepArchiveTypes == ArchiveTypes /\ [ArchiveNext]_archVars => ArchiveTypes'
<1> SUFFICES ASSUME ArchiveTypes, [ArchiveNext]_archVars PROVE ArchiveTypes'
  OBVIOUS
<1>0. ArchiveTypeOK /\ TypeOK /\ archTodo \subseteq Hours BY DEF ArchiveTypes, ArchiveTypeOK
<1> USE DEF archCall, archFiles
<1>1. CASE PoolNext /\ (PushNow \/ Push)
  <2>1. TypeOK' BY <1>0, <1>1, StepTypeOK
  <2>2. /\ now' = now /\ daily' = daily /\ monthly' = monthly /\ digests' = digests
        /\ digested' = digested /\ archPc' = archPc /\ archTodo' = archTodo
        /\ archBuf' = archBuf /\ archived' = archived /\ cut' = cut /\ archCrashes' = archCrashes
    BY <1>1 DEF PushNow, Push
  <2>3. archPc = "idle"
    BY <1>1 DEF ArchiveTypes, PushNow, Push, PushStep, ApplyPush, ApplyReplace, ApplySkip,
       ReplaceRead, ReplaceCreate, ReplaceRewrite, ReplaceAppend, Register, WriteLogs,
       EnsureIndex, SaveMeta, SaveRegistry, Notify
  <2>4. stale' \subseteq Hours
    <3>1. pc = "append" => CurHour \in Hours BY <1>0, CurrentType DEF TypeOK
    <3> QED BY <1>0, <1>1, <3>1 DEF PushNow, Push, ArchiveTypeOK
  <2>5. \A h \in Hours : meta.tier[h] \in {"daily", "monthly"} => meta'.tier[h] = meta.tier[h]
    BY <1>0, <1>1, PushTiers
  <2>index. \A h \in digested' : meta'.tier[h] \in {"daily", "monthly"} /\ DayOf(h) \in DOMAIN digests'
    BY <1>0, <2>2, <2>5 DEF ArchiveTypeOK
  <2>same. /\ now' \in 0..MaxNow /\ daily' \in [Days -> Seq(Record)] /\ monthly' \in [Days -> Seq(Record)]
           /\ DOMAIN digests' \subseteq Days /\ digested' \subseteq Hours
           /\ cut' \subseteq Days /\ archCrashes' \in 0..MaxArchCrashes
           /\ archTodo' \subseteq Hours /\ archBuf' \in Seq(Record) /\ archived' \in BOOLEAN
    BY <1>0, <2>2 DEF ArchiveTypeOK
  <2>disk. diskDigested' \subseteq Hours
    BY <1>0, <1>1 DEF PushNow, Push, ArchiveTypeOK
  <2>6. ArchiveTypeOK' BY <2>1, <2>2, <2>3, <2>4, <2>index, <2>same, <2>disk DEF ArchiveTypeOK
  <2>7. diskMeta' \in Meta /\ diskRegistry' \in Registry
    BY <1>0, <1>1, PushTiers DEF ArchiveTypes, TypeOK
  <2>8. IF pc = "apply" /\ pc' = "saveRegistry" THEN diskDigested' = digested
                                                ELSE diskDigested' = diskDigested
    BY <1>1 DEF PushNow, Push, PushBegin
  <2>9. \A h \in diskDigested' :
           diskMeta'.tier[h] \in {"daily", "monthly"} /\ DayOf(h) \in DOMAIN digests
    BY <1>0, <1>1, <2>8, PushTiers DEF ArchiveTypes, ArchiveTypeOK
  <2> QED BY <2>2, <2>3, <2>6, <2>7, <2>9 DEF ArchiveTypes
<1>2. ASSUME archTodo # {}
      PROVE  /\ CurArch \in archTodo /\ CurArch \in Hours
             /\ CurDay = DayOf(CurArch) /\ CurDay \in Days
  BY <1>0, <1>2, CurArchIs
<1>3. ASSUME UNCHANGED <<poolVars, now, digests, digested, diskDigested, stale, cut, archCrashes>>,
             daily' \in [Days -> Seq(Record)], monthly' \in [Days -> Seq(Record)],
             archPc' \in {"idle", "hour", "create", "write", "digest", "index", "remove",
                          "month", "monthCreate", "monthWrite", "monthIndex"},
             archTodo' \subseteq Hours, archBuf' \in Seq(Record), archived' \in BOOLEAN,
             archPc' \notin {"idle", "hour", "month"} => archTodo' # {},
             archPc' # "idle" => pc = "idle", archPc' # "index"
      PROVE  ArchiveTypes'
  <2>1. TypeOK' BY <1>0, <1>3, StepTypeOK
  <2>2. /\ meta' = meta /\ diskMeta' = diskMeta /\ diskRegistry' = diskRegistry /\ pc' = pc
        /\ now' = now /\ digests' = digests /\ digested' = digested
        /\ diskDigested' = diskDigested /\ stale' = stale /\ cut' = cut
        /\ archCrashes' = archCrashes
    BY <1>3 DEF poolVars
  <2>3. ArchiveTypeOK' BY <1>0, <1>3, <2>1, <2>2 DEF ArchiveTypeOK
  <2> QED BY <1>3, <2>2, <2>3 DEF ArchiveTypes
<1>4. /\ daily \in [Days -> Seq(Record)] /\ monthly \in [Days -> Seq(Record)]
      /\ archBuf \in Seq(Record) /\ archived \in BOOLEAN /\ files \in [Hours -> Seq(Record)]
      /\ archPc # "idle" => pc = "idle"
      /\ archPc \notin {"idle", "hour", "month"} => archTodo # {}
  BY <1>0 DEF ArchiveTypes, ArchiveTypeOK, TypeOK
<1>empty. <<>> \in Seq(Record) OBVIOUS
<1>5. CASE Tick
  <2>1. TypeOK' BY <1>0, <1>5, StepTypeOK DEF Tick
  <2>2. now' \in 0..MaxNow BY <1>5, AgesAssumption DEF Tick, ArchiveTypes, ArchiveTypeOK
  <2> QED BY <1>5, <2>1, <2>2 DEF Tick, ArchiveTypes, ArchiveTypeOK, poolVars, CurDay
<1>6. CASE ArchiveBegin BY <1>3, <1>4, <1>6 DEF ArchiveBegin, Quiet
<1>7. CASE ArchiveSkip BY <1>0, <1>3, <1>4, <1>7 DEF ArchiveSkip
<1>8. CASE ArchiveRead
  <2>1. daily[CurDay] \o files[CurArch] \in Seq(Record) BY <1>2, <1>4, <1>8 DEF ArchiveRead
  <2> QED BY <1>0, <1>3, <1>4, <1>8, <2>1 DEF ArchiveRead
<1>9. CASE ArchiveCreate
  <2>1. daily' \in [Days -> Seq(Record)] BY <1>4, <1>9, <1>empty DEF ArchiveCreate
  <2> QED BY <1>0, <1>3, <1>4, <1>9, <2>1 DEF ArchiveCreate
<1>10. CASE ArchiveWrite
  <2>1. daily' \in [Days -> Seq(Record)] BY <1>4, <1>10 DEF ArchiveWrite
  <2> QED BY <1>0, <1>3, <1>4, <1>10, <2>1 DEF ArchiveWrite
<1>11. CASE ArchiveDigest
  <2>1. archTodo # {} /\ CurDay \in Days BY <1>2, <1>4, <1>11 DEF ArchiveDigest
  <2>2. DOMAIN digests' = {CurDay} \cup DOMAIN digests BY <1>11 DEF ArchiveDigest
  <2>3. TypeOK' BY <1>0, <1>11, StepTypeOK DEF ArchiveDigest
  <2>4. /\ meta' = meta /\ diskMeta' = diskMeta /\ diskRegistry' = diskRegistry /\ pc' = pc
        /\ now' = now /\ daily' = daily /\ monthly' = monthly /\ digested' = digested
        /\ diskDigested' = diskDigested /\ stale' = stale /\ cut' = cut /\ archPc = "digest"
        /\ archPc' = "index" /\ archBuf' = <<>> /\ archTodo' = archTodo
        /\ archived' = archived /\ archCrashes' = archCrashes
    BY <1>11 DEF ArchiveDigest, poolVars
  <2>5. ArchiveTypeOK' BY <1>0, <1>4, <2>1, <2>2, <2>3, <2>4 DEF ArchiveTypeOK
  <2>6. CurDay' = CurDay BY <2>4 DEF CurDay
  <2> QED BY <1>4, <2>2, <2>4, <2>5, <2>6 DEF ArchiveTypes
<1>12. ASSUME NEW t \in {"daily", "monthly"}, archTodo # {}, pc = "idle", UpdateTier(CurArch, t),
              UNCHANGED <<files, registry, diskMeta, diskRegistry, callVars, pushes, now,
                          archFiles, diskDigested, archBuf, archived, stale, cut, archCrashes>>,
              digested' = digested \/ (meta.tier[CurArch] # "none" /\ CurDay \in DOMAIN digests
                                       /\ digested' = digested \cup {CurArch}),
              archPc' \in {"remove", "month"}, archTodo' \subseteq Hours,
              archPc' = "remove" => archTodo' # {}
       PROVE  ArchiveTypes'
  <2>1. /\ meta' \in Meta /\ chan' \in Seq(Notification) /\ lagged' \in BOOLEAN
        /\ \A k \in Hours : meta'.tier[k] =
              IF k = CurArch /\ meta.tier[CurArch] # "none" THEN t ELSE meta.tier[k]
    BY <1>0, <1>2, <1>12, UpdateTierIs DEF Tiers
  <2>2. /\ files' = files /\ registry' = registry /\ diskMeta' = diskMeta /\ pc' = pc
        /\ diskRegistry' = diskRegistry /\ todo' = todo /\ byHour' = byHour
        /\ affected' = affected /\ buf' = buf /\ cur' = cur /\ pushes' = pushes
        /\ daily' = daily /\ monthly' = monthly /\ digests' = digests
    BY <1>12 DEF callVars
  <2>3. TypeOK' BY <1>0, <2>1, <2>2 DEF TypeOK
  <2>4. /\ digested' \subseteq Hours
        /\ \A h \in digested' : meta'.tier[h] \in {"daily", "monthly"} /\ DayOf(h) \in DOMAIN digests
    BY <1>0, <1>2, <1>12, <2>1 DEF ArchiveTypeOK
  <2>5. ArchiveTypeOK' BY <1>0, <1>4, <1>12, <2>2, <2>3, <2>4 DEF ArchiveTypeOK
  <2> QED BY <1>12, <2>2, <2>5 DEF ArchiveTypes
<1>13. CASE ArchiveIndex
  <2>1. CurDay \in DOMAIN digests /\ archTodo # {} /\ pc = "idle"
    BY <1>4, <1>13 DEF ArchiveIndex, ArchiveTypes
  <2> QED BY <1>0, <1>12, <1>13, <2>1 DEF ArchiveIndex
<1>14. CASE MonthlyIndex BY <1>0, <1>4, <1>12, <1>14 DEF MonthlyIndex
<1>15. CASE ArchiveRemove
  <2>1. archTodo # {} /\ CurArch \in Hours /\ pc = "idle" BY <1>2, <1>4, <1>15 DEF ArchiveRemove
  <2>2. files' \in [Hours -> Seq(Record)] BY <1>4, <1>15, <2>1 DEF ArchiveRemove
  <2>3. TypeOK' BY <1>0, <1>15, <2>2 DEF ArchiveRemove, TypeOK, callVars, chanVars
  <2> QED BY <1>0, <1>4, <1>15, <2>1, <2>3 DEF ArchiveRemove, ArchiveTypeOK, ArchiveTypes, callVars
<1>16. CASE ArchiveMonths BY <1>3, <1>4, <1>16 DEF ArchiveMonths
<1>17. CASE MonthlySkip BY <1>0, <1>3, <1>4, <1>17 DEF MonthlySkip
<1>18. CASE MonthlyRead
  <2>1. daily[CurDay] \in Seq(Record) BY <1>2, <1>4, <1>18 DEF MonthlyRead
  <2> QED BY <1>0, <1>3, <1>4, <1>18, <2>1 DEF MonthlyRead
<1>19. CASE MonthlyCreate
  <2>1. monthly' \in [Days -> Seq(Record)] BY <1>4, <1>19, <1>empty DEF MonthlyCreate
  <2> QED BY <1>0, <1>3, <1>4, <1>19, <2>1 DEF MonthlyCreate
<1>20. CASE MonthlyWrite
  <2>1. monthly' \in [Days -> Seq(Record)] BY <1>4, <1>20 DEF MonthlyWrite
  <2> QED BY <1>0, <1>3, <1>4, <1>20, <2>1 DEF MonthlyWrite
<1>21. CASE ArchiveSave
  <2>1. TypeOK' BY <1>0, <1>21 DEF ArchiveSave, TypeOK, callVars, chanVars
  <2>2. diskMeta' \in Meta /\ diskRegistry' \in Registry /\ pc' = pc /\ archPc' = "idle"
    BY <1>0, <1>21 DEF ArchiveSave, ArchiveTypes, TypeOK, callVars
  <2>3. \A h \in diskDigested' :
           diskMeta'.tier[h] \in {"daily", "monthly"} /\ DayOf(h) \in DOMAIN digests
    BY <1>0, <1>21 DEF ArchiveSave, ArchiveTypes, ArchiveTypeOK
  <2>4. ArchiveTypeOK' BY <1>0, <1>21, <2>1 DEF ArchiveSave, ArchiveTypeOK
  <2> QED BY <1>21, <2>2, <2>3, <2>4 DEF ArchiveSave, ArchiveTypes
<1>22. CASE ArchiveCrash
  <2>disk. diskMeta \in Meta /\ diskRegistry \in Registry /\ <<>> \in Seq(Notification)
    BY DEF ArchiveTypes
  <2>1. TypeOK' BY <1>0, <1>22, <2>disk DEF ArchiveCrash, TypeOK, callVars
  <2>2. cut' \subseteq Days
    <3>1. archPc \notin {"idle", "hour", "month"} => CurDay \in Days BY <1>2, <1>4
    <3>2. {DayOf(h) : h \in {h \in Hours : diskMeta.tier[h] # meta.tier[h]}} \subseteq Days
      BY DEF Days
    <3> QED BY <1>0, <1>22, <3>1, <3>2 DEF ArchiveCrash, ArchiveTypeOK
  <2>3. archCrashes' \in 0..MaxArchCrashes
    BY <1>0, <1>22, AgesAssumption DEF ArchiveCrash, ArchiveTypeOK
  <2>4. /\ meta' = diskMeta /\ diskMeta' = diskMeta /\ diskRegistry' = diskRegistry
        /\ digested' = diskDigested /\ diskDigested' = diskDigested /\ now' = now
        /\ daily' = daily /\ monthly' = monthly /\ digests' = digests /\ stale' = stale
        /\ archPc' = "idle" /\ archTodo' = {} /\ archBuf' = <<>> /\ archived' = FALSE
    BY <1>22 DEF ArchiveCrash
  <2>5. /\ diskDigested \subseteq Hours
        /\ \A h \in diskDigested :
              diskMeta.tier[h] \in {"daily", "monthly"} /\ DayOf(h) \in DOMAIN digests
        /\ diskMeta \in Meta /\ diskRegistry \in Registry
    BY <1>0 DEF ArchiveTypes, ArchiveTypeOK
  <2>6. archTodo' \subseteq Hours /\ archBuf' \in Seq(Record) /\ archived' \in BOOLEAN BY <2>4, <1>empty
  <2>7. now' \in 0..MaxNow /\ daily' \in [Days -> Seq(Record)] /\ monthly' \in [Days -> Seq(Record)]
        /\ DOMAIN digests' \subseteq Days /\ stale' \subseteq Hours
    BY <1>0, <2>4 DEF ArchiveTypeOK
  <2>8. \A h \in digested' : meta'.tier[h] \in {"daily", "monthly"} /\ DayOf(h) \in DOMAIN digests'
    BY <2>4, <2>5
  <2>9. digested' \subseteq Hours /\ diskDigested' \subseteq Hours BY <2>4, <2>5
  <2>10. ArchiveTypeOK' BY <2>1, <2>2, <2>3, <2>4, <2>6, <2>7, <2>8, <2>9 DEF ArchiveTypeOK
  <2> QED BY <2>4, <2>5, <2>10 DEF ArchiveTypes
<1>23. CASE UNCHANGED archVars
  BY <1>0, <1>23 DEF archVars, poolVars, ArchiveTypes, ArchiveTypeOK, TypeOK, CurDay
<1>24. (PushNow \/ Push) => PoolNext BY DEF PushNow, Push, PoolNext
<1> QED
  BY <1>1, <1>5, <1>6, <1>7, <1>8, <1>9, <1>10, <1>11, <1>13, <1>14, <1>15, <1>16, <1>17, <1>18,
     <1>19, <1>20, <1>21, <1>22, <1>23, <1>24 DEF ArchiveNext, ArchiveStep

\* Type correctness of the archive, its digests and its index, crashes included.
THEOREM ArchiveTypeCorrect == ArchiveSpec => []ArchiveTypeOK
<1>1. ArchiveInit => ArchiveTypes BY InitArchiveTypes
<1>2. ArchiveTypes /\ [ArchiveNext]_archVars => ArchiveTypes' BY StepArchiveTypes
<1>3. ArchiveTypes => ArchiveTypeOK BY DEF ArchiveTypes
<1> QED BY <1>1, <1>2, <1>3, PTL DEF ArchiveSpec

-----------------------------------------------------------------------------
(* The invariants.  A pass truncates a file before it writes it, and moves an *)
(* hour into its day before the index says so.  They speak of what each file  *)
(* is about to hold, and take the hour for moved when its day file is opened. *)

\* The day files of the two archive tiers, when a write under way is done.
DayFile(d)   == IF archPc = "write"      /\ d = CurDay THEN archBuf ELSE daily[d]
MonthFile(d) == IF archPc = "monthWrite" /\ d = CurDay THEN archBuf ELSE monthly[d]

\* The hour being moved; until the index is told, its tier is the one it had.
Moved(h)   == archPc \in {"write", "digest", "index", "remove"} /\ h = CurArch
Untold(h)  == archPc \in {"write", "digest", "index"} /\ h = CurArch

\* The records of an hour that no day file holds.
Waiting(h) == IF Moved(h) THEN <<>> ELSE Content(h)

\* What run_archive's locals say.
ArchiveControl ==
    /\ archPc \in {"hour", "create", "write", "digest", "index", "remove"} =>
           \A h \in archTodo : files[h] # <<>>
    /\ archPc = "create" => archBuf = daily[CurDay] \o files[CurArch]
    /\ archPc \in {"monthCreate", "monthWrite"} => archBuf = daily[CurDay]
    /\ archPc = "monthIndex" => monthly[CurDay] = daily[CurDay]
    /\ pc \in {"idle", "notify"} => diskRegistry = registry

\* NothingLost, at every control point.
Somewhere ==
    \A u \in Uids :
        LET h == HourOf[u]
        IN  \/ Restored[u] = "none" \/ DayOf(h) \in cut
            \/ u \in UidsIn(Waiting(h)) \cup UidsIn(byHour[h]) \cup UidsIn(DayFile(DayOf(h)))

\* The uids that are registered and no longer waiting.
Away == {u \in Uids : /\ Restored[u] # "none"
                      /\ u \notin UidsIn(Waiting(HourOf[u])) \cup UidsIn(byHour[HourOf[u]])}

\* A day file f holds, of hour h, the uids A and no other, once, and with the class
\* they are registered with in R.
Archives(f, h, R, A) ==
    /\ \A i, j \in DOMAIN f : f[i].uid = f[j].uid /\ HourOf[f[i].uid] = h => i = j
    /\ \A i \in DOMAIN f : HourOf[f[i].uid] = h => R[f[i].uid] = f[i].class
    /\ \A u \in Uids : HourOf[u] = h => (u \in UidsIn(f) <=> u \in A)

\* An hour no replacement has missed and no crash has cut, and what it owes.
Clean(h) == h \notin stale /\ DayOf(h) \notin cut

HourInv(h) ==
    /\ Archives(DayFile(DayOf(h)), h, Restored, Away)
    /\ meta.tier[h] = "monthly" /\ ~Untold(h) => Archives(MonthFile(DayOf(h)), h, Restored, Away)
    /\ meta.tier[h] \in {"none", "active"} /\ ~Untold(h) =>
          \A u \in UidsIn(DayFile(DayOf(h))) : HourOf[u] # h
    /\ Content(h) # <<>> /\ ~AtIndex(h) => meta.tier[h] # "none"

ArchiveInv == CInv /\ \A h \in Hours : Clean(h) => HourInv(h)

-----------------------------------------------------------------------------
(* The steps of a pass, by what they do to the files of one hour *)

Pass == Tick \/ ArchiveBegin \/ ArchiveStep \/ ArchiveCrash

\* No push is under way while the clock ticks, a pass works or the process dies, and
\* the registry stays what it is.
LEMMA PassIsQuiet ==
    ASSUME ArchiveTypes, Control, ArchiveControl, Pass
    PROVE  /\ pc = "idle" /\ todo = <<>> /\ byHour = NoFiles
           /\ pc' = "idle" /\ todo' = todo /\ byHour' = byHour
           /\ registry' = registry /\ diskRegistry' = registry /\ stale' = stale
           /\ Restored = registry /\ Restored' = registry
           /\ \A h \in Hours : Content(h) = files[h] /\ Content(h)' = files'[h]
           /\ files' = IF ArchiveRemove THEN [files EXCEPT ![CurArch] = <<>>] ELSE files
           /\ ~ArchiveCrash => cut' = cut
           /\ meta' = meta \/ ArchiveIndex \/ MonthlyIndex \/ ArchiveCrash
<1> USE DEF poolVars, callVars, storeVars, archFiles, archCall
<1>1. pc = "idle"
  <2>1. CASE Tick \/ ArchiveBegin \/ ArchiveCrash
    BY <2>1 DEF Tick, ArchiveBegin, Quiet, ArchiveCrash
  <2>2. CASE ArchiveStep
    <3>1. archPc # "idle"
      BY <2>2 DEF ArchiveStep, ArchiveSkip, ArchiveRead, ArchiveCreate, ArchiveWrite,
         ArchiveDigest, ArchiveIndex, ArchiveRemove, ArchiveMonths, MonthlySkip, MonthlyRead,
         MonthlyCreate, MonthlyWrite, MonthlyIndex, ArchiveSave
    <3> QED BY <3>1 DEF ArchiveTypes
  <2> QED BY <2>1, <2>2 DEF Pass
<1>2. todo = <<>> /\ byHour = NoFiles /\ diskRegistry = registry
  BY <1>1 DEF Control, ArchiveControl
<1>3. /\ pc' = pc /\ todo' = todo /\ byHour' = byHour /\ registry' = registry
      /\ diskRegistry' = diskRegistry /\ stale' = stale
      /\ ~ArchiveRemove => files' = files
      /\ ~ArchiveCrash => cut' = cut
      /\ meta' = meta \/ ArchiveIndex \/ MonthlyIndex \/ ArchiveCrash
  <2>1. CASE Tick \/ ArchiveBegin BY <2>1 DEF Tick, ArchiveBegin
  <2>2. CASE ArchiveCrash BY <1>2, <2>2 DEF ArchiveCrash
  <2>3. CASE ArchiveSkip \/ ArchiveRead \/ ArchiveCreate \/ ArchiveWrite \/ ArchiveDigest
    BY <2>3 DEF ArchiveSkip, ArchiveRead, ArchiveCreate, ArchiveWrite, ArchiveDigest
  <2>4. CASE ArchiveIndex \/ ArchiveRemove \/ MonthlyIndex \/ ArchiveSave
    BY <2>4 DEF ArchiveIndex, ArchiveRemove, MonthlyIndex, ArchiveSave
  <2>5. CASE ArchiveMonths \/ MonthlySkip \/ MonthlyRead \/ MonthlyCreate \/ MonthlyWrite
    BY <2>5 DEF ArchiveMonths, MonthlySkip, MonthlyRead, MonthlyCreate, MonthlyWrite
  <2> QED BY <2>1, <2>2, <2>3, <2>4, <2>5 DEF Pass, ArchiveStep
<1>4. ArchiveRemove => files' = [files EXCEPT ![CurArch] = <<>>] BY DEF ArchiveRemove
<1>5. \A h \in Hours : Content(h) = files[h] /\ Content(h)' = files'[h]
  BY <1>1, <1>3 DEF Content
<1>6. Restored = registry /\ Restored' = registry BY <1>1, <1>3 DEF Restored
<1> QED BY <1>1, <1>2, <1>3, <1>4, <1>5, <1>6

\* What a step may leave of an hour as it is.
SameDay(h)   == DayFile(DayOf(h))' = DayFile(DayOf(h))
SameMonth(h) == MonthFile(DayOf(h))' = MonthFile(DayOf(h))
SameTier(h)  == meta'.tier[h] = meta.tier[h] /\ (Untold(h)' <=> Untold(h))
SameRest(h)  == Waiting(h)' = Waiting(h)

\* The hour is moved into its day, the index is told, the month's copy is written
\* and the index told of that.
Moves(h) ==
    /\ DayOf(h) = CurDay /\ CurArch \in Hours /\ ~Moved(CurArch) /\ SameMonth(h)
    /\ DayFile(DayOf(h))' = DayFile(DayOf(h)) \o files[CurArch]
    /\ IF h = CurArch THEN Waiting(h)' = <<>> /\ Untold(h)' ELSE SameRest(h) /\ SameTier(h)
    /\ meta'.tier[h] = meta.tier[h]

Tells(h) ==
    /\ files[h] # <<>> /\ Untold(h) /\ ~Untold(h)'
    /\ SameDay(h) /\ SameMonth(h) /\ SameRest(h)
    /\ meta'.tier[h] = IF meta.tier[h] = "none" THEN "none" ELSE "daily"

Copies(h) == /\ MonthFile(DayOf(h))' = DayFile(DayOf(h))
             /\ SameDay(h) /\ SameTier(h) /\ SameRest(h)

TellsMonth(h) ==
    /\ MonthFile(DayOf(h)) = DayFile(DayOf(h)) /\ ~Untold(h) /\ ~Untold(h)'
    /\ SameDay(h) /\ SameMonth(h) /\ SameRest(h)
    /\ meta'.tier[h] = IF meta.tier[h] = "none" THEN "none" ELSE "monthly"

LEMMA PassSteps ==
    ASSUME ArchiveTypes, Control, ArchiveControl, Pass, NEW h \in Hours, DayOf(h) \notin cut'
    PROVE  \/ SameDay(h) /\ SameMonth(h) /\ SameTier(h) /\ SameRest(h)
           \/ ArchiveCreate /\ Moves(h)
           \/ Tells(h) \/ Copies(h) \/ TellsMonth(h)
<1>0. /\ ArchiveTypeOK /\ TypeOK /\ archTodo \subseteq Hours
      /\ daily \in [Days -> Seq(Record)] /\ monthly \in [Days -> Seq(Record)]
      /\ archPc \notin {"idle", "hour", "month"} => archTodo # {}
      /\ files \in [Hours -> Seq(Record)]
  BY DEF ArchiveTypes, ArchiveTypeOK, TypeOK
<1>1. /\ \A k \in Hours : Content(k) = files[k] /\ Content(k)' = files'[k]
      /\ files' = IF ArchiveRemove THEN [files EXCEPT ![CurArch] = <<>>] ELSE files
      /\ meta' = meta \/ ArchiveIndex \/ MonthlyIndex \/ ArchiveCrash
      /\ ~ArchiveCrash => cut' = cut
  BY PassIsQuiet
<1>2. ASSUME archTodo # {}
      PROVE  /\ CurArch \in archTodo /\ CurArch \in Hours
             /\ CurDay = DayOf(CurArch) /\ CurDay \in Days
  BY <1>0, <1>2, CurArchIs
<1>3. DayOf(h) \in Days BY DEF Days
<1> DEFINE d == DayOf(h)
<1> USE DEF archFiles, archCall
<1>4. CASE Tick \/ ArchiveBegin \/ ArchiveSkip \/ ArchiveRead \/ ArchiveMonths \/ MonthlySkip
           \/ MonthlyRead \/ ArchiveSave
  <2>1. /\ archPc \in {"idle", "hour", "month"} /\ archPc' \in {"idle", "hour", "create", "month", "monthCreate"}
        /\ daily' = daily /\ monthly' = monthly /\ meta' = meta /\ ~ArchiveRemove
    BY <1>1, <1>4 DEF Tick, ArchiveBegin, ArchiveSkip, ArchiveRead, ArchiveMonths, MonthlySkip,
       MonthlyRead, ArchiveSave, Quiet, poolVars, ArchiveRemove
  <2>2. SameDay(h) /\ SameMonth(h) BY <2>1 DEF SameDay, SameMonth, DayFile, MonthFile
  <2>3. SameTier(h) /\ SameRest(h)
    BY <1>1, <2>1 DEF SameTier, SameRest, Untold, Waiting, Moved
  <2> QED BY <2>2, <2>3
<1>5. CASE ArchiveCreate
  <2>1. /\ archPc = "create" /\ archPc' = "write" /\ daily' = [daily EXCEPT ![CurDay] = <<>>]
        /\ monthly' = monthly /\ archTodo' = archTodo /\ archBuf' = archBuf /\ meta' = meta
        /\ archBuf = daily[CurDay] \o files[CurArch]
    BY <1>5 DEF ArchiveCreate, ArchiveControl, poolVars
  <2>2. /\ archTodo # {} /\ ~ArchiveRemove /\ CurArch' = CurArch /\ CurDay' = CurDay
    BY <1>0, <2>1 DEF ArchiveRemove, CurArch, CurDay
  <2>3. CurArch \in Hours /\ CurDay \in Days /\ CurDay = DayOf(CurArch) BY <1>2, <2>2
  <2>4. CASE d # CurDay
    <3>1. SameDay(h) /\ SameMonth(h)
      BY <1>0, <1>3, <2>1, <2>2, <2>3, <2>4 DEF SameDay, SameMonth, DayFile, MonthFile
    <3>2. h # CurArch BY <2>3, <2>4
    <3>3. SameTier(h) /\ SameRest(h)
      BY <1>1, <2>1, <2>2, <3>2 DEF SameTier, SameRest, Untold, Waiting, Moved
    <3> QED BY <3>1, <3>3
  <2>5. CASE d = CurDay
    <3>1. DayFile(d) = daily[CurDay] /\ DayFile(d)' = archBuf /\ SameMonth(h)
      BY <2>1, <2>2, <2>5 DEF DayFile, MonthFile, SameMonth
    <3>2. IF h = CurArch THEN Waiting(h)' = <<>> /\ Untold(h)' ELSE SameRest(h) /\ SameTier(h)
      BY <1>1, <2>1, <2>2 DEF SameTier, SameRest, Untold, Waiting, Moved
    <3>3. ~Moved(CurArch) BY <2>1 DEF Moved
    <3> QED BY <1>5, <2>1, <2>3, <2>5, <3>1, <3>2, <3>3 DEF Moves
  <2> QED BY <2>4, <2>5
<1>6. CASE ArchiveWrite \/ ArchiveDigest
  <2>1. /\ archPc \in {"write", "digest"} /\ archPc' \in {"digest", "index"} /\ monthly' = monthly
        /\ daily' = (IF archPc = "write" THEN [daily EXCEPT ![CurDay] = archBuf] ELSE daily)
        /\ archTodo' = archTodo /\ meta' = meta
    BY <1>6 DEF ArchiveWrite, ArchiveDigest, poolVars
  <2>2. /\ archTodo # {} /\ ~ArchiveRemove /\ CurArch' = CurArch /\ CurDay' = CurDay
    BY <1>0, <2>1 DEF ArchiveRemove, CurArch, CurDay
  <2>3. CurDay \in Days BY <1>2, <2>2
  <2>4. SameDay(h) /\ SameMonth(h)
    BY <1>0, <1>3, <2>1, <2>2, <2>3 DEF SameDay, SameMonth, DayFile, MonthFile
  <2>5. SameTier(h) /\ SameRest(h)
    BY <1>1, <2>1, <2>2 DEF SameTier, SameRest, Untold, Waiting, Moved
  <2> QED BY <2>4, <2>5
<1>7. CASE ArchiveIndex
  <2>1. /\ archPc = "index" /\ archPc' = "remove" /\ daily' = daily /\ monthly' = monthly
        /\ archTodo' = archTodo /\ UpdateTier(CurArch, "daily")
    BY <1>7 DEF ArchiveIndex
  <2>2. /\ archTodo # {} /\ ~ArchiveRemove /\ CurArch' = CurArch /\ CurDay' = CurDay
    BY <1>0, <2>1 DEF ArchiveRemove, CurArch, CurDay
  <2>3. \A k \in Hours : meta'.tier[k] =
            IF k = CurArch /\ meta.tier[CurArch] # "none" THEN "daily" ELSE meta.tier[k]
    BY <1>0, <1>2, <2>1, <2>2, UpdateTierIs DEF Tiers
  <2>4. SameDay(h) /\ SameMonth(h) BY <2>1 DEF SameDay, SameMonth, DayFile, MonthFile
  <2>5. SameRest(h) BY <1>1, <2>1, <2>2 DEF SameRest, Waiting, Moved
  <2>6. CASE h # CurArch
    <3>1. SameTier(h) BY <2>2, <2>3, <2>6 DEF SameTier, Untold
    <3> QED BY <2>4, <2>5, <3>1
  <2>7. CASE h = CurArch
    <3>1. files[h] # <<>> BY <1>2, <2>1, <2>2, <2>7 DEF ArchiveControl
    <3>2. Untold(h) /\ ~Untold(h)' BY <2>1, <2>7 DEF Untold
    <3> QED BY <2>3, <2>4, <2>5, <2>7, <3>1, <3>2 DEF Tells
  <2> QED BY <2>6, <2>7
<1>8. CASE ArchiveRemove
  <2>1. /\ archPc = "remove" /\ archPc' = "hour" /\ daily' = daily /\ monthly' = monthly
        /\ files' = [files EXCEPT ![CurArch] = <<>>] /\ meta' = meta
    BY <1>8, <1>1 DEF ArchiveRemove
  <2>2. CurArch \in Hours BY <1>0, <1>2, <2>1
  <2>3. SameDay(h) /\ SameMonth(h) BY <2>1 DEF SameDay, SameMonth, DayFile, MonthFile
  <2>4. SameTier(h) BY <2>1 DEF SameTier, Untold
  <2>5. SameRest(h) BY <1>0, <1>1, <2>1, <2>2 DEF SameRest, Waiting, Moved
  <2> QED BY <2>3, <2>4, <2>5
<1>9. CASE MonthlyCreate
  <2>1. /\ archPc = "monthCreate" /\ archPc' = "monthWrite" /\ daily' = daily
        /\ monthly' = [monthly EXCEPT ![CurDay] = <<>>] /\ meta' = meta
        /\ archTodo' = archTodo /\ archBuf' = archBuf /\ archBuf = daily[CurDay]
    BY <1>9 DEF MonthlyCreate, ArchiveControl, poolVars
  <2>2. /\ archTodo # {} /\ ~ArchiveRemove /\ CurArch' = CurArch /\ CurDay' = CurDay
    BY <1>0, <2>1 DEF ArchiveRemove, CurArch, CurDay
  <2>3. SameDay(h) BY <2>1 DEF SameDay, DayFile
  <2>4. SameTier(h) /\ SameRest(h)
    BY <1>1, <2>1, <2>2 DEF SameTier, SameRest, Untold, Waiting, Moved
  <2>5. CASE d # CurDay
    <3>1. SameMonth(h) BY <1>0, <1>3, <2>1, <2>2, <2>5 DEF SameMonth, MonthFile
    <3> QED BY <2>3, <2>4, <3>1
  <2>6. CASE d = CurDay
    <3>1. MonthFile(d)' = DayFile(d) BY <2>1, <2>2, <2>6 DEF MonthFile, DayFile
    <3> QED BY <2>3, <2>4, <3>1 DEF Copies
  <2> QED BY <2>5, <2>6
<1>10. CASE MonthlyWrite
  <2>1. /\ archPc = "monthWrite" /\ archPc' = "monthIndex" /\ daily' = daily
        /\ monthly' = [monthly EXCEPT ![CurDay] = archBuf] /\ meta' = meta
        /\ archTodo' = archTodo
    BY <1>10 DEF MonthlyWrite, poolVars
  <2>2. /\ archTodo # {} /\ ~ArchiveRemove /\ CurArch' = CurArch /\ CurDay' = CurDay
    BY <1>0, <2>1 DEF ArchiveRemove, CurArch, CurDay
  <2>3. CurDay \in Days BY <1>2, <2>2
  <2>4. SameDay(h) BY <2>1 DEF SameDay, DayFile
  <2>5. SameMonth(h) BY <1>0, <1>3, <2>1, <2>2, <2>3 DEF SameMonth, MonthFile
  <2>6. SameTier(h) /\ SameRest(h)
    BY <1>1, <2>1, <2>2 DEF SameTier, SameRest, Untold, Waiting, Moved
  <2> QED BY <2>4, <2>5, <2>6
<1>11. CASE MonthlyIndex
  <2>1. /\ archPc = "monthIndex" /\ archPc' = "month" /\ daily' = daily /\ monthly' = monthly
        /\ UpdateTier(CurArch, "monthly") /\ monthly[CurDay] = daily[CurDay]
    BY <1>11 DEF MonthlyIndex, ArchiveControl
  <2>2. archTodo # {} /\ ~ArchiveRemove BY <1>0, <2>1 DEF ArchiveRemove
  <2>3. \A k \in Hours : meta'.tier[k] =
            IF k = CurArch /\ meta.tier[CurArch] # "none" THEN "monthly" ELSE meta.tier[k]
    BY <1>0, <1>2, <2>1, <2>2, UpdateTierIs DEF Tiers
  <2>4. SameDay(h) /\ SameMonth(h) BY <2>1 DEF SameDay, SameMonth, DayFile, MonthFile
  <2>5. SameRest(h) /\ ~Untold(h) /\ ~Untold(h)'
    BY <1>1, <2>1, <2>2 DEF SameRest, Waiting, Moved, Untold
  <2>6. CASE h # CurArch
    <3>1. SameTier(h) BY <2>3, <2>5, <2>6 DEF SameTier
    <3> QED BY <2>4, <2>5, <3>1
  <2>7. CASE h = CurArch
    <3>1. d = CurDay BY <1>2, <2>2, <2>7
    <3>2. MonthFile(d) = DayFile(d) BY <2>1, <3>1 DEF MonthFile, DayFile
    <3> QED BY <2>3, <2>4, <2>5, <2>7, <3>2 DEF TellsMonth
  <2> QED BY <2>6, <2>7
<1>12. CASE ArchiveCrash
  <2>1. /\ archPc' = "idle" /\ daily' = daily /\ monthly' = monthly /\ meta' = diskMeta
        /\ files' = files
        /\ cut' = cut \cup {DayOf(k) : k \in {k \in Hours : diskMeta.tier[k] # meta.tier[k]}}
                      \cup (IF archPc \in {"idle", "hour", "month"} THEN {} ELSE {CurDay})
    BY <1>12 DEF ArchiveCrash
  <2>2. diskMeta.tier[h] = meta.tier[h] BY <2>1
  <2>3. archPc \notin {"idle", "hour", "month"} => d # CurDay /\ h # CurArch
    BY <1>0, <1>2, <2>1
  <2>4. SameDay(h) /\ SameMonth(h)
    BY <2>1, <2>3 DEF SameDay, SameMonth, DayFile, MonthFile
  <2>5. SameTier(h) /\ SameRest(h)
    BY <1>1, <2>1, <2>2, <2>3 DEF SameTier, SameRest, Untold, Waiting, Moved
  <2> QED BY <2>4, <2>5
<1> QED
  BY <1>4, <1>5, <1>6, <1>7, <1>8, <1>9, <1>10, <1>11, <1>12 DEF Pass, ArchiveStep

-----------------------------------------------------------------------------
(* The steps of a push, seen from the archive *)

LEMMA PushIsAlone ==
    ASSUME ArchiveTypes, PushNow \/ Push
    PROVE  /\ PoolNext /\ archPc = "idle" /\ archPc' = "idle" /\ cut' = cut /\ stale \subseteq stale'
           /\ stale' = IF ReplaceAppend /\ meta.tier[CurHour] \in {"daily", "monthly"}
                       THEN stale \cup {CurHour} ELSE stale
           /\ \A h : /\ ~Moved(h) /\ ~Moved(h)' /\ ~Untold(h) /\ ~Untold(h)'
                    /\ Waiting(h) = Content(h) /\ Waiting(h)' = Content(h)'
           /\ \A d : /\ DayFile(d) = daily[d] /\ DayFile(d)' = daily[d]
                    /\ MonthFile(d) = monthly[d] /\ MonthFile(d)' = monthly[d]
<1> USE DEF archCall, archFiles
<1>1. PoolNext BY DEF PushNow, Push, PoolNext
<1>2. archPc = "idle"
  BY DEF ArchiveTypes, PushNow, Push, PushStep, ApplyPush, ApplyReplace, ApplySkip,
     ReplaceRead, ReplaceCreate, ReplaceRewrite, ReplaceAppend, Register, WriteLogs,
     EnsureIndex, SaveMeta, SaveRegistry, Notify
<1>3. /\ archPc' = archPc /\ cut' = cut /\ daily' = daily /\ monthly' = monthly
  BY DEF PushNow, Push
<1>4. stale' = IF ReplaceAppend /\ meta.tier[CurHour] \in {"daily", "monthly"}
               THEN stale \cup {CurHour} ELSE stale
  <2>1. CASE PushNow BY <2>1 DEF PushNow, PushBegin, ReplaceAppend
  <2>2. CASE Push
    <3>1. pc = "append" <=> ReplaceAppend
      BY <2>2 DEF Push, PushStep, ApplyPush, ApplyReplace, ApplySkip, ReplaceRead, ReplaceCreate,
         ReplaceRewrite, ReplaceAppend, Register, WriteLogs, EnsureIndex, SaveMeta, SaveRegistry,
         Notify
    <3> QED BY <2>2, <3>1 DEF Push
  <2> QED BY <2>1, <2>2
<1> QED BY <1>1, <1>2, <1>3, <1>4 DEF Moved, Untold, Waiting, DayFile, MonthFile

LEMMA StepArchiveControl ==
    ASSUME ArchiveTypes, Control, ArchiveControl, [ArchiveNext]_archVars
    PROVE  Control' /\ ArchiveControl'
<1>0. /\ ArchiveTypeOK /\ TypeOK /\ archTodo \subseteq Hours
      /\ daily \in [Days -> Seq(Record)] /\ monthly \in [Days -> Seq(Record)]
      /\ files \in [Hours -> Seq(Record)]
      /\ archPc \notin {"idle", "hour", "month"} => archTodo # {}
  BY DEF ArchiveTypes, ArchiveTypeOK, TypeOK
<1> USE DEF archCall, archFiles, storeVars, callVars, chanVars
<1>1. CASE PushNow \/ Push
  <2>1. PoolNext /\ archPc = "idle" /\ archPc' = "idle" BY <1>1, PushIsAlone
  <2>2. Control' BY <1>0, <2>1, StepControl
  <2>3. pc' \in {"idle", "notify"} => diskRegistry' = registry'
    <3>1. CASE SaveRegistry \/ Notify
      BY <3>1 DEF SaveRegistry, Notify, ArchiveControl
    <3>2. CASE ~SaveRegistry /\ ~Notify
      BY <2>1, <3>2 DEF PoolNext, PushStep, PushBegin, ApplyPush, ApplyReplace, ApplySkip,
         ReplaceRead, ReplaceCreate, ReplaceRewrite, ReplaceAppend, Register, WriteLogs,
         EnsureIndex, SaveMeta
    <3> QED BY <3>1, <3>2
  <2> QED BY <2>1, <2>2, <2>3 DEF ArchiveControl
<1>2. CASE Pass
  <2>1. /\ pc = "idle" /\ todo = <<>> /\ byHour = NoFiles
        /\ pc' = "idle" /\ todo' = todo /\ byHour' = byHour
        /\ registry' = registry /\ diskRegistry' = registry
        /\ files' = IF ArchiveRemove THEN [files EXCEPT ![CurArch] = <<>>] ELSE files
    BY <1>2, PassIsQuiet
  <2>2. Control' BY <2>1 DEF Control
  <2>3. archTodo # {} => CurArch \in archTodo /\ CurArch \in Hours /\ CurDay \in Days
    BY <1>0, CurArchIs
  <2>4. ASSUME archTodo' = archTodo PROVE CurArch' = CurArch /\ CurDay' = CurDay
    BY <2>4 DEF CurArch, CurDay
  <2>5. CASE Tick
    <3>1. /\ archPc' = archPc /\ archPc = "idle" BY <2>5 DEF Tick, Quiet
    <3> QED BY <2>1, <2>2, <3>1 DEF ArchiveControl
  <2>6. CASE ArchiveBegin \/ ArchiveSkip
    <3>1. /\ archPc' = "hour" /\ ~ArchiveRemove /\ \A h \in archTodo' : files[h] # <<>>
      BY <2>6 DEF ArchiveBegin, ArchiveSkip, ArchiveRemove, ArchiveControl, Quiet
    <3> QED BY <2>1, <2>2, <3>1 DEF ArchiveControl
  <2>7. CASE ArchiveRead
    <3>1. /\ archPc = "hour" /\ archPc' = "create" /\ archTodo' = archTodo /\ daily' = daily
          /\ archBuf' = daily[CurDay] \o files[CurArch]
      BY <2>7 DEF ArchiveRead
    <3>2. ~ArchiveRemove BY <3>1 DEF ArchiveRemove
    <3> QED BY <2>1, <2>2, <2>4, <3>1, <3>2 DEF ArchiveControl
  <2>8. CASE ArchiveCreate \/ ArchiveWrite \/ ArchiveDigest \/ ArchiveIndex
    <3>1. /\ archPc \in {"create", "write", "digest", "index"}
          /\ archPc' \in {"write", "digest", "index", "remove"}
          /\ archTodo' = archTodo
      BY <2>8 DEF ArchiveCreate, ArchiveWrite, ArchiveDigest, ArchiveIndex
    <3>2. ~ArchiveRemove BY <3>1 DEF ArchiveRemove
    <3> QED BY <2>1, <2>2, <3>1, <3>2 DEF ArchiveControl
  <2>9. CASE ArchiveRemove
    <3>1. /\ archPc = "remove" /\ archPc' = "hour" /\ archTodo' = archTodo \ {CurArch}
      BY <2>9 DEF ArchiveRemove
    <3>2. CurArch \in Hours BY <1>0, <2>3, <3>1
    <3>3. \A h \in archTodo' : files'[h] # <<>>
      BY <1>0, <2>1, <2>9, <3>1, <3>2 DEF ArchiveControl
    <3> QED BY <2>1, <2>2, <3>1, <3>3 DEF ArchiveControl
  <2>10. CASE ArchiveMonths \/ MonthlySkip \/ MonthlyIndex \/ ArchiveSave \/ ArchiveCrash
    <3>1. archPc' \in {"month", "idle"}
      BY <2>10 DEF ArchiveMonths, MonthlySkip, MonthlyIndex, ArchiveSave, ArchiveCrash
    <3> QED BY <2>1, <2>2, <3>1 DEF ArchiveControl
  <2>11. CASE MonthlyRead \/ MonthlyCreate
    <3>1. /\ archPc' \in {"monthCreate", "monthWrite"} /\ archTodo' = archTodo /\ daily' = daily
          /\ archBuf' = daily[CurDay]
      BY <2>11 DEF MonthlyRead, MonthlyCreate, ArchiveControl
    <3> QED BY <2>1, <2>2, <2>4, <3>1 DEF ArchiveControl
  <2>12. CASE MonthlyWrite
    <3>1. /\ archPc = "monthWrite" /\ archPc' = "monthIndex" /\ archTodo' = archTodo
          /\ daily' = daily /\ monthly' = [monthly EXCEPT ![CurDay] = archBuf]
          /\ archBuf = daily[CurDay]
      BY <2>12 DEF MonthlyWrite, ArchiveControl
    <3>2. monthly'[CurDay] = daily[CurDay] BY <1>0, <2>3, <3>1
    <3> QED BY <2>1, <2>2, <2>4, <3>1, <3>2 DEF ArchiveControl
  <2> QED BY <1>2, <2>5, <2>6, <2>7, <2>8, <2>9, <2>10, <2>11, <2>12 DEF Pass, ArchiveStep
<1>3. CASE UNCHANGED archVars
  <2>1. UNCHANGED poolVars BY <1>3 DEF archVars
  <2>2. Control' BY <1>0, <2>1, StepControl
  <2> QED BY <1>3, <2>1, <2>2 DEF archVars, poolVars, ArchiveControl, CurArch, CurDay
<1> QED BY <1>1, <1>2, <1>3 DEF ArchiveNext, Pass

LEMMA InitArchiveControl == ArchiveInit => Control /\ ArchiveControl
BY DEF ArchiveInit, Init, Control, ArchiveControl

-----------------------------------------------------------------------------
(* Nothing is lost *)

\* The exchange of a record in a file, however often the file holds its uid.
LEMMA ReplaceFirstKeepsUids ==
    ASSUME NEW f \in Seq(Record), NEW r \in Record, r.uid \in UidsIn(f)
    PROVE  UidsIn(ReplaceFirst(f, r)) = UidsIn(f)
<1> DEFINE H == Holds(f, r.uid)
           first == CHOOSE i \in H : \A j \in H : i <= j
<1>1. H \subseteq DOMAIN f /\ DOMAIN f \subseteq Nat /\ H # {} BY DEF Holds, UidsIn
<1> HIDE DEF H
<1>2. \E i \in H : \A j \in H : i <= j BY <1>1, LeastNumber
<1>3. first \in H BY <1>2
<1> HIDE DEF first
<1>4. first \in DOMAIN f /\ f[first].uid = r.uid BY <1>3 DEF H, Holds
<1>5. ReplaceFirst(f, r) = [f EXCEPT ![first] = r] BY DEF ReplaceFirst, H, first
<1>6. DOMAIN [f EXCEPT ![first] = r] = DOMAIN f
      /\ \A i \in DOMAIN f : [f EXCEPT ![first] = r][i].uid = f[i].uid
  BY <1>4
<1> QED BY <1>5, <1>6 DEF UidsIn

\* A push drops no uid from an hour, and registers none it does not queue.
LEMMA PushKeepsUids ==
    ASSUME TypeOK, Control, [PoolNext]_poolVars, NEW u \in Uids
    PROVE  /\ \A h \in Hours : UidsIn(Content(h)) \cup UidsIn(byHour[h])
                                 \subseteq UidsIn(Content(h)') \cup UidsIn(byHour'[h])
           /\ Restored'[u] # "none" => \/ Restored[u] # "none"
                                      \/ u \in UidsIn(byHour'[HourOf[u]])
<1>1. /\ Contents \in [Hours -> Seq(Record)] /\ byHour \in [Hours -> Seq(Record)]
      /\ Restored \in Registry
      /\ \A h \in Hours : Contents[h] = Content(h) /\ Contents'[h] = Content(h)'
  BY ContentsType DEF Contents
<1> DEFINE Keeps == \A h \in Hours : UidsIn(Contents[h]) \cup UidsIn(byHour[h])
                                        \subseteq UidsIn(Contents'[h]) \cup UidsIn(byHour'[h])
           News  == Restored'[u] # "none" => \/ Restored[u] # "none"
                                             \/ u \in UidsIn(byHour'[HourOf[u]])
<1>2. SUFFICES Keeps /\ News BY <1>1
<1>3. ASSUME todo # <<>>
      PROVE  /\ Current \in Record /\ CurHour \in Hours /\ CurHour = HourOf[Current.uid]
             /\ Current.uid \in Uids
  BY <1>3, CurrentType DEF CurHour, Current
<1>4. CASE (\E b \in Batches : Begins(b)) \/ Passes \/ Stays
  <2>1. Contents' = Contents /\ Restored' = Restored /\ byHour' = byHour
    BY <1>4 DEF Begins, Passes, Stays
  <2> QED BY <2>1
<1>5. CASE Queues
  <2>1. /\ todo # <<>> /\ Contents' = Contents
        /\ byHour' = [byHour EXCEPT ![CurHour] = Append(@, Current)]
        /\ Restored' = [Restored EXCEPT ![Current.uid] = Current.class]
    BY <1>5 DEF Queues, Registers
  <2>2. UidsIn(Append(byHour[CurHour], Current)) = UidsIn(byHour[CurHour]) \cup {Current.uid}
    BY <1>1, <1>3, <2>1, AppendUids
  <2>3. \A h \in Hours : byHour'[h] = IF h = CurHour THEN Append(byHour[CurHour], Current)
                                                    ELSE byHour[h]
    BY <1>1, <1>3, <2>1
  <2>4. \A h \in Hours : UidsIn(byHour'[h]) = IF h = CurHour
                                               THEN UidsIn(byHour[CurHour]) \cup {Current.uid}
                                               ELSE UidsIn(byHour[h])
    BY <2>2, <2>3
  <2>5. Keeps BY <2>1, <2>4
  <2>6. u # Current.uid => Restored'[u] = Restored[u] BY <1>1, <2>1 DEF Registry
  <2> QED BY <1>3, <2>1, <2>4, <2>5, <2>6
<1>6. CASE Exchanges \/ Adds
  <2>1. /\ todo # <<>> /\ byHour' = byHour /\ Restored[Current.uid] # "none"
        /\ Restored' = [Restored EXCEPT ![Current.uid] = Current.class]
    BY <1>6 DEF Exchanges, Adds, Registers
  <2>2. News BY <1>1, <2>1 DEF Registry
  <2>3. \E f : Contents' = [Contents EXCEPT ![CurHour] = f] /\ UidsIn(Contents[CurHour]) \subseteq UidsIn(f)
    <3>1. CASE Exchanges
      <4>1. Current.uid \in UidsIn(Contents[CurHour])
            /\ Contents' = [Contents EXCEPT ![CurHour] = ReplaceFirst(Contents[CurHour], Current)]
        BY <3>1 DEF Exchanges
      <4> QED BY <1>1, <1>3, <2>1, <4>1, ReplaceFirstKeepsUids
    <3>2. CASE Adds
      <4>1. Contents' = [Contents EXCEPT ![CurHour] = Append(Contents[CurHour], Current)]
        BY <3>2 DEF Adds
      <4> QED BY <1>1, <1>3, <2>1, <4>1, AppendUids
    <3> QED BY <1>6, <3>1, <3>2
  <2>4. PICK f : Contents' = [Contents EXCEPT ![CurHour] = f] /\ UidsIn(Contents[CurHour]) \subseteq UidsIn(f)
    BY <2>3
  <2>5. \A h \in Hours : Contents'[h] = IF h = CurHour THEN f ELSE Contents[h]
    BY <1>1, <1>3, <2>1, <2>4
  <2>6. Keeps BY <2>1, <2>4, <2>5
  <2> QED BY <2>2, <2>6
<1>7. ASSUME NEW h \in Hours, Writes(h) PROVE Keeps /\ News
  <2>1. /\ byHour' = [byHour EXCEPT ![h] = <<>>] /\ Restored' = Restored
        /\ Contents' = [Contents EXCEPT ![h] = Contents[h] \o byHour[h]]
    BY <1>7 DEF Writes
  <2>2. UidsIn(Contents[h] \o byHour[h]) = UidsIn(Contents[h]) \cup UidsIn(byHour[h])
    BY <1>1, ConcatUids
  <2>3. \A k \in Hours : Contents'[k] = IF k = h THEN Contents[h] \o byHour[h] ELSE Contents[k]
    BY <1>1, <2>1
  <2>4. \A k \in Hours : k # h => byHour'[k] = byHour[k] BY <1>1, <2>1
  <2>5. Keeps BY <2>2, <2>3, <2>4
  <2> QED BY <2>1, <2>5
<1> QED BY <1>4, <1>5, <1>6, <1>7, PoolSteps

LEMMA StepSomewhere ==
    ASSUME ArchiveTypes, Control, ArchiveControl, Somewhere, [ArchiveNext]_archVars
    PROVE  Somewhere'
<1>0. TypeOK BY DEF ArchiveTypes, ArchiveTypeOK
<1> SUFFICES ASSUME NEW u \in Uids, Restored'[u] # "none", DayOf(HourOf[u]) \notin cut'
             PROVE  u \in UidsIn(Waiting(HourOf[u])') \cup UidsIn(byHour'[HourOf[u]])
                           \cup UidsIn(DayFile(DayOf(HourOf[u]))')
  BY DEF Somewhere
<1> DEFINE h == HourOf[u]
           d == DayOf(h)
<1>1. h \in Hours BY HourOfAssumption
<1>2. Restored[u] = "none" \/ d \in cut
      \/ u \in UidsIn(Waiting(h)) \cup UidsIn(byHour[h]) \cup UidsIn(DayFile(d))
  BY DEF Somewhere
<1> HIDE DEF h, d
<1>3. CASE PushNow \/ Push
  <2>1. /\ PoolNext /\ cut' = cut
        /\ Waiting(h) = Content(h) /\ Waiting(h)' = Content(h)'
        /\ DayFile(d) = daily[d] /\ DayFile(d)' = daily[d]
    BY <1>3, PushIsAlone
  <2>2. /\ UidsIn(Content(h)) \cup UidsIn(byHour[h]) \subseteq UidsIn(Content(h)') \cup UidsIn(byHour'[h])
        /\ Restored[u] # "none" \/ u \in UidsIn(byHour'[h])
    BY <1>0, <1>1, <2>1, PushKeepsUids DEF h
  <2> QED BY <1>2, <2>1, <2>2 DEF h, d
<1>4. CASE Pass
  <2>1. Restored' = Restored /\ byHour' = byHour BY <1>4, PassIsQuiet
  <2>2. cut \subseteq cut'
    <3>1. CASE ArchiveCrash BY <3>1 DEF ArchiveCrash
    <3>2. CASE ~ArchiveCrash BY <1>4, <3>2, PassIsQuiet
    <3> QED BY <3>1, <3>2
  <2>3. u \in UidsIn(Waiting(h)) \cup UidsIn(byHour[h]) \cup UidsIn(DayFile(d))
    BY <1>2, <2>1, <2>2 DEF h, d
  <2>4. \/ SameDay(h) /\ SameRest(h)
        \/ Moves(h) \/ Tells(h) \/ Copies(h) \/ TellsMonth(h)
    BY <1>1, <1>4, PassSteps DEF h, d
  <2>5. CASE SameDay(h) /\ SameRest(h) BY <2>1, <2>3, <2>5 DEF SameDay, SameRest, h, d
  <2>6. CASE Tells(h) \/ Copies(h) \/ TellsMonth(h)
    BY <2>1, <2>3, <2>6 DEF Tells, Copies, TellsMonth, SameDay, SameRest, h, d
  <2>7. CASE Moves(h)
    <3>1. /\ CurArch \in Hours /\ ~Moved(CurArch) /\ DayFile(d)' = DayFile(d) \o files[CurArch]
          /\ IF h = CurArch THEN TRUE ELSE SameRest(h)
      BY <2>7 DEF Moves, d
    <3>2. Waiting(CurArch) = files[CurArch] BY <1>4, <3>1, PassIsQuiet DEF Waiting
    <3>3. files[CurArch] \in Seq(Record) /\ DayFile(d) \in Seq(Record)
      BY <1>0, <1>1, <3>1 DEF TypeOK, DayFile, ArchiveTypes, ArchiveTypeOK, Days, d
    <3>4. UidsIn(DayFile(d)') = UidsIn(DayFile(d)) \cup UidsIn(files[CurArch])
      BY <3>1, <3>3, ConcatUids
    <3> QED BY <2>1, <2>3, <3>1, <3>2, <3>4 DEF SameRest, h, d
  <2> QED BY <2>4, <2>5, <2>6, <2>7
<1>5. CASE UNCHANGED archVars
  <2>1. /\ Waiting(h)' = Waiting(h) /\ byHour' = byHour /\ DayFile(d)' = DayFile(d)
        /\ Restored' = Restored /\ cut' = cut
    BY <1>5 DEF archVars, poolVars, Waiting, Moved, Content, CurHour, CurArch, CurDay, DayFile,
       Restored, Current
  <2> QED BY <1>2, <2>1 DEF h, d
<1> QED BY <1>3, <1>4, <1>5 DEF ArchiveNext, Pass

LEMMA ArchiveBasics ==
    /\ ArchiveInit => ArchiveTypes /\ Control /\ ArchiveControl /\ Somewhere
    /\ ArchiveTypes /\ Control /\ ArchiveControl /\ Somewhere /\ [ArchiveNext]_archVars
           => (ArchiveTypes /\ Control /\ ArchiveControl /\ Somewhere)'
    /\ ArchiveTypes /\ Control /\ ArchiveControl /\ Somewhere => NothingLost
<1>1. ASSUME ArchiveInit PROVE ArchiveTypes /\ Control /\ ArchiveControl /\ Somewhere
  <2>1. Restored = EmptyRegistry BY <1>1 DEF ArchiveInit, Init, Restored
  <2> QED BY <1>1, <2>1, InitArchiveTypes, InitArchiveControl DEF Somewhere, EmptyRegistry
<1>2. ASSUME ArchiveTypes, Control, ArchiveControl, Somewhere, [ArchiveNext]_archVars
      PROVE  (ArchiveTypes /\ Control /\ ArchiveControl /\ Somewhere)'
  BY <1>2, StepArchiveTypes, StepArchiveControl, StepSomewhere
<1>3. ASSUME ArchiveTypes, Control, ArchiveControl, Somewhere,
             NEW u \in Uids, pc = "idle", diskRegistry[u] # "none", DayOf(HourOf[u]) \notin cut
      PROVE  \E f \in {files[HourOf[u]], daily[DayOf(HourOf[u])], monthly[DayOf(HourOf[u])], archBuf} :
                Holds(f, u) # {}
  <2> DEFINE h == HourOf[u]
             d == DayOf(h)
  <2>1. h \in Hours /\ byHour = NoFiles /\ Restored[u] # "none"
    BY <1>3, HourOfAssumption DEF Control, ArchiveControl, Restored
  <2>2. UidsIn(byHour[h]) = {} BY <2>1 DEF NoFiles, UidsIn
  <2>3. u \in UidsIn(Waiting(h)) \cup UidsIn(DayFile(d)) BY <1>3, <2>1, <2>2 DEF Somewhere
  <2>4. Waiting(h) \in {<<>>, files[h]} BY <1>3 DEF Waiting, Content
  <2>5. DayFile(d) \in {daily[d], archBuf} BY DEF DayFile
  <2>6. UidsIn(<<>>) = {} BY DEF UidsIn
  <2>7. u \in UidsIn(files[h]) \/ u \in UidsIn(daily[d]) \/ u \in UidsIn(archBuf)
    BY <2>3, <2>4, <2>5, <2>6
  <2>8. \A f : u \in UidsIn(f) => Holds(f, u) # {} BY DEF UidsIn, Holds
  <2> QED BY <2>7, <2>8
<1> QED BY <1>1, <1>2, <1>3 DEF NothingLost

\* run_archive loses nothing: whatever a pass has truncated, moved or copied when a
\* crash stops it, a uid the saved registry knows is in the hour file, the day file
\* or about to be written, except of the days the crash cut.
THEOREM ArchiveLosesNothing == ArchiveSpec => []NothingLost
BY ArchiveBasics, PTL DEF ArchiveSpec

-----------------------------------------------------------------------------
(* What a day file holds of an hour *)

LEMMA SameArchives ==
    ASSUME NEW f \in Seq(Record), NEW h, NEW R1, NEW A1, NEW R2, NEW A2, Archives(f, h, R1, A1),
           \A u \in Uids : HourOf[u] = h => (u \in A1 <=> u \in A2) /\ (u \in A1 => R2[u] = R1[u])
    PROVE  Archives(f, h, R2, A2)
<1>1. \A i \in DOMAIN f : f[i] \in Record OBVIOUS
<1>2. \A i \in DOMAIN f : f[i].uid \in Uids /\ f[i].uid \in UidsIn(f) BY <1>1 DEF Record, UidsIn
<1>3. ASSUME NEW i \in DOMAIN f, HourOf[f[i].uid] = h PROVE R2[f[i].uid] = f[i].class
  <2>1. f[i].uid \in A1 BY <1>2, <1>3 DEF Archives
  <2> QED BY <1>2, <1>3, <2>1 DEF Archives
<1> QED BY <1>3 DEF Archives

\* An hour file g written to the end of a day file f.
LEMMA ArchivesHour ==
    ASSUME NEW f \in Seq(Record), NEW g \in Seq(Record), NEW h, NEW k, NEW R \in Registry,
           NEW A, NEW A2, Archives(f, h, R, A),
           OnePerUid(g), Agree(g, R), \A u \in UidsIn(g) : HourOf[u] = k,
           h = k => A \cap UidsIn(g) = {},
           \A u \in Uids : HourOf[u] = h => (u \in A2 <=> u \in A \/ u \in UidsIn(g))
    PROVE  Archives(f \o g, h, R, A2)
<1>1. /\ f \o g \in Seq(Record) /\ Len(f \o g) = Len(f) + Len(g)
      /\ \A i \in 1..Len(f) : (f \o g)[i] = f[i]
      /\ \A i \in 1..Len(g) : (f \o g)[Len(f) + i] = g[i]
  OBVIOUS
<1>2. /\ DOMAIN f = 1..Len(f) /\ DOMAIN g = 1..Len(g)
      /\ DOMAIN (f \o g) = 1..(Len(f) + Len(g)) /\ Len(f) \in Nat /\ Len(g) \in Nat
      /\ \A i \in DOMAIN f : f[i] \in Record
  BY <1>1
<1> DEFINE w == f \o g
           n == Len(f)
<1>3. ASSUME NEW i \in DOMAIN w
      PROVE  \/ i \in DOMAIN f /\ w[i] = f[i]
             \/ i \notin DOMAIN f /\ i - n \in DOMAIN g /\ w[i] = g[i - n]
  <2>1. CASE i \in 1..Len(f) BY <2>1, <1>1, <1>2
  <2>2. CASE i \notin 1..Len(f)
    <3>1. i - n \in 1..Len(g) /\ i = n + (i - n) BY <2>2, <1>2
    <3> QED BY <3>1, <2>2, <1>1, <1>2
  <2> QED BY <2>1, <2>2
<1>nat. n \in Nat /\ DOMAIN w \subseteq Nat BY <1>2
<1>4. UidsIn(w) = UidsIn(f) \cup UidsIn(g) BY ConcatUids
<1>5. \A i \in DOMAIN f : f[i].uid \in Uids /\ f[i].uid \in UidsIn(f) BY <1>2 DEF Record, UidsIn
<1>6. \A i \in DOMAIN g : g[i].uid \in UidsIn(g) BY DEF UidsIn
<1> HIDE DEF w, n
<1>7. ASSUME NEW i \in DOMAIN w, NEW j \in DOMAIN w, w[i].uid = w[j].uid, HourOf[w[i].uid] = h
      PROVE  i = j
  <2>1. ASSUME NEW m \in DOMAIN f, NEW l \in DOMAIN g, f[m].uid = g[l].uid, HourOf[f[m].uid] = h
        PROVE  FALSE
    <3>1. f[m].uid \in A BY <1>5, <2>1 DEF Archives
    <3>2. f[m].uid \in UidsIn(g) /\ h = k BY <1>6, <2>1
    <3> QED BY <3>1, <3>2
  <2>2. CASE i \in DOMAIN f /\ w[i] = f[i]
    <3>1. j \in DOMAIN f /\ w[j] = f[j] BY <1>3, <1>7, <2>1, <2>2
    <3> QED BY <1>7, <2>2, <3>1 DEF Archives
  <2>3. CASE i \notin DOMAIN f /\ i - n \in DOMAIN g /\ w[i] = g[i - n]
    <3>1. j - n \in DOMAIN g /\ w[j] = g[j - n] BY <1>3, <1>7, <2>1, <2>3
    <3>2. i - n = j - n BY <1>7, <2>3, <3>1 DEF OnePerUid
    <3> QED BY <1>nat, <3>2
  <2> QED BY <1>3, <2>2, <2>3
<1>8. \A i \in DOMAIN w : HourOf[w[i].uid] = h => R[w[i].uid] = w[i].class
  BY <1>3 DEF Archives, Agree
<1>9. \A u \in Uids : HourOf[u] = h => (u \in UidsIn(w) <=> u \in A2) BY <1>4 DEF Archives
<1> QED BY <1>7, <1>8, <1>9 DEF Archives, w

\* What query_by_hour_key makes of a day file.
LEMMA OfHourIs ==
    ASSUME NEW f \in Seq(Record), NEW h, NEW R, NEW A, Archives(f, h, R, A)
    PROVE  /\ OfHour(f, h) \in Seq(Record)
           /\ OnePerUid(OfHour(f, h)) /\ Agree(OfHour(f, h), R)
           /\ \A u \in Uids : HourOf[u] = h => (u \in UidsIn(OfHour(f, h)) <=> u \in A)
<1> DEFINE n == Len(f)
           qs == [i \in 1 .. n |-> IF HourOf[f[i].uid] = h THEN <<f[i]>> ELSE <<>>]
<1>1. /\ n \in Nat /\ DOMAIN f = 1 .. n /\ \A i \in 1 .. n : f[i] \in Record
      /\ \A i \in 1 .. n : f[i].uid \in Uids
  <2>1. n \in Nat /\ DOMAIN f = 1 .. n /\ \A i \in 1 .. n : f[i] \in Record OBVIOUS
  <2> QED BY <2>1 DEF Record
<1>2. OfHour(f, h) = FlattenSeq(qs) BY <1>1 DEF OfHour
<1>3. CASE n = 0
  <2>1. qs = <<>> /\ Len(qs) = 0 BY <1>3
  <2>2. OfHour(f, h) = <<>> BY <1>2, <2>1 DEF FlattenSeq
  <2>3. UidsIn(<<>>) = {} /\ UidsIn(f) = {} BY <1>1, <1>3 DEF UidsIn
  <2>4. <<>> \in Seq(Record) /\ OnePerUid(<<>>) /\ Agree(<<>>, R) BY DEF OnePerUid, Agree
  <2>5. \A u \in Uids : HourOf[u] = h => u \notin A BY <2>3 DEF Archives
  <2> QED BY <2>2, <2>3, <2>4, <2>5
<1>4. CASE n # 0
  <2>1. qs = [i \in 1 .. n |-> qs[i]] OBVIOUS
  <2>2. \A i \in 1 .. n : qs[i] = IF HourOf[f[i].uid] = h THEN <<f[i]>> ELSE <<>> OBVIOUS
  <2> HIDE DEF qs
  <2>3. PICK fl : FlattenSeq(qs) = fl[n] /\ Flattens(fl, qs, n)
    BY <1>1, <1>4, <2>1, FlattenSteps
  <2> DEFINE Good(k) == /\ fl[k] \in Seq(Record) /\ OnePerUid(fl[k]) /\ Agree(fl[k], R)
                        /\ UidsIn(fl[k]) = {f[i].uid : i \in {i \in 1 .. k : HourOf[f[i].uid] = h}}
             K == {k \in Nat : k = 0 \/ Good(k)}
  <2>4. ASSUME NEW k \in 0 .. n - 1, k = 0 \/ Good(k) PROVE Good(k + 1)
    <3> DEFINE p == IF k = 0 THEN <<>> ELSE fl[k]
               U == {f[i].uid : i \in {i \in 1 .. k : HourOf[f[i].uid] = h}}
    <3>1. /\ k + 1 \in 1 .. n /\ (k + 1 = 1 <=> k = 0) /\ (k + 1) - 1 = k /\ k \in Nat
          /\ 1 .. k + 1 = (1 .. k) \cup {k + 1} /\ k + 1 \notin 1 .. k /\ 1 .. k \subseteq 1 .. n
      BY <1>1
    <3>2. p \in Seq(Record) /\ OnePerUid(p) /\ Agree(p, R) /\ UidsIn(p) = U
      <4>1. CASE k = 0
        <5>1. p = <<>> /\ U = {} BY <4>1
        <5>2. <<>> \in Seq(Record) /\ OnePerUid(<<>>) /\ Agree(<<>>, R) /\ UidsIn(<<>>) = {}
          BY DEF OnePerUid, Agree, UidsIn
        <5> QED BY <5>1, <5>2
      <4>2. CASE k # 0 BY <2>4, <4>2
      <4> QED BY <4>1, <4>2
    <3>3. fl[k + 1] = p \o qs[k + 1]
      <4>1. fl[k + 1] = IF k + 1 = 1 THEN qs[k + 1] ELSE fl[(k + 1) - 1] \o qs[k + 1]
        BY <2>3, <3>1 DEF Flattens
      <4>2. qs[k + 1] \in Seq(Record)
        <5>1. f[k + 1] \in Record /\ <<>> \in Seq(Record) BY <1>1, <3>1
        <5>2. <<f[k + 1]>> \in Seq(Record) BY <5>1
        <5> QED BY <2>2, <3>1, <5>1, <5>2
      <4>3. <<>> \o qs[k + 1] = qs[k + 1] BY <4>2
      <4> QED BY <3>1, <4>1, <4>3
    <3> HIDE DEF p
    <3>4. CASE HourOf[f[k + 1].uid] = h
      <4>1. qs[k + 1] = <<f[k + 1]>> /\ f[k + 1] \in Record BY <1>1, <2>2, <3>1, <3>4
      <4>2. fl[k + 1] = Append(p, f[k + 1]) BY <3>2, <3>3, <4>1
      <4>3. f[k + 1].uid \notin U
        <5>1. \A i \in 1 .. k : f[i].uid = f[k + 1].uid => i = k + 1
          BY <1>1, <3>1, <3>4 DEF Archives
        <5> QED BY <3>1, <5>1
      <4>4. UidsIn(fl[k + 1]) = U \cup {f[k + 1].uid} /\ OnePerUid(fl[k + 1])
        BY <3>2, <4>1, <4>2, <4>3, AppendUids
      <4>5. fl[k + 1] \in Seq(Record) BY <3>2, <4>1, <4>2
      <4>6. Agree(fl[k + 1], R)
        <5>1. \A i \in DOMAIN Append(p, f[k + 1]) :
                 \/ i \in DOMAIN p /\ Append(p, f[k + 1])[i] = p[i]
                 \/ Append(p, f[k + 1])[i] = f[k + 1]
          BY <3>2
        <5>2. R[f[k + 1].uid] = f[k + 1].class BY <1>1, <3>1, <3>4 DEF Archives
        <5> QED BY <3>2, <4>2, <5>1, <5>2 DEF Agree
      <4>7. U \cup {f[k + 1].uid} = {f[i].uid : i \in {i \in 1 .. k + 1 : HourOf[f[i].uid] = h}}
        BY <3>1, <3>4
      <4> QED BY <4>4, <4>5, <4>6, <4>7
    <3>5. CASE HourOf[f[k + 1].uid] # h
      <4>1. qs[k + 1] = <<>> BY <2>2, <3>1, <3>5
      <4>2. fl[k + 1] = p BY <3>2, <3>3, <4>1
      <4>3. U = {f[i].uid : i \in {i \in 1 .. k + 1 : HourOf[f[i].uid] = h}}
        BY <3>1, <3>5
      <4> QED BY <3>2, <4>2, <4>3
    <3> QED BY <3>4, <3>5
  <2> HIDE DEF Good
  <2>5. 0 \in K OBVIOUS
  <2>6. ASSUME NEW k \in 0 .. n - 1, k \in K PROVE k + 1 \in K
    <3>1. k + 1 \in Nat OBVIOUS
    <3> QED BY <2>4, <2>6, <3>1
  <2> HIDE DEF K
  <2>7. n \in K
    <3>1. 0 .. n \subseteq K BY <1>1, <2>5, <2>6, BoundedInduction
    <3> QED BY <1>1, <3>1
  <2>8. Good(n) BY <1>4, <2>7 DEF K
  <2>9. OfHour(f, h) = fl[n] BY <1>2, <2>3
  <2>10. ASSUME NEW u \in Uids, HourOf[u] = h PROVE u \in UidsIn(fl[n]) <=> u \in A
    <3>1. u \in UidsIn(fl[n]) <=> u \in UidsIn(f) BY <1>1, <2>8, <2>10 DEF Good, UidsIn
    <3> QED BY <2>10, <3>1 DEF Archives
  <2> QED BY <2>8, <2>9, <2>10 DEF Good
<1> QED BY <1>1, <1>3, <1>4

-----------------------------------------------------------------------------
(* Every record is read once *)

\* A replacement that finds no record in its hour file has missed an archived one.
LEMMA AppendMisses ==
    ASSUME ArchiveTypes, CInv, NEW h \in Hours, HourInv(h), PushNow \/ Push, Clean(h)'
    PROVE  ~(ReplaceAppend /\ CurHour = h)
<1> SUFFICES ASSUME ReplaceAppend, CurHour = h PROVE FALSE
  OBVIOUS
<1>1. /\ TypeOK /\ Control /\ Consistent(Contents, byHour, Restored, todo) BY DEF CInv
<1>2. /\ PoolNext /\ ~Untold(h) /\ Waiting(h) = Content(h)
      /\ stale' = IF meta.tier[CurHour] \in {"daily", "monthly"} THEN stale \cup {CurHour} ELSE stale
  BY PushIsAlone
<1>3. meta.tier[h] \in {"none", "active"}
  <2>1. meta.tier[h] \in Tiers BY <1>1 DEF TypeOK, Meta
  <2> QED BY <1>2, <2>1 DEF Tiers, Clean
<1>4. \A u \in UidsIn(DayFile(DayOf(h))) : HourOf[u] # h BY <1>2, <1>3 DEF HourInv
<1>5. /\ pc = "append" /\ todo # <<>> /\ Decision(Current) = "replace"
      /\ Current.uid \notin UidsIn(files[CurHour])
  BY <1>1 DEF ReplaceAppend, Control, TypeOK
<1>6. /\ Current.uid \in Uids /\ HourOf[Current.uid] = h
      /\ Current.uid \notin UidsIn(byHour[h])
  BY <1>1, <1>5, CurrentPlace, CurrentType
<1>7. Current.uid \in Away
  <2>1. Restored[Current.uid] # "none" BY <1>5 DEF Restored, Decision
  <2>2. Waiting(h) = files[h] BY <1>2, <1>5 DEF Content
  <2> QED BY <1>5, <1>6, <2>1, <2>2 DEF Away
<1> QED BY <1>4, <1>6, <1>7 DEF HourInv, Archives

\* A push neither archives a uid of a clean hour nor changes the class of one.
LEMMA PushKeepsAway ==
    ASSUME CInv, [PoolNext]_poolVars, NEW h \in Hours,
           \A k : Waiting(k) = Content(k) /\ Waiting(k)' = Content(k)',
           ~(ReplaceAppend /\ CurHour = h), NEW u \in Uids, HourOf[u] = h
    PROVE  (u \in Away <=> u \in Away') /\ (u \in Away => Restored'[u] = Restored[u])
<1>1. /\ TypeOK /\ Control /\ Consistent(Contents, byHour, Restored, todo) BY DEF CInv
<1>2. /\ Contents \in [Hours -> Seq(Record)] /\ byHour \in [Hours -> Seq(Record)]
      /\ Restored \in Registry
      /\ \A k \in Hours : Contents[k] = Content(k) /\ Contents'[k] = Content(k)'
  BY <1>1, ContentsType DEF Contents
<1>3. /\ u \in Away  <=> Restored[u] # "none"
                         /\ u \notin UidsIn(Contents[h]) \cup UidsIn(byHour[h])
      /\ u \in Away' <=> Restored'[u] # "none"
                         /\ u \notin UidsIn(Contents'[h]) \cup UidsIn(byHour'[h])
  BY <1>2 DEF Away
<1>4. ASSUME todo # <<>>
      PROVE  /\ Current \in Record /\ CurHour \in Hours /\ CurHour = HourOf[Current.uid]
             /\ Current.uid \in Uids /\ Current.class # "none"
             /\ Current.uid \notin UidsIn(byHour[CurHour])
  <2>1. /\ Current \in Record /\ CurHour \in Hours /\ CurHour = HourOf[Current.uid]
        /\ Current.uid \in Uids /\ Current.class # "none"
    BY <1>1, <1>4, CurrentType DEF CurHour, Current, Classes
  <2>2. Current.uid \notin UidsIn(byHour[CurHour]) BY <1>1, <1>4, <2>1, CurrentPlace
  <2> QED BY <2>1, <2>2
<1> DEFINE Done == (u \in Away <=> u \in Away') /\ (u \in Away => Restored'[u] = Restored[u])
<1> SUFFICES Done
  OBVIOUS
<1>5. CASE (\E b \in Batches : Begins(b)) \/ Passes \/ Stays
  <2>1. Contents' = Contents /\ Restored' = Restored /\ byHour' = byHour
    BY <1>5 DEF Begins, Passes, Stays
  <2> QED BY <1>3, <2>1
<1>6. CASE Queues
  <2>1. /\ todo # <<>> /\ Contents' = Contents /\ Restored[Current.uid] = "none"
        /\ byHour' = [byHour EXCEPT ![CurHour] = Append(@, Current)]
        /\ Restored' = [Restored EXCEPT ![Current.uid] = Current.class]
    BY <1>6 DEF Queues, Registers
  <2>2. UidsIn(Append(byHour[CurHour], Current)) = UidsIn(byHour[CurHour]) \cup {Current.uid}
    BY <1>2, <1>4, <2>1, AppendUids
  <2>3. byHour'[h] = IF h = CurHour THEN Append(byHour[CurHour], Current) ELSE byHour[h]
    BY <1>2, <1>4, <2>1
  <2>4. Restored'[u] = IF u = Current.uid THEN Current.class ELSE Restored[u]
    BY <1>2, <1>4, <2>1 DEF Registry
  <2>5. CASE u = Current.uid BY <1>3, <1>4, <2>1, <2>2, <2>3, <2>5
  <2>6. CASE u # Current.uid
    <3>1. u \in UidsIn(byHour'[h]) <=> u \in UidsIn(byHour[h]) BY <2>2, <2>3, <2>6
    <3> QED BY <1>3, <2>1, <2>4, <2>6, <3>1
  <2> QED BY <2>5, <2>6
<1>7. CASE Exchanges
  <2>1. /\ todo # <<>> /\ byHour' = byHour /\ Restored[Current.uid] # "none"
        /\ Current.uid \in UidsIn(Contents[CurHour])
        /\ Restored' = [Restored EXCEPT ![Current.uid] = Current.class]
        /\ Contents' = [Contents EXCEPT ![CurHour] = ReplaceFirst(Contents[CurHour], Current)]
    BY <1>7 DEF Exchanges, Registers
  <2>2. UidsIn(ReplaceFirst(Contents[CurHour], Current)) = UidsIn(Contents[CurHour])
    BY <1>2, <1>4, <2>1, ReplaceFirstKeepsUids
  <2>3. Contents'[h] = IF h = CurHour THEN ReplaceFirst(Contents[CurHour], Current) ELSE Contents[h]
    BY <1>2, <1>4, <2>1
  <2>4. UidsIn(Contents'[h]) = UidsIn(Contents[h]) BY <2>2, <2>3
  <2>5. Restored'[u] = IF u = Current.uid THEN Current.class ELSE Restored[u]
    BY <1>2, <1>4, <2>1 DEF Registry
  <2> QED BY <1>3, <1>4, <2>1, <2>4, <2>5
<1>8. CASE ReplaceAppend /\ Adds
  <2>1. /\ todo # <<>> /\ byHour' = byHour /\ Restored[Current.uid] # "none"
        /\ Current.uid \notin UidsIn(Contents[CurHour])
        /\ Restored' = [Restored EXCEPT ![Current.uid] = Current.class]
        /\ Contents' = [Contents EXCEPT ![CurHour] = Append(@, Current)]
    BY <1>8 DEF Adds, Registers
  <2>2. CurHour # h BY <1>8
  <2>3. Contents'[h] = Contents[h] BY <1>2, <2>1, <2>2
  <2>4. Restored'[u] = Restored[u] BY <1>2, <1>4, <2>1, <2>2 DEF Registry
  <2> QED BY <1>3, <2>1, <2>3, <2>4
<1>9. ASSUME NEW k \in Hours, Writes(k) PROVE Done
  <2>1. /\ byHour' = [byHour EXCEPT ![k] = <<>>] /\ Restored' = Restored
        /\ Contents' = [Contents EXCEPT ![k] = Contents[k] \o byHour[k]]
    BY <1>9 DEF Writes
  <2>2. UidsIn(Contents[k] \o byHour[k]) = UidsIn(Contents[k]) \cup UidsIn(byHour[k])
    BY <1>2, ConcatUids
  <2>3. UidsIn(<<>>) = {} BY DEF UidsIn
  <2>4. /\ Contents'[h] = IF h = k THEN Contents[k] \o byHour[k] ELSE Contents[h]
        /\ byHour'[h] = IF h = k THEN <<>> ELSE byHour[h]
    BY <1>2, <2>1
  <2>5. UidsIn(Contents'[h]) \cup UidsIn(byHour'[h]) = UidsIn(Contents[h]) \cup UidsIn(byHour[h])
    BY <2>2, <2>3, <2>4
  <2> QED BY <1>3, <2>1, <2>5
<1> QED BY <1>1, <1>5, <1>6, <1>7, <1>8, <1>9, PoolSteps

\* A stored hour that is not about to be indexed is indexed.
LEMMA PushIndexes ==
    ASSUME TypeOK, Control, PoolNext, NEW h \in Hours, ~(ReplaceAppend /\ CurHour = h),
           Content(h) # <<>> /\ ~AtIndex(h) => meta.tier[h] # "none",
           Content(h)' # <<>>, ~AtIndex(h)'
    PROVE  meta'.tier[h] # "none"
<1>1. /\ Contents \in [Hours -> Seq(Record)] /\ byHour \in [Hours -> Seq(Record)]
      /\ Contents[h] = Content(h) /\ Contents'[h] = Content(h)'
  BY ContentsType DEF Contents
<1>2. /\ meta'.tier[h] = "none" => meta.tier[h] = "none"
      /\ EnsureIndex => meta'.tier[cur.hour] # "none"
  BY PushTiers
<1> SUFFICES ASSUME meta'.tier[h] = "none" PROVE FALSE
  OBVIOUS
<1>3. meta.tier[h] = "none" BY <1>2
<1>4. ASSUME AtIndex(h) PROVE FALSE
  <2>1. pc = "index" /\ cur.hour = h BY <1>4 DEF AtIndex
  <2>2. EnsureIndex
    BY <2>1 DEF PoolNext, PushStep, PushBegin, ApplyPush, ApplyReplace, ApplySkip, ReplaceRead,
       ReplaceCreate, ReplaceRewrite, ReplaceAppend, Register, WriteLogs, SaveMeta, SaveRegistry,
       Notify
  <2> QED BY <1>2, <2>1, <2>2
<1>5. Contents[h] = <<>> BY <1>1, <1>3, <1>4
<1>6. ASSUME todo # <<>> PROVE Current \in Record /\ CurHour \in Hours
  BY <1>6, CurrentType
<1>7. CASE (\E b \in Batches : Begins(b)) \/ Queues \/ Passes \/ Stays
  <2>1. Contents' = Contents BY <1>7 DEF Begins, Queues, Passes, Stays
  <2> QED BY <1>1, <1>5, <2>1
<1>8. CASE Exchanges
  <2>1. /\ Current.uid \in UidsIn(Contents[CurHour])
        /\ \E f : Contents' = [Contents EXCEPT ![CurHour] = f]
    BY <1>8 DEF Exchanges
  <2>2. CurHour # h BY <1>5, <2>1 DEF UidsIn
  <2> QED BY <1>1, <1>5, <2>1, <2>2
<1>9. CASE ReplaceAppend /\ Adds
  <2>1. todo # <<>> /\ CurHour # h /\ Contents' = [Contents EXCEPT ![CurHour] = Append(@, Current)]
    BY <1>9 DEF Adds
  <2> QED BY <1>1, <1>5, <2>1
<1>10. ASSUME NEW k \in Hours, WriteLogs(k), Writes(k) PROVE FALSE
  <2>1. /\ pc' = "index" /\ cur' = [hour |-> k, count |-> Len(byHour[k])]
        /\ Contents' = [Contents EXCEPT ![k] = @ \o byHour[k]]
    BY <1>10 DEF WriteLogs, Writes
  <2>2. k # h BY <2>1 DEF AtIndex
  <2> QED BY <1>1, <1>5, <2>1, <2>2
<1> QED BY <1>7, <1>8, <1>9, <1>10, PoolSteps

LEMMA ArchiveFileTypes ==
    ASSUME ArchiveTypes, NEW h \in Hours
    PROVE  /\ DayFile(DayOf(h)) \in Seq(Record) /\ MonthFile(DayOf(h)) \in Seq(Record)
           /\ files[h] \in Seq(Record) /\ meta.tier[h] \in Tiers /\ Restored \in Registry
<1>1. DayOf(h) \in Days /\ TypeOK BY DEF Days, ArchiveTypes, ArchiveTypeOK
<1>2. Restored \in Registry BY <1>1, ContentsType
<1> QED BY <1>1, <1>2 DEF ArchiveTypes, ArchiveTypeOK, TypeOK, Meta, DayFile, MonthFile

LEMMA PushKeepsHourInv ==
    ASSUME ArchiveTypes, CInv, NEW h \in Hours, HourInv(h), PushNow \/ Push, Clean(h)'
    PROVE  HourInv(h)'
<1>1. TypeOK /\ Control BY DEF CInv
<1>2. /\ PoolNext
      /\ \A k : /\ ~Untold(k) /\ ~Untold(k)'
               /\ Waiting(k) = Content(k) /\ Waiting(k)' = Content(k)'
      /\ \A d : DayFile(d)' = DayFile(d) /\ MonthFile(d)' = MonthFile(d)
  BY PushIsAlone
<1>3. ~(ReplaceAppend /\ CurHour = h) BY AppendMisses
<1>4. \A u \in Uids : HourOf[u] = h => (u \in Away <=> u \in Away') /\ (u \in Away => Restored'[u] = Restored[u])
  BY <1>2, <1>3, PushKeepsAway
<1>5. /\ DayFile(DayOf(h)) \in Seq(Record) /\ MonthFile(DayOf(h)) \in Seq(Record)
  BY ArchiveFileTypes
<1>6. Archives(DayFile(DayOf(h)), h, Restored', Away')
  <2>1. Archives(DayFile(DayOf(h)), h, Restored, Away) BY DEF HourInv
  <2> QED BY <1>4, <1>5, <2>1, SameArchives
<1>7. meta.tier[h] = "monthly" => Archives(MonthFile(DayOf(h)), h, Restored', Away')
  <2> SUFFICES ASSUME meta.tier[h] = "monthly" PROVE Archives(MonthFile(DayOf(h)), h, Restored', Away')
    OBVIOUS
  <2>1. Archives(MonthFile(DayOf(h)), h, Restored, Away) BY <1>2 DEF HourInv
  <2> QED BY <1>4, <1>5, <2>1, SameArchives
<1>8. \/ meta'.tier[h] = meta.tier[h]
      \/ meta.tier[h] = "none" /\ meta'.tier[h] = "active"
  <2>1. \A k \in Hours : \/ meta'.tier[k] = meta.tier[k]
                         \/ /\ meta.tier[k] = "none" /\ meta'.tier[k] = "active"
                            /\ EnsureIndex /\ AtIndex(k)
    BY <1>1, <1>2, PushTiers
  <2> QED BY <2>1
<1>9. Content(h)' # <<>> /\ ~AtIndex(h)' => meta'.tier[h] # "none"
  <2>1. Content(h) # <<>> /\ ~AtIndex(h) => meta.tier[h] # "none" BY DEF HourInv
  <2> QED BY <1>1, <1>2, <1>3, <2>1, PushIndexes
<1>10. Archives(DayFile(DayOf(h)), h, Restored, Away)' BY <1>2, <1>6
<1>11. meta'.tier[h] = "monthly" => Archives(MonthFile(DayOf(h)), h, Restored, Away)'
  BY <1>2, <1>7, <1>8
<1>12. meta'.tier[h] \in {"none", "active"} => \A u \in UidsIn(DayFile(DayOf(h))') : HourOf[u] # h
  BY <1>2, <1>8 DEF HourInv
<1> QED BY <1>9, <1>10, <1>11, <1>12 DEF HourInv

LEMMA PassKeepsHourInv ==
    ASSUME ArchiveTypes, ArchiveControl, CInv, NEW h \in Hours, HourInv(h), Pass, Clean(h)'
    PROVE  HourInv(h)'
<1>0. TypeOK /\ Control /\ Consistent(Contents, byHour, Restored, todo) BY DEF CInv
<1>1. /\ pc = "idle" /\ byHour = NoFiles /\ pc' = "idle" /\ byHour' = byHour
      /\ Restored' = Restored
      /\ \A k \in Hours : Content(k) = files[k] /\ Content(k)' = files'[k]
      /\ files' = IF ArchiveRemove THEN [files EXCEPT ![CurArch] = <<>>] ELSE files
  BY <1>0, PassIsQuiet
<1>2. UidsIn(byHour[h]) = {} /\ UidsIn(<<>>) = {} BY <1>1 DEF NoFiles, UidsIn
<1> DEFINE d == DayOf(h)
           f == DayFile(d)
           m == MonthFile(d)
<1>3. /\ f \in Seq(Record) /\ m \in Seq(Record) /\ files[h] \in Seq(Record)
      /\ meta.tier[h] \in Tiers /\ Restored \in Registry
  BY ArchiveFileTypes
<1>4. /\ Archives(f, h, Restored, Away)
      /\ meta.tier[h] = "monthly" /\ ~Untold(h) => Archives(m, h, Restored, Away)
      /\ meta.tier[h] \in {"none", "active"} /\ ~Untold(h) => \A u \in UidsIn(f) : HourOf[u] # h
      /\ files[h] # <<>> => meta.tier[h] # "none"
  BY <1>1 DEF HourInv, AtIndex
<1>5. \/ SameDay(h) /\ SameMonth(h) /\ SameTier(h) /\ SameRest(h)
      \/ ArchiveCreate /\ Moves(h)
      \/ Tells(h) \/ Copies(h) \/ TellsMonth(h)
  BY <1>0, PassSteps DEF Clean
<1>6. \A u \in Uids : HourOf[u] = h => /\ u \in Away  <=> Restored[u] # "none" /\ u \notin UidsIn(Waiting(h))
                                       /\ u \in Away' <=> Restored[u] # "none" /\ u \notin UidsIn(Waiting(h)')
  BY <1>1, <1>2 DEF Away
<1>7. files'[h] # <<>> => files[h] # <<>>
  <2>1. files'[h] = files[h] \/ files'[h] = <<>> BY <1>0, <1>1 DEF TypeOK
  <2> QED BY <2>1
<1>8. ASSUME SameRest(h), NEW e \in Seq(Record), Archives(e, h, Restored, Away)
      PROVE  Archives(e, h, Restored', Away')
  <2>1. \A u \in Uids : HourOf[u] = h => (u \in Away <=> u \in Away')
    BY <1>6, <1>8 DEF SameRest
  <2> HIDE DEF f, m
  <2> QED BY <1>1, <1>8, <2>1, SameArchives
<1>9. SUFFICES /\ Archives(f', h, Restored', Away')
               /\ meta'.tier[h] = "monthly" /\ ~Untold(h)' => Archives(m', h, Restored', Away')
               /\ meta'.tier[h] \in {"none", "active"} /\ ~Untold(h)'
                     => \A u \in UidsIn(f') : HourOf[u] # h
               /\ files[h] # <<>> => meta'.tier[h] # "none"
  BY <1>1, <1>7 DEF HourInv
<1>10. CASE SameDay(h) /\ SameMonth(h) /\ SameTier(h) /\ SameRest(h)
  <2>1. f' = f /\ m' = m /\ meta'.tier[h] = meta.tier[h] /\ (Untold(h)' <=> Untold(h))
    BY <1>10 DEF SameDay, SameMonth, SameTier
  <2> HIDE DEF f, m
  <2> QED BY <1>3, <1>4, <1>8, <1>10, <2>1
<1>11. CASE ArchiveCreate /\ Moves(h)
  <2> DEFINE g == files[CurArch]
  <2>1. /\ d = CurDay /\ CurArch \in Hours /\ ~Moved(CurArch) /\ m' = m /\ f' = f \o g
        /\ IF h = CurArch THEN Waiting(h)' = <<>> /\ Untold(h)' ELSE SameRest(h) /\ SameTier(h)
        /\ meta'.tier[h] = meta.tier[h]
    BY <1>11 DEF Moves, SameMonth
  <2>2. /\ g \in Seq(Record) /\ OnePerUid(g) /\ Agree(g, Restored)
        /\ \A u \in UidsIn(g) : HourOf[u] = CurArch
    <3>1. Contents[CurArch] = g BY <1>1, <2>1 DEF Contents
    <3>2. g \in Seq(Record) BY <1>0, <2>1 DEF TypeOK
    <3> QED BY <1>0, <2>1, <3>1, <3>2 DEF Consistent
  <2>3. \A u \in UidsIn(g) : u \in Uids /\ Restored[u] # "none"
    BY <1>3, <2>2, AgreeUids
  <2>4. Waiting(CurArch) = g BY <1>1, <2>1 DEF Waiting
  <2>5. ASSUME h = CurArch PROVE Away \cap UidsIn(g) = {}
    <3>1. ASSUME NEW u \in UidsIn(g) PROVE u \notin Away
      <4>1. u \in Uids /\ HourOf[u] = h /\ Waiting(h) = g BY <2>2, <2>3, <2>4, <2>5
      <4> QED BY <1>6, <4>1
    <3> QED BY <3>1
  <2>6. \A u \in Uids : HourOf[u] = h => (u \in Away' <=> u \in Away \/ u \in UidsIn(g))
    <3>1. CASE h = CurArch
      <4>1. Waiting(h)' = <<>> BY <2>1, <3>1
      <4> QED BY <1>2, <1>6, <2>3, <2>4, <3>1, <4>1
    <3>2. CASE h # CurArch
      <4>1. Waiting(h)' = Waiting(h) BY <2>1, <3>2 DEF SameRest
      <4> QED BY <1>6, <2>2, <3>2, <4>1
    <3> QED BY <3>1, <3>2
  <2> HIDE DEF f, m, g
  <2>7. Archives(f', h, Restored', Away')
    BY <1>1, <1>3, <1>4, <2>1, <2>2, <2>5, <2>6, ArchivesHour
  <2>8. CASE h = CurArch BY <1>4, <2>1, <2>7, <2>8
  <2>9. CASE h # CurArch
    <3>1. SameRest(h) /\ (Untold(h)' <=> Untold(h)) BY <2>1, <2>9 DEF SameTier
    <3>2. UidsIn(f') = UidsIn(f) \cup UidsIn(g) BY <1>3, <2>1, <2>2, ConcatUids
    <3>3. \A u \in UidsIn(g) : HourOf[u] # h BY <2>2, <2>9
    <3> QED BY <1>3, <1>4, <1>8, <2>1, <2>7, <3>1, <3>2, <3>3
  <2> QED BY <2>8, <2>9
<1>12. CASE Tells(h)
  <2>1. /\ files[h] # <<>> /\ f' = f /\ SameRest(h)
        /\ meta'.tier[h] = IF meta.tier[h] = "none" THEN "none" ELSE "daily"
    BY <1>12 DEF Tells, SameDay
  <2>2. meta'.tier[h] = "daily" BY <1>4, <2>1
  <2> HIDE DEF f, m
  <2> QED BY <1>3, <1>4, <1>8, <2>1, <2>2
<1>13. CASE Copies(h)
  <2>1. /\ f' = f /\ m' = f /\ SameRest(h) /\ meta'.tier[h] = meta.tier[h]
        /\ (Untold(h)' <=> Untold(h))
    BY <1>13 DEF Copies, SameDay, SameTier
  <2> HIDE DEF f, m
  <2> QED BY <1>3, <1>4, <1>8, <2>1
<1>14. CASE TellsMonth(h)
  <2>1. /\ m = f /\ f' = f /\ m' = m /\ SameRest(h) /\ ~Untold(h) /\ ~Untold(h)'
        /\ meta'.tier[h] = IF meta.tier[h] = "none" THEN "none" ELSE "monthly"
    BY <1>14 DEF TellsMonth, SameDay, SameMonth
  <2> HIDE DEF f, m
  <2> QED BY <1>3, <1>4, <1>8, <2>1
<1> QED BY <1>5, <1>10, <1>11, <1>12, <1>13, <1>14

\* A pass leaves contents and registry consistent.
LEMMA PassKeepsCInv ==
    ASSUME ArchiveTypes, ArchiveTypes', ArchiveControl, Control', CInv, Pass
    PROVE  CInv'
<1>0. TypeOK /\ TypeOK' /\ Control /\ Consistent(Contents, byHour, Restored, todo)
  BY DEF CInv, ArchiveTypes, ArchiveTypeOK
<1>1. /\ byHour' = byHour /\ todo' = todo /\ Restored' = Restored
      /\ \A k \in Hours : Content(k) = files[k] /\ Content(k)' = files'[k]
      /\ files' = IF ArchiveRemove THEN [files EXCEPT ![CurArch] = <<>>] ELSE files
  BY <1>0, PassIsQuiet
<1>2. \A k \in Hours : Contents'[k] = Contents[k] \/ Contents'[k] = <<>>
  <2>1. \A k \in Hours : files'[k] = files[k] \/ files'[k] = <<>> BY <1>0, <1>1 DEF TypeOK
  <2> QED BY <1>1, <2>1 DEF Contents
<1>3. UidsIn(<<>>) = {} /\ OnePerUid(<<>>) /\ Agree(<<>>, Restored)
  BY DEF UidsIn, OnePerUid, Agree
<1>4. Consistent(Contents', byHour, Restored, todo)
  <2>1. \A k \in Hours : /\ OnePerUid(Contents'[k]) /\ Agree(Contents'[k], Restored)
                         /\ UidsIn(Contents'[k]) \subseteq UidsIn(Contents[k])
    BY <1>0, <1>2, <1>3 DEF Consistent
  <2> QED BY <1>0, <2>1 DEF Consistent
<1> QED BY <1>0, <1>1, <1>4 DEF CInv

LEMMA InitArchiveInv == ArchiveInit => ArchiveInv
<1> SUFFICES ASSUME ArchiveInit PROVE ArchiveInv
  OBVIOUS
<1>1. CInv BY InitIInv DEF ArchiveInit, IInv
<1>2. ASSUME NEW h \in Hours PROVE HourInv(h)
  <2>1. /\ DayFile(DayOf(h)) = <<>> /\ meta.tier[h] = "none" /\ Restored = EmptyRegistry
        /\ Content(h) = <<>>
    BY DEF ArchiveInit, Init, DayFile, Days, EmptyMeta, Restored, Content, NoFiles
  <2>2. Archives(<<>>, h, Restored, Away)
    BY <2>1 DEF Archives, UidsIn, Away, EmptyRegistry
  <2>3. UidsIn(<<>>) = {} BY DEF UidsIn
  <2> QED BY <2>1, <2>2, <2>3 DEF HourInv
<1> QED BY <1>1, <1>2 DEF ArchiveInv

LEMMA StepArchiveInv ==
    ASSUME DistinctBatches, ArchiveTypes, ArchiveControl, ArchiveInv, [ArchiveNext]_archVars
    PROVE  ArchiveInv'
<1>1. CInv /\ \A h \in Hours : Clean(h) => HourInv(h) BY DEF ArchiveInv
<1>2. CASE PushNow \/ Push
  <2>1. PoolNext /\ stale \subseteq stale' /\ cut' = cut BY <1>2, PushIsAlone
  <2>2. CInv' BY <1>1, <2>1, StepInvariants
  <2>3. ASSUME NEW h \in Hours, Clean(h)' PROVE HourInv(h)'
    <3>1. Clean(h) BY <2>1, <2>3 DEF Clean
    <3> QED BY <1>1, <1>2, <2>3, <3>1, PushKeepsHourInv
  <2> QED BY <2>2, <2>3 DEF ArchiveInv
<1>3. CASE Pass
  <2>1. Control /\ Control' /\ ArchiveTypes' BY <1>1, StepArchiveTypes, StepArchiveControl DEF CInv
  <2>2. CInv' BY <1>1, <1>3, <2>1, PassKeepsCInv
  <2>3. ASSUME NEW h \in Hours, Clean(h)' PROVE HourInv(h)'
    <3>1. stale' = stale /\ cut \subseteq cut'
      <4>1. CASE ArchiveCrash BY <4>1 DEF ArchiveCrash
      <4>2. CASE ~ArchiveCrash BY <1>3, <2>1, <4>2, PassIsQuiet
      <4> QED BY <4>1, <4>2
    <3>2. Clean(h) BY <2>3, <3>1 DEF Clean
    <3> QED BY <1>1, <1>3, <2>3, <3>2, PassKeepsHourInv
  <2> QED BY <2>2, <2>3 DEF ArchiveInv
<1>4. CASE UNCHANGED archVars
  <2>1. UNCHANGED poolVars BY <1>4 DEF archVars
  <2>2. CInv' BY <1>1, <2>1, StepInvariants
  <2>3. ASSUME NEW h \in Hours
        PROVE  (HourInv(h)' <=> HourInv(h)) /\ (Clean(h)' <=> Clean(h))
    <3>1. /\ \A k : /\ Waiting(k)' = Waiting(k) /\ (Untold(k)' <=> Untold(k))
                    /\ Content(k)' = Content(k) /\ (AtIndex(k)' <=> AtIndex(k))
          /\ \A d : DayFile(d)' = DayFile(d) /\ MonthFile(d)' = MonthFile(d)
          /\ Restored' = Restored /\ byHour' = byHour /\ meta' = meta
          /\ stale' = stale /\ cut' = cut
      BY <1>4 DEF archVars, poolVars, Waiting, Moved, Untold, Content, CurHour, CurArch, CurDay,
         DayFile, MonthFile, Restored, Current, AtIndex
    <3>2. Away' = Away BY <3>1 DEF Away
    <3> QED BY <3>1, <3>2 DEF HourInv, Clean
  <2> QED BY <1>1, <2>2, <2>3 DEF ArchiveInv
<1> QED BY <1>2, <1>3, <1>4 DEF ArchiveNext, Pass

\* What the class in a file is, where the file holds each uid once.
LEMMA ClassInAgrees ==
    ASSUME NEW f \in Seq(Record), NEW R, OnePerUid(f), Agree(f, R), NEW u
    PROVE  /\ Holds(f, u) = {} <=> u \notin UidsIn(f)
           /\ u \in UidsIn(f) => R[u] = ClassIn(f, u)
<1>1. Holds(f, u) = {} <=> u \notin UidsIn(f) BY DEF Holds, UidsIn
<1>2. ASSUME u \in UidsIn(f) PROVE R[u] = ClassIn(f, u)
  <2>1. \E i \in DOMAIN f : f[i].uid = u BY <1>2 DEF UidsIn
  <2> DEFINE k == CHOOSE i \in DOMAIN f : f[i].uid = u
  <2>2. k \in DOMAIN f /\ f[k].uid = u BY <2>1
  <2>3. ClassIn(f, u) = f[k].class BY DEF ClassIn
  <2> HIDE DEF k
  <2> QED BY <2>2, <2>3 DEF Agree
<1> QED BY <1>1, <1>2

LEMMA ArchiveReads ==
    ASSUME ArchiveTypes, ArchiveInv
    PROVE  ReadOnce
<1> SUFFICES ASSUME pc = "idle", archPc \in {"idle", "hour", "month"}, NEW h \in Hours, Clean(h),
                    ~Pending(h)
             PROVE  /\ OnePerUid(ReadHour(h))
                    /\ \A u \in Uids : HourOf[u] = h =>
                          IF Holds(ReadHour(h), u) = {} THEN registry[u] = "none"
                          ELSE registry[u] = ClassIn(ReadHour(h), u)
  BY DEF ReadOnce, Clean
<1>1. /\ Consistent(Contents, byHour, Restored, todo) /\ HourInv(h) /\ byHour = NoFiles
      /\ Restored = registry
  BY DEF ArchiveInv, CInv, Control, Restored
<1>2. /\ DayFile(DayOf(h)) = daily[DayOf(h)] /\ MonthFile(DayOf(h)) = monthly[DayOf(h)]
      /\ Waiting(h) = files[h] /\ Content(h) = files[h] /\ ~Untold(h)
  BY DEF DayFile, MonthFile, Waiting, Moved, Content, Untold
<1>3. /\ daily[DayOf(h)] \in Seq(Record) /\ monthly[DayOf(h)] \in Seq(Record)
      /\ files[h] \in Seq(Record) /\ meta.tier[h] \in Tiers
  BY <1>2, ArchiveFileTypes
<1>4. UidsIn(byHour[h]) = {} /\ UidsIn(<<>>) = {} BY <1>1 DEF NoFiles, UidsIn
<1>5. \A u \in Uids : HourOf[u] = h => (u \in Away <=> registry[u] # "none" /\ u \notin UidsIn(files[h]))
  BY <1>1, <1>2, <1>4 DEF Away
<1>6. CASE meta.tier[h] \in {"daily", "monthly"}
  <2>1. PICK f \in Seq(Record) : ReadHour(h) = OfHour(f, h) /\ Archives(f, h, registry, Away)
    <3>1. CASE meta.tier[h] = "daily" BY <1>1, <1>2, <1>3, <3>1 DEF ReadHour, HourInv
    <3>2. CASE meta.tier[h] = "monthly" BY <1>1, <1>2, <1>3, <3>2 DEF ReadHour, HourInv
    <3> QED BY <1>6, <3>1, <3>2
  <2>2. files[h] = <<>> BY <1>6 DEF Pending
  <2>3. /\ OnePerUid(OfHour(f, h)) /\ Agree(OfHour(f, h), registry)
        /\ \A u \in Uids : HourOf[u] = h => (u \in UidsIn(OfHour(f, h)) <=> u \in Away)
    BY <2>1, OfHourIs
  <2>4. OfHour(f, h) \in Seq(Record) BY <2>1, OfHourIs
  <2>5. \A u \in Uids : HourOf[u] = h =>
           /\ Holds(OfHour(f, h), u) = {} <=> registry[u] = "none"
           /\ registry[u] # "none" => registry[u] = ClassIn(OfHour(f, h), u)
    BY <1>4, <1>5, <2>2, <2>3, <2>4, ClassInAgrees
  <2> QED BY <2>1, <2>3, <2>5
<1>7. CASE meta.tier[h] \in {"none", "active"}
  <2>1. ReadHour(h) = files[h] BY <1>7 DEF ReadHour
  <2>2. OnePerUid(files[h]) /\ Agree(files[h], registry)
    BY <1>1, <1>2 DEF Consistent, Contents
  <2>3. \A u \in Uids : HourOf[u] = h => u \notin Away
    BY <1>1, <1>2, <1>7 DEF HourInv, Archives
  <2>4. \A u \in Uids : HourOf[u] = h =>
           IF Holds(files[h], u) = {} THEN registry[u] = "none"
           ELSE registry[u] = ClassIn(files[h], u)
    BY <1>3, <1>5, <2>2, <2>3, ClassInAgrees
  <2> QED BY <2>1, <2>2, <2>4
<1> QED BY <1>3, <1>6, <1>7 DEF Tiers

\* Replace-or-push across the tiers: with batches that name no uid twice, the reader
\* of an hour finds each of its accepted records exactly once and with the class it
\* is registered with, however its hours were moved into the day and the day was
\* copied into the month - but for the hours a replacement has missed, those with a
\* late record that waits for the next pass, and the days a crash has cut.
THEOREM ArchiveReadOnce == ASSUME DistinctBatches PROVE ArchiveSpec => []ReadOnce
<1> DEFINE I == ArchiveTypes /\ Control /\ ArchiveControl /\ ArchiveInv
<1>1. ArchiveInit => I BY InitArchiveTypes, InitArchiveControl, InitArchiveInv
<1>2. I /\ [ArchiveNext]_archVars => I'
  BY StepArchiveTypes, StepArchiveControl, StepArchiveInv
<1>3. I => ReadOnce BY ArchiveReads
<1> QED BY <1>1, <1>2, <1>3, PTL DEF ArchiveSpec

\* However passes have emptied hours whose uids stay registered, and wherever a crash has cut
\* one: what the active files hold between two calls is there once, and registered with the
\* class it has.
THEOREM ArchiveStoredAsRegistered ==
    ASSUME DistinctBatches PROVE ArchiveSpec => []StoredAsRegistered
<1> DEFINE I == ArchiveTypes /\ Control /\ ArchiveControl /\ ArchiveInv
<1>1. ArchiveInit => I BY InitArchiveTypes, InitArchiveControl, InitArchiveInv
<1>2. I /\ [ArchiveNext]_archVars => I'
  BY StepArchiveTypes, StepArchiveControl, StepArchiveInv
<1>3. I => StoredAsRegistered BY ConsistentStores DEF ArchiveInv
<1> QED BY <1>1, <1>2, <1>3, PTL DEF ArchiveSpec

-----------------------------------------------------------------------------
(* Ranges of days *)

\* The days before some day are finitely many, and so are their hours.
LEMMA FiniteDays ==
    ASSUME NEW d2 \in Nat
    PROVE  /\ \A D \in SUBSET {d \in Days : d <= d2} : IsFiniteSet(D)
           /\ \A S \in SUBSET {h \in Hours : DayOf(h) < d2} : IsFiniteSet(S)
<1>1. \A h \in Hours : h \in Nat /\ DayOf(h) \in Nat /\ h < HoursPerDay * (DayOf(h) + 1)
  BY HoursAssumption, CalendarAssumption DEF DayOf
<1>2. HoursPerDay \in Nat /\ HoursPerDay * d2 \in Nat BY CalendarAssumption
<1>3. {d \in Days : d <= d2} \subseteq 0 .. d2 BY <1>1 DEF Days
<1>4. {h \in Hours : DayOf(h) < d2} \subseteq 0 .. HoursPerDay * d2
  <2> SUFFICES ASSUME NEW h \in Hours, DayOf(h) < d2 PROVE h \in 0 .. HoursPerDay * d2
    OBVIOUS
  <2>1. DayOf(h) + 1 <= d2 BY <1>1
  <2>2. HoursPerDay * (DayOf(h) + 1) <= HoursPerDay * d2 BY <1>1, <1>2, <2>1
  <2> QED BY <1>1, <1>2, <2>2
<1>5. IsFiniteSet(0 .. d2) /\ IsFiniteSet(0 .. HoursPerDay * d2) BY <1>2, FS_Interval
<1> QED BY <1>3, <1>4, <1>5, FS_Subset

\* What the records of some hours hold.
LEMMA RecordsOfIs ==
    ASSUME NEW S \in SUBSET Hours, IsFiniteSet(S), \A h \in S : IsSeq(ReadHour(h))
    PROVE  \A y : y \in Range(RecordsOf(S)) <=> \E h \in S : y \in Range(ReadHour(h))
<1> DEFINE F == [h \in S |-> ReadHour(h)]
           Rec(f) == f = [s \in SUBSET S |-> IF s = {} THEN <<>>
                             ELSE f[s \ {CHOOSE x \in s : TRUE}] \o ReadHour(CHOOSE x \in s : TRUE)]
           it == CHOOSE f : Rec(f)
<1>1. RecordsOf(S) = it[S] BY DEF RecordsOf, FoldSet, MapThenFoldSet
<1>2. ASSUME NEW s \in SUBSET S, s # {}
      PROVE  ReadHour(CHOOSE x \in s : TRUE) = F[CHOOSE x \in s : TRUE]
  <2> DEFINE c == CHOOSE x \in s : TRUE
  <2>1. c \in S BY <1>2
  <2> HIDE DEF c
  <2>2. ReadHour(c) = F[c] BY <2>1
  <2> QED BY <2>2 DEF c
<1> HIDE DEF F
<1>3. \A f : Rec(f) <=> Gathers(f, S, <<>>, F) BY <1>2 DEF Gathers
<1>4. \E f : Gathers(f, S, <<>>, F) BY SomethingGathers
<1> HIDE DEF Rec
<1>5. Rec(it) BY <1>3, <1>4
<1> HIDE DEF it
<1>6. Gathers(it, S, <<>>, F) BY <1>3, <1>5
<1>7. \A h \in S : IsSeq(F[h]) /\ F[h] = ReadHour(h) BY DEF F
<1>8. IsSeq(<<>>) /\ Range(<<>>) = {} BY EmptyIsSeq
<1>9. \A y : y \in Range(it[S]) <=> y \in Range(<<>>) \/ \E x \in S : y \in Range(F[x])
  BY <1>6, <1>7, <1>8, WhatGathers
<1> QED BY <1>1, <1>7, <1>8, <1>9

\* query_range returns the archived days and the active hours of its range.
LEMMA QueryRangeHas ==
    ASSUME ArchiveTypeOK, NEW d1, NEW d2 \in Nat
    PROVE  /\ \A d \in Days : d1 <= d /\ d <= d2 =>
                Range(daily[d]) \cup Range(monthly[d]) \subseteq Range(QueryRange(d1, d2))
           /\ \A h \in Hours : meta.tier[h] = "active" /\ d1 <= DayOf(h) /\ DayOf(h) < d2 =>
                Range(files[h]) \subseteq Range(QueryRange(d1, d2))
<1> DEFINE D == {d \in Days : d1 <= d /\ d <= d2}
           S == {h \in Hours : meta.tier[h] = "active" /\ d1 <= DayOf(h) /\ DayOf(h) < d2}
           F == [d \in D |-> daily[d] \o monthly[d]]
           active == CHOOSE f : f = [s \in SUBSET S |-> IF s = {} THEN <<>>
                          ELSE f[s \ {CHOOSE x \in s : TRUE}] \o files[CHOOSE x \in s : TRUE]]
           Rec(f) == f = [s \in SUBSET D |-> IF s = {} THEN active[S]
                          ELSE f[s \ {CHOOSE x \in s : TRUE}] \o
                               (daily[CHOOSE x \in s : TRUE] \o monthly[CHOOSE x \in s : TRUE])]
           it == CHOOSE f : Rec(f)
<1>1. QueryRange(d1, d2) = it[D] BY DEF QueryRange, FoldSet, MapThenFoldSet
<1>2. IsFiniteSet(D) /\ IsFiniteSet(S) BY FiniteDays
<1>3. D \subseteq Days /\ S \subseteq Hours OBVIOUS
<1>4. /\ \A d \in Days : IsSeq(daily[d]) /\ IsSeq(monthly[d])
      /\ \A h \in Hours : IsSeq(files[h])
  <2>1. /\ \A d \in Days : daily[d] \in Seq(Record) /\ monthly[d] \in Seq(Record)
        /\ \A h \in Hours : files[h] \in Seq(Record)
    BY DEF ArchiveTypeOK, TypeOK
  <2> QED BY <2>1, SeqIsSeq
<1> HIDE DEF D, S
<1>5. IsSeq(active[S]) /\ \A h \in S : Range(files[h]) \subseteq Range(active[S])
  <2>1. \E f : Gathers(f, S, <<>>, files) BY <1>2, SomethingGathers
  <2>2. Gathers(active, S, <<>>, files) BY <2>1 DEF Gathers
  <2> HIDE DEF active
  <2>3. IsSeq(<<>>) /\ \A h \in S : IsSeq(files[h]) BY <1>3, <1>4, EmptyIsSeq
  <2>4. /\ IsSeq(active[S])
        /\ \A y : y \in Range(active[S]) <=> y \in Range(<<>>) \/ \E x \in S : y \in Range(files[x])
    <3> DEFINE G == files
    <3>1. IsFiniteSet(S) /\ IsSeq(<<>>) /\ (\A h \in S : IsSeq(G[h])) /\ Gathers(active, S, <<>>, G)
      BY <1>2, <2>2, <2>3
    <3> HIDE DEF G
    <3>2. /\ IsSeq(active[S])
          /\ \A y : y \in Range(active[S]) <=> y \in Range(<<>>) \/ \E x \in S : y \in Range(G[x])
      BY <3>1, WhatGathers
    <3> QED BY <3>2 DEF G
  <2> QED BY <2>4
<1> HIDE DEF active
<1>6. ASSUME NEW s \in SUBSET D, s # {}
      PROVE  daily[CHOOSE x \in s : TRUE] \o monthly[CHOOSE x \in s : TRUE]
                = F[CHOOSE x \in s : TRUE]
  <2> DEFINE c == CHOOSE x \in s : TRUE
  <2>1. c \in D BY <1>6
  <2> HIDE DEF c
  <2>2. daily[c] \o monthly[c] = F[c] BY <2>1
  <2> QED BY <2>2 DEF c
<1>7. \A d \in D : /\ IsSeq(F[d])
                   /\ Range(F[d]) = Range(daily[d]) \cup Range(monthly[d])
  BY <1>3, <1>4, ConcatIsSeq
<1> HIDE DEF F
<1>8. \A f : Rec(f) <=> Gathers(f, D, active[S], F)
  <2> TAKE f
  <2> DEFINE g == [s \in SUBSET D |-> IF s = {} THEN active[S]
                     ELSE f[s \ {CHOOSE x \in s : TRUE}] \o
                          (daily[CHOOSE x \in s : TRUE] \o monthly[CHOOSE x \in s : TRUE])]
             h == [s \in SUBSET D |-> IF s = {} THEN active[S]
                     ELSE f[s \ {CHOOSE x \in s : TRUE}] \o F[CHOOSE x \in s : TRUE]]
  <2>1. ASSUME NEW s \in SUBSET D PROVE g[s] = h[s]
    <3>1. CASE s = {} BY <3>1
    <3>2. CASE s # {}
      <4> DEFINE c == CHOOSE x \in s : TRUE
      <4>1. daily[c] \o monthly[c] = F[c] BY <1>6, <3>2
      <4>2. g[s] = f[s \ {c}] \o (daily[c] \o monthly[c]) BY <3>2
      <4>3. h[s] = f[s \ {c}] \o F[c] BY <3>2
      <4> HIDE DEF c, g, h
      <4> QED BY <4>1, <4>2, <4>3
    <3> QED BY <3>1, <3>2
  <2>2. g = h BY <2>1
  <2>3. Rec(f) <=> f = g OBVIOUS
  <2>4. Gathers(f, D, active[S], F) <=> f = h BY DEF Gathers
  <2> HIDE DEF g, h
  <2> QED BY <2>2, <2>3, <2>4
<1>9. \E f : Gathers(f, D, active[S], F) BY <1>2, SomethingGathers
<1> HIDE DEF Rec
<1>10. Rec(it) BY <1>8, <1>9
<1> HIDE DEF it
<1>11. Gathers(it, D, active[S], F) BY <1>8, <1>10
<1>12. \A y : y \in Range(it[D]) <=> y \in Range(active[S]) \/ \E d \in D : y \in Range(F[d])
  BY <1>2, <1>5, <1>7, <1>11, WhatGathers
<1>13. \A d \in D : Range(daily[d]) \cup Range(monthly[d]) \subseteq Range(it[D])
  BY <1>7, <1>12
<1>14. \A h \in S : Range(files[h]) \subseteq Range(it[D]) BY <1>5, <1>12
<1> QED BY <1>1, <1>13, <1>14 DEF D, S

\* The records of one hour are records of the file.
LEMMA OfHourWithin ==
    ASSUME NEW f \in Seq(Record), NEW h
    PROVE  IsSeq(OfHour(f, h)) /\ Range(OfHour(f, h)) \subseteq Range(f)
<1> DEFINE n == Len(f)
           qs == [i \in 1 .. n |-> IF HourOf[f[i].uid] = h THEN <<f[i]>> ELSE <<>>]
<1>1. n \in Nat /\ DOMAIN f = 1 .. n OBVIOUS
<1>2. OfHour(f, h) = FlattenSeq(qs) BY <1>1 DEF OfHour
<1>3. \A i \in 1 .. n : IsSeq(qs[i]) /\ Range(qs[i]) \subseteq {f[i]}
  <2> SUFFICES ASSUME NEW i \in 1 .. n PROVE IsSeq(qs[i]) /\ Range(qs[i]) \subseteq {f[i]}
    OBVIOUS
  <2>1. CASE HourOf[f[i].uid] = h
    <3>1. qs[i] = <<f[i]>> BY <2>1
    <3>2. <<f[i]>> \in Seq({f[i]}) /\ Range(<<f[i]>>) = {f[i]} BY DEF Range
    <3> QED BY <3>1, <3>2, SeqIsSeq
  <2>2. CASE HourOf[f[i].uid] # h
    <3>1. qs[i] = <<>> BY <2>2
    <3> QED BY <3>1, EmptyIsSeq
  <2> QED BY <2>1, <2>2
<1>4. qs = [i \in 1 .. n |-> qs[i]] OBVIOUS
<1> HIDE DEF qs, n
<1>5. /\ IsSeq(FlattenSeq(qs))
      /\ \A x : x \in Range(FlattenSeq(qs)) <=> \E i \in 1 .. n : x \in Range(qs[i])
  BY <1>1, <1>3, <1>4, FlattenedSeq
<1>6. \A i \in 1 .. n : f[i] \in Range(f) BY <1>1 DEF Range
<1> QED BY <1>2, <1>3, <1>5, <1>6

LEMMA RangeFinds == ArchiveTypes => RangeFindsAll
<1> SUFFICES ASSUME ArchiveTypes, NEW d1 \in Days \cup {Today}, NEW d2 \in Days \cup {Today}
             PROVE  Range(RecordsOf({h \in Indexed : d1 <= DayOf(h) /\ DayOf(h) < d2}))
                      \subseteq Range(QueryRange(d1, d2))
  BY DEF RangeFindsAll
<1> DEFINE S == {h \in Indexed : d1 <= DayOf(h) /\ DayOf(h) < d2}
<1>1. ArchiveTypeOK BY DEF ArchiveTypes
<1>2. d2 \in Nat /\ \A h \in Hours : DayOf(h) \in Nat /\ DayOf(h) \in Days
  <2>1. now \in Nat BY <1>1, AgesAssumption DEF ArchiveTypeOK
  <2>2. Hours \subseteq Nat BY HoursAssumption
  <2> QED BY <2>1, <2>2, CalendarAssumption DEF Today, Days, DayOf
<1>3. S \in SUBSET Hours /\ IsFiniteSet(S)
  <2>1. S \in SUBSET {h \in Hours : DayOf(h) < d2} BY DEF Indexed
  <2> QED BY <1>2, <2>1, FiniteDays
<1>4. /\ \A d \in Days : daily[d] \in Seq(Record) /\ monthly[d] \in Seq(Record)
      /\ \A h \in Hours : files[h] \in Seq(Record) /\ meta.tier[h] \in Tiers
  BY <1>1 DEF ArchiveTypeOK, TypeOK, Meta
<1>5. \A h \in S : /\ IsSeq(ReadHour(h))
                   /\ Range(ReadHour(h)) \subseteq Range(QueryRange(d1, d2))
  <2> SUFFICES ASSUME NEW h \in S
               PROVE  IsSeq(ReadHour(h)) /\ Range(ReadHour(h)) \subseteq Range(QueryRange(d1, d2))
    OBVIOUS
  <2>1. /\ h \in Hours /\ meta.tier[h] # "none" /\ DayOf(h) \in Days
        /\ d1 <= DayOf(h) /\ DayOf(h) < d2 /\ DayOf(h) <= d2
    BY <1>2 DEF Indexed
  <2>2. Range(daily[DayOf(h)]) \cup Range(monthly[DayOf(h)]) \subseteq Range(QueryRange(d1, d2))
    BY <1>1, <1>2, <2>1, QueryRangeHas
  <2>3. CASE meta.tier[h] = "daily"
    <3>1. ReadHour(h) = OfHour(daily[DayOf(h)], h) BY <2>3 DEF ReadHour
    <3> QED BY <1>4, <2>1, <2>2, <3>1, OfHourWithin
  <2>4. CASE meta.tier[h] = "monthly"
    <3>1. ReadHour(h) = OfHour(monthly[DayOf(h)], h) BY <2>4 DEF ReadHour
    <3> QED BY <1>4, <2>1, <2>2, <3>1, OfHourWithin
  <2>5. CASE meta.tier[h] = "active"
    <3>1. ReadHour(h) = files[h] BY <2>5 DEF ReadHour
    <3>2. Range(files[h]) \subseteq Range(QueryRange(d1, d2))
      BY <1>1, <1>2, <2>1, <2>5, QueryRangeHas
    <3>3. IsSeq(files[h]) BY <1>4, <2>1, SeqIsSeq
    <3> QED BY <3>1, <3>2, <3>3
  <2> QED BY <1>4, <2>1, <2>3, <2>4, <2>5 DEF Tiers
<1> HIDE DEF S
<1>6. \A y : y \in Range(RecordsOf(S)) <=> \E h \in S : y \in Range(ReadHour(h))
  BY <1>3, <1>5, RecordsOfIs
<1>7. Range(RecordsOf(S)) \subseteq Range(QueryRange(d1, d2)) BY <1>5, <1>6
<1> QED BY <1>7 DEF S

\* query_range finds whatever query_by_hour_key finds for the hours before the last
\* day of the range, in each of the three tiers and at all times.
THEOREM ArchiveRangeFindsAll == ArchiveSpec => []RangeFindsAll
<1>1. ArchiveInit => ArchiveTypes BY InitArchiveTypes
<1>2. ArchiveTypes /\ [ArchiveNext]_archVars => ArchiveTypes' BY StepArchiveTypes
<1> QED BY <1>1, <1>2, RangeFinds, PTL DEF ArchiveSpec

-----------------------------------------------------------------------------
(* The logs of a file *)

LogFor(r) == [source |-> LogOf[r.uid].source, model |-> LogOf[r.uid].model,
              project |-> LogOf[r.uid].project, name |-> LogOf[r.uid].name,
              class |-> r.class, hour |-> HourOf[r.uid], tokens |-> r.val]

Logs     == {LogFor(r) : r \in Record}
LogKeys  == {KeyOf(x)[d] : x \in Logs, d \in Dims}
Projects == {x.project : x \in Logs}
Names    == {x.name : x \in Logs}

LEMMA LogsFit == Fits(Logs, LogKeys, Projects, Names)
<1>1. \A r \in Record : LogFor(r).tokens \in Nat BY ValsAssumption DEF LogFor, Record
<1>2. LogSet(Logs) BY <1>1 DEF LogSet, Logs
<1> QED BY <1>2 DEF Fits, LogKeys, Projects, Names

LEMMA LogsOfIs ==
    ASSUME NEW p \in Seq(Record)
    PROVE  /\ LogsOf(p) \in Seq(Logs) /\ Len(LogsOf(p)) = Len(p)
           /\ \A i \in 1 .. Len(p) : LogsOf(p)[i] = LogFor(p[i])
<1>1. /\ Len(p) \in Nat /\ DOMAIN p = 1 .. Len(p) /\ \A i \in 1 .. Len(p) : p[i] \in Record
  OBVIOUS
<1>2. LogsOf(p) = [i \in 1 .. Len(p) |-> LogFor(p[i])] BY <1>1 DEF LogsOf, LogFor
<1>3. \A i \in 1 .. Len(p) : LogFor(p[i]) \in Logs BY <1>1 DEF Logs
<1> QED BY <1>1, <1>2, <1>3

LEMMA LogsOfConcat ==
    ASSUME NEW p \in Seq(Record), NEW q \in Seq(Record)
    PROVE  LogsOf(p \o q) = LogsOf(p) \o LogsOf(q)
<1>1. PICK w \in Seq(Record) : w = p \o q
  <2>1. p \o q \in Seq(Record) BY ConcatProperties
  <2> QED BY <2>1
<1>2. /\ Len(w) = Len(p) + Len(q) /\ \A i \in 1 .. Len(p) + Len(q) :
            w[i] = IF i <= Len(p) THEN p[i] ELSE q[i - Len(p)]
  BY <1>1
<1>3. PICK a \in Seq(Logs) : a = LogsOf(p) /\ Len(a) = Len(p) /\ \A i \in 1 .. Len(p) : a[i] = LogFor(p[i])
  BY LogsOfIs
<1>4. PICK b \in Seq(Logs) : b = LogsOf(q) /\ Len(b) = Len(q) /\ \A i \in 1 .. Len(q) : b[i] = LogFor(q[i])
  BY LogsOfIs
<1>5. PICK c \in Seq(Logs) : c = LogsOf(w) /\ Len(c) = Len(w) /\ \A i \in 1 .. Len(w) : c[i] = LogFor(w[i])
  BY LogsOfIs
<1>6. PICK e \in Seq(Logs) : e = a \o b
  <2>1. a \o b \in Seq(Logs) BY ConcatProperties
  <2> QED BY <2>1
<1>7. Len(e) = Len(c) /\ Len(p) \in Nat /\ Len(q) \in Nat
  <2>1. Len(a) = Len(p) /\ Len(b) = Len(q) /\ Len(c) = Len(w) BY <1>3, <1>4, <1>5
  <2>2. Len(e) = Len(a) + Len(b) BY <1>6
  <2>3. Len(p) \in Nat /\ Len(q) \in Nat OBVIOUS
  <2> QED BY <1>2, <2>1, <2>2, <2>3
<1>8. ASSUME NEW i \in 1 .. Len(c) PROVE e[i] = c[i]
  <2>1. e[i] = IF i <= Len(a) THEN a[i] ELSE b[i - Len(a)] BY <1>6, <1>7, <1>3, <1>4
  <2>2. CASE i <= Len(p)
    <3>1. i \in 1 .. Len(p) /\ i \in 1 .. Len(w) BY <1>2, <1>5, <1>7, <2>2
    <3> QED BY <1>2, <1>3, <1>5, <2>1, <2>2, <3>1
  <2>3. CASE ~(i <= Len(p))
    <3>1. i - Len(p) \in 1 .. Len(q) /\ i \in 1 .. Len(w) BY <1>2, <1>5, <1>7, <2>3
    <3> QED BY <1>2, <1>3, <1>4, <1>5, <2>1, <2>3, <3>1
  <2> QED BY <2>2, <2>3
<1>9. e = c
  <2>1. DOMAIN e = 1 .. Len(c) /\ DOMAIN c = 1 .. Len(c) BY <1>7
  <2> QED BY <1>8, <2>1
<1> QED BY <1>1, <1>3, <1>4, <1>5, <1>6, <1>9

\* What the records of gathered files add up to.
LEMMA GatheredSums ==
    ASSUME NEW S, IsFiniteSet(S), NEW F, \A x \in S : F[x] \in Seq(Record),
           NEW it, Gathers(it, S, <<>>, F), NEW dim \in Dims
    PROVE  /\ it[S] \in Seq(Record)
           /\ Sums(RefBy(LogsOf(it[S]), dim), [x \in S |-> RefBy(LogsOf(F[x]), dim)], S)
<1> DEFINE fam == [x \in S |-> RefBy(LogsOf(F[x]), dim)]
           H == {s \in SUBSET S : it[s] \in Seq(Record) /\ Sums(RefBy(LogsOf(it[s]), dim), fam, s)}
<1>1. \A s \in SUBSET S : it[s] = IF s = {} THEN <<>>
                             ELSE it[s \ {CHOOSE x \in s : TRUE}] \o F[CHOOSE x \in s : TRUE]
  BY DEF Gathers
<1>2. ASSUME NEW r \in Seq(Record) PROVE RefBy(LogsOf(r), dim) \in MapsTo(LogKeys, Amounts)
  <2>1. PICK l \in Seq(Logs) : l = LogsOf(r) BY LogsOfIs
  <2>2. RefBy(l, dim) \in MapsTo(LogKeys, Amounts) BY LogsFit, RefByIs
  <2> QED BY <2>1, <2>2
<1>3. fam \in [S -> MapsTo(LogKeys, Amounts)] /\ \A x \in S : fam[x] = RefBy(LogsOf(F[x]), dim)
  BY <1>2
<1> HIDE DEF fam
<1>4. {} \in H
  <2>1. it[{}] = <<>> /\ <<>> \in Seq(Record)
    <3>1. <<>> \in Seq(Record) /\ {} \in SUBSET S OBVIOUS
    <3>2. it[{}] = <<>> BY <1>1, <3>1
    <3> QED BY <3>1, <3>2
  <2>2. LogsOf(<<>>) = <<>> BY DEF LogsOf
  <2>3. RefBy(LogsOf(<<>>), dim) = <<>> BY <2>2, RefByEmpty
  <2>4. Sums(<<>>, fam, {}) BY SumsNone
  <2> QED BY <2>1, <2>3, <2>4
<1>5. ASSUME NEW s \in SUBSET S, s # {} PROVE \E x \in s : s \ {x} \in H => s \in H
  <2>1. PICK x \in s : x = CHOOSE y \in s : TRUE BY <1>5
  <2>2. ASSUME s \ {x} \in H PROVE s \in H
    <3>1. PICK p \in Seq(Record) : p = it[s \ {x}] BY <2>2
    <3>2. PICK q \in Seq(Record) : q = F[x] OBVIOUS
    <3>3. it[s] = p \o q BY <1>1, <1>5, <2>1, <3>1, <3>2
    <3>4. p \o q \in Seq(Record) BY ConcatProperties
    <3>5. PICK a \in Seq(Logs) : a = LogsOf(p) BY LogsOfIs
    <3>6. PICK b \in Seq(Logs) : b = LogsOf(q) BY LogsOfIs
    <3>7. LogsOf(it[s]) = a \o b BY <3>3, <3>5, <3>6, LogsOfConcat
    <3>8. RefBy(a \o b, dim) = AddMaps(RefBy(a, dim), RefBy(b, dim)) BY LogsFit, RefByConcat
    <3>9. PICK f \in MapsTo(LogKeys, Amounts) : f = RefBy(a, dim) BY <1>2, <3>5
    <3>10. RefBy(b, dim) = fam[x] BY <1>3, <3>2, <3>6
    <3>11. PICK Z \in SUBSET S : Z = s \ {x} OBVIOUS
    <3>12. Sums(f, fam, Z) BY <2>2, <3>1, <3>5, <3>9, <3>11
    <3>13. IsFiniteSet(Z) /\ x \notin Z BY <3>11, FS_Subset
    <3>14. Sums(AddMaps(f, fam[x]), fam, Z \cup {x}) BY <1>3, <3>12, <3>13, SumsWith
    <3>15. Z \cup {x} = s BY <3>11
    <3> QED BY <3>3, <3>4, <3>7, <3>8, <3>9, <3>10, <3>14, <3>15
  <2> QED BY <2>2
<1> HIDE DEF H
<1>6. S \in H BY <1>4, <1>5, RemovalInduction
<1> QED BY <1>6 DEF H, fam

-----------------------------------------------------------------------------
(* MonthDigestExact *)

\* The digest of a day that no crash has cut is the one of what its file holds,
\* but for the day whose file is ahead of its digest.
DigestInv ==
    /\ archPc = "digest" => daily[CurDay] = archBuf
    /\ \A d \in DOMAIN digests :
          \/ d \in cut \/ (archPc \in {"write", "digest"} /\ d = CurDay)
          \/ digests[d] = BuildDaily(d, LogsOf(daily[d]))

LEMMA InitDigestInv == ArchiveInit => DigestInv
<1>1. DOMAIN <<>> = {} OBVIOUS
<1> QED BY <1>1 DEF ArchiveInit, DigestInv

LEMMA StepDigestInv == ArchiveTypes /\ DigestInv /\ [ArchiveNext]_archVars => DigestInv'
<1> SUFFICES ASSUME ArchiveTypes, DigestInv, [ArchiveNext]_archVars PROVE DigestInv'
  OBVIOUS
<1>0. /\ archTodo \subseteq Hours /\ daily \in [Days -> Seq(Record)]
      /\ archPc \notin {"idle", "hour", "month"} => archTodo # {}
      /\ DOMAIN digests \subseteq Days
  BY DEF ArchiveTypes, ArchiveTypeOK
<1>1. archTodo # {} => CurDay \in Days BY <1>0, CurArchIs
<1> USE DEF archFiles, archCall
<1>2. ASSUME daily' = daily, digests' = digests, cut' = cut,
             archPc \notin {"write", "digest"}, archPc' # "digest"
      PROVE  DigestInv'
  BY <1>2 DEF DigestInv
<1>3. CASE PushNow \/ Push
  <2>1. archPc = "idle" /\ archPc' = "idle" /\ cut' = cut BY <1>3, PushIsAlone
  <2>2. daily' = daily /\ digests' = digests BY <1>3 DEF PushNow, Push
  <2> QED BY <1>2, <2>1, <2>2
<1>4. CASE Tick \/ ArchiveBegin BY <1>2, <1>4 DEF Tick, ArchiveBegin, Quiet
<1>5. CASE ArchiveSkip \/ ArchiveRead BY <1>2, <1>5 DEF ArchiveSkip, ArchiveRead
<1>6. CASE ArchiveCreate
  <2>1. /\ archPc = "create" /\ archPc' = "write" /\ daily' = [daily EXCEPT ![CurDay] = <<>>]
        /\ digests' = digests /\ cut' = cut /\ archTodo' = archTodo
    BY <1>6 DEF ArchiveCreate
  <2>2. CurDay' = CurDay BY <2>1 DEF CurDay
  <2>3. \A d \in Days : d # CurDay => daily'[d] = daily[d] BY <1>0, <2>1
  <2> QED BY <1>0, <2>1, <2>2, <2>3 DEF DigestInv
<1>7. CASE ArchiveWrite
  <2>1. /\ archPc = "write" /\ archPc' = "digest" /\ daily' = [daily EXCEPT ![CurDay] = archBuf]
        /\ digests' = digests /\ cut' = cut /\ archTodo' = archTodo /\ archBuf' = archBuf
    BY <1>7 DEF ArchiveWrite
  <2>2. CurDay' = CurDay /\ CurDay \in Days BY <1>0, <1>1, <2>1 DEF CurDay
  <2>3. \A d \in Days : d # CurDay => daily'[d] = daily[d] BY <1>0, <2>1
  <2>4. daily'[CurDay] = archBuf BY <1>0, <2>1, <2>2
  <2> QED BY <1>0, <2>1, <2>2, <2>3, <2>4 DEF DigestInv
<1>8. CASE ArchiveDigest
  <2>1. /\ archPc = "digest" /\ archPc' = "index" /\ daily' = daily /\ cut' = cut
        /\ digests' = [d \in DOMAIN digests \cup {CurDay} |->
                          IF d = CurDay THEN BuildDaily(d, LogsOf(archBuf)) ELSE digests[d]]
    BY <1>8 DEF ArchiveDigest
  <2>2. DOMAIN digests' = DOMAIN digests \cup {CurDay} BY <2>1
  <2>3. daily[CurDay] = archBuf BY <2>1 DEF DigestInv
  <2>4. ASSUME NEW d \in DOMAIN digests'
        PROVE  d \in cut \/ digests'[d] = BuildDaily(d, LogsOf(daily[d]))
    <3>1. CASE d = CurDay BY <2>1, <2>2, <2>3, <3>1
    <3>2. CASE d # CurDay BY <2>1, <2>2, <3>2 DEF DigestInv
    <3> QED BY <3>1, <3>2
  <2> QED BY <2>1, <2>4 DEF DigestInv
<1>9. CASE ArchiveIndex \/ ArchiveRemove \/ ArchiveMonths
  BY <1>2, <1>9 DEF ArchiveIndex, ArchiveRemove, ArchiveMonths
<1>10. CASE MonthlySkip \/ MonthlyRead \/ MonthlyCreate
  BY <1>2, <1>10 DEF MonthlySkip, MonthlyRead, MonthlyCreate
<1>11. CASE MonthlyWrite \/ MonthlyIndex \/ ArchiveSave
  BY <1>2, <1>11 DEF MonthlyWrite, MonthlyIndex, ArchiveSave
<1>12. CASE ArchiveCrash
  <2>1. /\ archPc' = "idle" /\ daily' = daily /\ digests' = digests /\ cut \subseteq cut'
        /\ archPc \in {"write", "digest"} => CurDay \in cut'
    BY <1>12 DEF ArchiveCrash
  <2> QED BY <2>1 DEF DigestInv
<1>13. CASE UNCHANGED archVars BY <1>13 DEF archVars, DigestInv, CurDay
<1> QED
  BY <1>3, <1>4, <1>5, <1>6, <1>7, <1>8, <1>9, <1>10, <1>11, <1>12, <1>13
     DEF ArchiveNext, ArchiveStep

\* The digests there are of a month's days, merged, against its days' records.
LEMMA MonthDigestIs ==
    ASSUME ArchiveTypes, DigestInv, Quiet, cut = {}, NEW m \in {MonthOfDay(d) : d \in Days},
           NEW dim \in Dims \ (HourDims \cup {"month"})
    PROVE  LET days  == {d \in Days : MonthOfDay(d) = m /\ d \in DOMAIN digests}
               month == MergeToMonthly(m, SetToSeq({digests[d] : d \in days}))
               logs  == LogsOf(FoldSet(LAMBDA d, acc : acc \o daily[d], <<>>, days))
           IN  month.by[dim] = RefBy(logs, dim)
<1> DEFINE D == {d \in Days : MonthOfDay(d) = m /\ d \in DOMAIN digests}
           dig == [d \in D |-> digests[d]]
           F == daily
           Rec(f) == f = [s \in SUBSET D |-> IF s = {} THEN <<>>
                             ELSE f[s \ {CHOOSE x \in s : TRUE}] \o daily[CHOOSE x \in s : TRUE]]
           it == CHOOSE f : Rec(f)
           b == MergeToMonthly(m, SetToSeq({digests[d] : d \in D})).by[dim]
           r == FoldSet(LAMBDA d, acc : acc \o daily[d], <<>>, D)
           fam == [d \in D |-> dig[d].by[dim]]
           ref == [d \in D |-> RefBy(LogsOf(F[d]), dim)]
<1>1. r = it[D] BY DEF FoldSet, MapThenFoldSet
<1>2. dim \in MonthlyDims /\ dim \in Dims /\ dim \in Dims \ {"month"} BY DEF MonthlyDims
<1>3. D \in SUBSET Days /\ IsFiniteSet(D)
  <2>1. \A d \in Days : d \in Nat BY HoursAssumption, CalendarAssumption DEF Days, DayOf
  <2>2. DaysPerMonth \in Nat \ {0} BY CalendarAssumption
  <2>3. m \in Nat BY <2>1, <2>2 DEF MonthOfDay
  <2>4. PICK d2 \in Nat : d2 = DaysPerMonth * (m + 1) BY <2>2, <2>3
  <2>5. ASSUME NEW d \in D PROVE d <= d2
    <3>1. d \in Nat /\ d \div DaysPerMonth = m BY <2>1 DEF MonthOfDay
    <3>2. d < DaysPerMonth * (d \div DaysPerMonth + 1) BY <2>2, <3>1
    <3> QED BY <2>3, <2>4, <3>1, <3>2
  <2>6. D \in SUBSET {d \in Days : d <= d2} BY <2>5
  <2> HIDE DEF D
  <2>7. IsFiniteSet(D) BY <2>6, FiniteDays
  <2> QED BY <2>6, <2>7
<1>4. \A d \in D : F[d] \in Seq(Record) BY DEF ArchiveTypes, ArchiveTypeOK
<1>5. \A d \in D : digests[d] = BuildDaily(d, LogsOf(daily[d]))
  BY DEF DigestInv, Quiet
<1>6. {digests[d] : d \in D} = {dig[d] : d \in D} OBVIOUS
<1>7. ASSUME NEW d \in D
      PROVE  dig[d] \in Digests(Days, LogKeys) /\ dig[d].timeKey = d /\ fam[d] = ref[d]
  <2>1. PICK p \in Seq(Record) : p = daily[d] BY <1>4
  <2>2. PICK l \in Seq(Logs) : l = LogsOf(p) BY LogsOfIs
  <2>3. d \in Days /\ dig[d] = BuildDaily(d, l) BY <1>3, <1>5, <2>1, <2>2
  <2>4. BuildDaily(d, l) \in Digests(Days, LogKeys) BY <2>3, LogsFit, BuildDailyType
  <2>5. BuildDaily(d, l).timeKey = d BY LogsFit, BuildDailyIs
  <2>6. BuildDaily(d, l).by[dim] = RefBy(l, dim) BY <1>2, LogsFit, BuildDailyIs
  <2>7. F[d] = p BY <2>1
  <2>8. fam[d] = dig[d].by[dim] /\ ref[d] = RefBy(LogsOf(F[d]), dim) OBVIOUS
  <2> QED BY <2>2, <2>3, <2>4, <2>5, <2>6, <2>7, <2>8
<1> HIDE DEF D
<1>9. Gathers(it, D, <<>>, F)
  <2>1. \A f : Rec(f) <=> Gathers(f, D, <<>>, F) BY DEF Gathers
  <2>2. \E f : Gathers(f, D, <<>>, F) BY <1>3, SomethingGathers
  <2> HIDE DEF Rec
  <2>3. Rec(it) BY <2>1, <2>2
  <2> HIDE DEF it, F
  <2> QED BY <2>1, <2>3
<1> HIDE DEF F
<1>10. PICK g \in [D -> Digests(Days, LogKeys)] : g = dig /\ \A d \in D : g[d].timeKey = d
  BY <1>7
<1> HIDE DEF it
<1>11. r \in Seq(Record) /\ Sums(RefBy(LogsOf(r), dim), ref, D)
  BY <1>1, <1>2, <1>3, <1>4, <1>9, GatheredSums
<1> HIDE DEF r
<1> HIDE DEF dig
<1>12. b \in MapsTo(LogKeys, Amounts) /\ Sums(b, fam, D)
  <2>1. b = MergeToMonthly(m, SetToSeq({g[d] : d \in D})).by[dim] BY <1>6, <1>10
  <2>2. fam = [d \in D |-> g[d].by[dim]] BY <1>10
  <2> HIDE DEF b, fam
  <2>3. Merges(m, LogKeys, D, g, dim) BY <1>2, <1>3, <1>10, MergeToMonthlyIs
  <2> QED BY <2>1, <2>2, <2>3 DEF Merges
<1>13. RefBy(LogsOf(r), dim) \in MapsTo(LogKeys, Amounts)
  <2>1. PICK l \in Seq(Logs) : l = LogsOf(r) BY <1>11, LogsOfIs
  <2>2. RefBy(l, dim) \in MapsTo(LogKeys, Amounts) BY <1>2, LogsFit, RefByIs
  <2> QED BY <2>1, <2>2
<1>14. fam = ref BY <1>7
<1> HIDE DEF b, fam, ref
<1>15. b = RefBy(LogsOf(r), dim) BY <1>11, <1>12, <1>13, <1>14, SumsSame
<1> QED BY <1>15 DEF b, r, D

\* The digests of a month's days, whatever passes and late records they went
\* through, merge to what the month's day files add up to, in every dimension but
\* the hours.
THEOREM ArchiveMonthDigestExact == ArchiveSpec => []MonthDigestExact
<1>1. ArchiveInit => ArchiveTypes /\ DigestInv BY InitArchiveTypes, InitDigestInv
<1>2. ArchiveTypes /\ DigestInv /\ [ArchiveNext]_archVars => ArchiveTypes' /\ DigestInv'
  BY StepArchiveTypes, StepDigestInv
<1>3. ArchiveTypes /\ DigestInv => MonthDigestExact BY MonthDigestIs DEF MonthDigestExact
<1> QED BY <1>1, <1>2, <1>3, PTL DEF ArchiveSpec

-----------------------------------------------------------------------------
(* The records of one hour, as its day file grows *)

Slices(p, f, h) ==
    /\ p[0] = <<>> /\ p[Len(f)] = OfHour(f, h)
    /\ \A k \in 0 .. Len(f) : p[k] \in Seq(Record)
    /\ \A k \in 0 .. Len(f) - 1 :
          p[k + 1] = IF HourOf[f[k + 1].uid] = h THEN Append(p[k], f[k + 1]) ELSE p[k]

LEMMA SomeSlices ==
    ASSUME NEW f \in Seq(Record), NEW h
    PROVE  \E p : Slices(p, f, h)
<1> DEFINE n == Len(f)
           qs == [i \in 1 .. n |-> IF HourOf[f[i].uid] = h THEN <<f[i]>> ELSE <<>>]
<1>1. n \in Nat /\ DOMAIN f = 1 .. n /\ \A i \in 1 .. n : f[i] \in Record
  OBVIOUS
<1>2. OfHour(f, h) = FlattenSeq(qs) BY <1>1 DEF OfHour
<1>3. CASE n = 0
  <2>1. qs = <<>> /\ Len(qs) = 0 BY <1>3
  <2>2. OfHour(f, h) = <<>> BY <1>2, <2>1 DEF FlattenSeq
  <2> DEFINE p == [k \in {0} |-> <<>>]
  <2>3. p[0] = <<>> /\ <<>> \in Seq(Record) /\ 0 .. 0 = {0} /\ 0 .. 0 - 1 = {} OBVIOUS
  <2> HIDE DEF p
  <2>4. Slices(p, f, h) BY <1>3, <2>2, <2>3 DEF Slices
  <2> QED BY <2>4
<1>4. CASE n # 0
  <2>1. qs = [i \in 1 .. n |-> qs[i]] OBVIOUS
  <2>2. \A i \in 1 .. n : qs[i] = IF HourOf[f[i].uid] = h THEN <<f[i]>> ELSE <<>> OBVIOUS
  <2> HIDE DEF qs
  <2>3. PICK fl : FlattenSeq(qs) = fl[n] /\ Flattens(fl, qs, n)
    BY <1>1, <1>4, <2>1, FlattenSteps
  <2> DEFINE p == [k \in 0 .. n |-> IF k = 0 THEN <<>> ELSE fl[k]]
  <2>4. /\ p[0] = <<>> /\ p[n] = fl[n]
        /\ \A k \in 0 .. n - 1 : p[k + 1] = fl[k + 1] /\ p[k] = IF k = 0 THEN <<>> ELSE fl[k]
    <3>1. /\ 0 \in 0 .. n /\ n \in 0 .. n
          /\ \A k \in 0 .. n - 1 : k \in 0 .. n /\ k + 1 \in 0 .. n /\ k + 1 # 0
      BY <1>1
    <3> QED BY <1>4, <3>1
  <2> HIDE DEF p
  <2>5. ASSUME NEW k \in 0 .. n - 1, p[k] \in Seq(Record)
        PROVE  /\ p[k + 1] \in Seq(Record)
               /\ p[k + 1] = IF HourOf[f[k + 1].uid] = h THEN Append(p[k], f[k + 1]) ELSE p[k]
    <3>1. k + 1 \in 1 .. n /\ (k + 1 = 1 <=> k = 0) /\ (k + 1) - 1 = k BY <1>1
    <3>2. fl[k + 1] = IF k + 1 = 1 THEN qs[k + 1] ELSE fl[(k + 1) - 1] \o qs[k + 1]
      BY <2>3, <3>1 DEF Flattens
    <3>3. f[k + 1] \in Record BY <1>1, <3>1
    <3>4. PICK q \in Seq(Record) : q = qs[k + 1]
      <4>1. <<f[k + 1]>> \in Seq(Record) /\ <<>> \in Seq(Record) BY <3>3
      <4>2. qs[k + 1] \in Seq(Record) BY <2>2, <3>1, <4>1
      <4> QED BY <4>2
    <3>5. <<>> \o q = q OBVIOUS
    <3>6. p[k + 1] = p[k] \o q BY <2>4, <3>1, <3>2, <3>4, <3>5
    <3>7. PICK s \in Seq(Record) : s = p[k] BY <2>5
    <3>8. CASE HourOf[f[k + 1].uid] = h
      <4>1. q = <<f[k + 1]>> BY <2>2, <3>1, <3>4, <3>8
      <4>2. s \o <<f[k + 1]>> = Append(s, f[k + 1]) /\ Append(s, f[k + 1]) \in Seq(Record)
        BY <3>3
      <4> QED BY <3>6, <3>7, <3>8, <4>1, <4>2
    <3>9. CASE HourOf[f[k + 1].uid] # h
      <4>1. q = <<>> BY <2>2, <3>1, <3>4, <3>9
      <4>2. s \o <<>> = s OBVIOUS
      <4> QED BY <3>6, <3>7, <3>9, <4>1, <4>2
    <3> QED BY <3>8, <3>9
  <2> DEFINE I == {k \in Nat : p[k] \in Seq(Record)}
  <2>6. 0 \in I
    <3>1. <<>> \in Seq(Record) OBVIOUS
    <3> QED BY <2>4, <3>1
  <2>7. ASSUME NEW k \in 0 .. n - 1, k \in I PROVE k + 1 \in I BY <1>1, <2>5, <2>7
  <2> HIDE DEF I
  <2>8. 0 .. n \subseteq I BY <1>1, <2>6, <2>7, BoundedInduction
  <2>9. \A k \in 0 .. n : p[k] \in Seq(Record) BY <2>8 DEF I
  <2>10. \A k \in 0 .. n - 1 :
            p[k + 1] = IF HourOf[f[k + 1].uid] = h THEN Append(p[k], f[k + 1]) ELSE p[k]
    <3> SUFFICES ASSUME NEW k \in 0 .. n - 1
                 PROVE  p[k + 1] = IF HourOf[f[k + 1].uid] = h THEN Append(p[k], f[k + 1]) ELSE p[k]
      OBVIOUS
    <3>1. k \in 0 .. n BY <1>1
    <3> QED BY <2>5, <2>9, <3>1
  <2>11. Slices(p, f, h) BY <1>2, <2>3, <2>4, <2>9, <2>10 DEF Slices
  <2> QED BY <2>11
<1> QED BY <1>1, <1>3, <1>4

LEMMA OfHourType ==
    ASSUME NEW f \in Seq(Record), NEW h
    PROVE  OfHour(f, h) \in Seq(Record)
<1>1. PICK p : Slices(p, f, h) BY SomeSlices
<1>2. Len(f) \in 0 .. Len(f) OBVIOUS
<1> QED BY <1>1, <1>2 DEF Slices

\* Records of another hour change nothing.
LEMMA OfHourAway ==
    ASSUME NEW f \in Seq(Record), NEW g \in Seq(Record), NEW h,
           \A i \in DOMAIN g : HourOf[g[i].uid] # h
    PROVE  OfHour(f \o g, h) = OfHour(f, h)
<1>1. PICK w \in Seq(Record) : w = f \o g
  <2>1. f \o g \in Seq(Record) BY ConcatProperties
  <2> QED BY <2>1
<1>2. PICK p : Slices(p, f, h) BY SomeSlices
<1>3. PICK q : Slices(q, w, h) BY SomeSlices
<1> DEFINE n == Len(f)
           m == Len(w)
<1>4. /\ n \in Nat /\ m \in Nat /\ n <= m /\ \A i \in 1 .. n : w[i] = f[i]
      /\ \A i \in 1 .. m : ~(i <= n) => i - n \in DOMAIN g /\ w[i] = g[i - n]
  <2>1. /\ Len(g) \in Nat /\ n \in Nat /\ m = n + Len(g)
        /\ \A i \in 1 .. n + Len(g) : w[i] = IF i <= n THEN f[i] ELSE g[i - n]
        /\ DOMAIN g = 1 .. Len(g)
    BY <1>1
  <2> QED BY <2>1
<1>5. /\ q[0] = <<>> /\ q[m] = OfHour(w, h)
      /\ \A k \in 0 .. m - 1 : q[k + 1] = IF HourOf[w[k + 1].uid] = h THEN Append(q[k], w[k + 1]) ELSE q[k]
  BY <1>3 DEF Slices
<1>6. /\ p[0] = <<>> /\ p[n] = OfHour(f, h)
      /\ \A k \in 0 .. n - 1 : p[k + 1] = IF HourOf[f[k + 1].uid] = h THEN Append(p[k], f[k + 1]) ELSE p[k]
  BY <1>2 DEF Slices
<1> HIDE DEF n, m
<1> DEFINE I == {k \in Nat : q[k] = IF k <= n THEN p[k] ELSE p[n]}
<1>7. 0 \in I BY <1>4, <1>5, <1>6
<1>8. ASSUME NEW k \in 0 .. m - 1, k \in I PROVE k + 1 \in I
  <2>1. k \in Nat /\ k + 1 \in Nat /\ k + 1 \in 1 .. m BY <1>4
  <2>2. CASE k + 1 <= n
    <3>1. k \in 0 .. n - 1 /\ k + 1 \in 1 .. n /\ k <= n BY <1>4, <2>1, <2>2
    <3>2. q[k] = p[k] /\ w[k + 1] = f[k + 1] BY <1>4, <1>8, <3>1
    <3>3. q[k + 1] = p[k + 1] BY <1>5, <1>6, <3>1, <3>2
    <3> QED BY <2>1, <2>2, <3>3
  <2>3. CASE ~(k + 1 <= n)
    <3>1. q[k] = p[n]
      <4>1. CASE k <= n
        <5>1. k = n BY <1>4, <2>1, <2>3, <4>1
        <5> QED BY <1>8, <4>1, <5>1
      <4>2. CASE ~(k <= n) BY <1>8, <4>2
      <4> QED BY <4>1, <4>2
    <3>2. HourOf[w[k + 1].uid] # h BY <1>4, <2>1, <2>3
    <3>3. q[k + 1] = q[k] BY <1>5, <3>2
    <3> QED BY <2>1, <2>3, <3>1, <3>3
  <2> QED BY <2>2, <2>3
<1> HIDE DEF I
<1>9. 0 .. m \subseteq I BY <1>4, <1>7, <1>8, BoundedInduction
<1>10. q[m] = IF m <= n THEN p[m] ELSE p[n] BY <1>4, <1>9 DEF I
<1>11. q[m] = p[n]
  <2>1. CASE m <= n
    <3>1. m = n BY <1>4, <2>1
    <3> QED BY <1>10, <3>1
  <2> QED BY <1>10, <2>1
<1> QED BY <1>1, <1>5, <1>6, <1>11

-----------------------------------------------------------------------------
(* What the hours of a day add up to *)

\* One map of a family grows.
LEMMA SumsGrow ==
    ASSUME NEW K, NEW X, IsFiniteSet(X), NEW fam \in [X -> MapsTo(K, Amounts)],
           NEW fam2 \in [X -> MapsTo(K, Amounts)], NEW x \in X, NEW c \in MapsTo(K, Amounts),
           fam2[x] = AddMaps(fam[x], c), \A y \in X \ {x} : fam2[y] = fam[y],
           NEW b \in MapsTo(K, Amounts), Sums(b, fam, X)
    PROVE  Sums(AddMaps(b, c), fam2, X)
<1>1. DOMAIN AddMaps(b, c) = UNION {DOMAIN fam2[y] : y \in X}
  <2>1. DOMAIN AddMaps(b, c) = DOMAIN b \cup DOMAIN c BY AddMapsKeys
  <2>2. DOMAIN fam2[x] = DOMAIN fam[x] \cup DOMAIN c BY AddMapsKeys
  <2>3. DOMAIN b = UNION {DOMAIN fam[y] : y \in X} BY DEF Sums
  <2>4. \A y \in X : y # x => DOMAIN fam2[y] = DOMAIN fam[y] OBVIOUS
  <2> QED BY <2>1, <2>2, <2>3, <2>4
<1>2. ASSUME NEW k
      PROVE  /\ At(AddMaps(b, c), k).tokens = Total(TokensAt(fam2, k), X)
             /\ At(AddMaps(b, c), k).records = Total(RecordsAt(fam2, k), X)
  <2>1. At(AddMaps(b, c), k) = Plus(At(b, k), At(c, k)) BY AddMapsAt
  <2>2. At(fam2[x], k) = Plus(At(fam[x], k), At(c, k)) BY AddMapsAt
  <2>3. At(c, k) \in Amounts BY AtIs
  <2>4. PICK a \in Amounts : a = At(c, k) BY <2>3
  <2>5. PICK F : F = TokensAt(fam, k) OBVIOUS
  <2>6. PICK F2 : F2 = TokensAt(fam2, k) OBVIOUS
  <2>7. PICK G : G = RecordsAt(fam, k) OBVIOUS
  <2>8. PICK G2 : G2 = RecordsAt(fam2, k) OBVIOUS
  <2>9. \A y \in X : F[y] = At(fam[y], k).tokens /\ F[y] \in Nat BY <2>5, AmountsAt
  <2>10. \A y \in X : F2[y] = At(fam2[y], k).tokens /\ F2[y] \in Nat BY <2>6, AmountsAt
  <2>11. \A y \in X : G[y] = At(fam[y], k).records /\ G[y] \in Nat BY <2>7, AmountsAt
  <2>12. \A y \in X : G2[y] = At(fam2[y], k).records /\ G2[y] \in Nat BY <2>8, AmountsAt
  <2>13. F2[x] = F[x] + a.tokens /\ G2[x] = G[x] + a.records
    BY <2>2, <2>4, <2>9, <2>10, <2>11, <2>12 DEF Plus
  <2>14. PICK Y : Y = X \ {x} OBVIOUS
  <2>15. IsFiniteSet(Y) BY <2>14, FS_Subset
  <2>16. \A y \in Y : F[y] \in Nat /\ F2[y] = F[y] /\ G[y] \in Nat /\ G2[y] = G[y]
    BY <2>9, <2>10, <2>11, <2>12, <2>14
  <2>17. Total(F2, Y) = Total(F, Y) BY <2>15, <2>16, TotalAgrees
  <2>18. Total(G2, Y) = Total(G, Y) BY <2>15, <2>16, TotalAgrees
  <2>19. Total(F, X) = F[x] + Total(F, Y) /\ Total(F, Y) \in Nat
    BY <2>9, <2>14, <2>15, TotalSteps
  <2>20. Total(G, X) = G[x] + Total(G, Y) /\ Total(G, Y) \in Nat
    BY <2>11, <2>14, <2>15, TotalSteps
  <2>21. Total(F2, X) = F2[x] + Total(F2, Y) BY <2>10, <2>14, TotalSteps
  <2>22. Total(G2, X) = G2[x] + Total(G2, Y) BY <2>12, <2>14, TotalSteps
  <2>23. At(b, k).tokens = Total(F, X) /\ At(b, k).records = Total(G, X)
    BY <2>5, <2>7 DEF Sums
  <2>24. /\ At(AddMaps(b, c), k).tokens = Total(F, X) + a.tokens
         /\ At(AddMaps(b, c), k).records = Total(G, X) + a.records
    BY <2>1, <2>4, <2>23 DEF Plus
  <2>25. a.tokens \in Nat /\ a.records \in Nat BY DEF Amounts
  <2>26. F[x] \in Nat /\ G[x] \in Nat BY <2>9, <2>11
  <2>27. Total(F, X) + a.tokens = Total(F2, X)
    BY <2>13, <2>17, <2>19, <2>21, <2>25, <2>26
  <2>28. Total(G, X) + a.records = Total(G2, X)
    BY <2>13, <2>18, <2>20, <2>22, <2>25, <2>26
  <2> QED BY <2>6, <2>8, <2>24, <2>27, <2>28
<1> QED BY <1>1, <1>2 DEF Sums

\* What the records of a file add up to.
LEMMA RefOfFile ==
    ASSUME NEW f \in Seq(Record), NEW dim \in Dims
    PROVE  RefBy(LogsOf(f), dim) \in MapsTo(LogKeys, Amounts)
<1>1. PICK l \in Seq(Logs) : l = LogsOf(f) BY LogsOfIs
<1>2. RefBy(l, dim) \in MapsTo(LogKeys, Amounts) BY LogsFit, RefByIs
<1> QED BY <1>1, <1>2

LEMMA RefOfAppend ==
    ASSUME NEW f \in Seq(Record), NEW r \in Record, NEW dim \in Dims
    PROVE  RefBy(LogsOf(Append(f, r)), dim) =
              AddMaps(RefBy(LogsOf(f), dim), RefBy(LogsOf(<<r>>), dim))
<1>1. PICK g \in Seq(Record) : g = <<r>>
  <2>1. <<r>> \in Seq(Record) OBVIOUS
  <2> QED BY <2>1
<1>2. Append(f, r) = f \o g BY <1>1
<1>3. PICK a \in Seq(Logs) : a = LogsOf(f) BY LogsOfIs
<1>4. PICK b \in Seq(Logs) : b = LogsOf(g) BY LogsOfIs
<1>5. LogsOf(f \o g) = a \o b BY <1>3, <1>4, LogsOfConcat
<1>6. RefBy(a \o b, dim) = AddMaps(RefBy(a, dim), RefBy(b, dim)) BY LogsFit, RefByConcat
<1> QED BY <1>1, <1>2, <1>3, <1>4, <1>5, <1>6

LEMMA RefOfEmpty == ASSUME NEW dim PROVE RefBy(LogsOf(<<>>), dim) = <<>>
<1>1. LogsOf(<<>>) = <<>> BY DEF LogsOf
<1> QED BY <1>1, RefByEmpty

LEMMA SumsEmpty ==
    ASSUME NEW X, IsFiniteSet(X), NEW fam, \A x \in X : fam[x] = <<>>
    PROVE  Sums(<<>>, [x \in X |-> fam[x]], X)
<1> DEFINE g == [x \in X |-> fam[x]]
           H == {s \in SUBSET X : Sums(<<>>, g, s)}
<1>0. DOMAIN <<>> = {} OBVIOUS
<1>1. \A x \in X : g[x] = <<>> OBVIOUS
<1>2. g \in [X -> MapsTo({}, Amounts)]
  <2>1. <<>> \in MapsTo({}, Amounts) BY EmptyMapIs
  <2> QED BY <2>1
<1> HIDE DEF g
<1>3. {} \in H BY SumsNone
<1>4. ASSUME NEW s \in SUBSET X, s # {} PROVE \E x \in s : s \ {x} \in H => s \in H
  <2>1. PICK x \in s : TRUE BY <1>4
  <2>2. ASSUME s \ {x} \in H PROVE s \in H
    <3>1. PICK Z \in SUBSET X : Z = s \ {x} OBVIOUS
    <3>2. IsFiniteSet(Z) /\ x \notin Z /\ Z \cup {x} = s /\ x \in X BY <2>1, <3>1, FS_Subset
    <3>3. PICK b \in MapsTo({}, Amounts) : b = <<>> BY EmptyMapIs
    <3>4. Sums(b, g, Z) BY <2>2, <3>1, <3>3
    <3>5. Sums(AddMaps(b, g[x]), g, Z \cup {x}) BY <1>2, <3>2, <3>4, SumsWith
    <3>6. AddMaps(b, g[x]) = <<>>
      <4>1. PICK c \in MapsTo({}, Amounts) : c = g[x] BY <1>2, <3>2
      <4>2. AddMaps(b, c) \in MapsTo({}, Amounts) BY AddMapsIs
      <4>3. PICK e \in MapsTo({}, Amounts) : e = AddMaps(b, c) BY <4>2
      <4>4. DOMAIN e = {} /\ DOMAIN b = {} BY <1>0, <3>3, <4>3, MapsToIs
      <4>5. \A k : At(e, k) = At(b, k) BY <4>4 DEF At
      <4>6. e = b BY <4>4, <4>5, EqualMaps
      <4> QED BY <3>3, <4>1, <4>3, <4>6
    <3> QED BY <3>2, <3>5, <3>6
  <2> QED BY <2>1, <2>2
<1> HIDE DEF H
<1>5. X \in H BY <1>3, <1>4, RemovalInduction
<1> QED BY <1>5 DEF H, g

LEMMA HourParts ==
    ASSUME NEW f \in Seq(Record), NEW S, IsFiniteSet(S), \A i \in DOMAIN f : HourOf[f[i].uid] \in S,
           NEW dim \in Dims
    PROVE  Sums(RefBy(LogsOf(f), dim), [h \in S |-> RefBy(LogsOf(OfHour(f, h)), dim)], S)
<1> DEFINE n == Len(f)
           P == [h \in S |-> CHOOSE p : Slices(p, f, h)]
           r(k) == SubSeq(f, 1, k)
           part(k) == [h \in S |-> RefBy(LogsOf(P[h][k]), dim)]
           Good(k) == Sums(RefBy(LogsOf(r(k)), dim), part(k), S)
           I == {k \in Nat : Good(k)}
<1>1. \A h \in S : Slices(P[h], f, h)
  <2> SUFFICES ASSUME NEW h \in S PROVE Slices(P[h], f, h)
    OBVIOUS
  <2>1. \E p : Slices(p, f, h) BY SomeSlices
  <2>2. P[h] = CHOOSE p : Slices(p, f, h) OBVIOUS
  <2> QED BY <2>1, <2>2
<1> HIDE DEF P
<1>2. /\ n \in Nat /\ r(0) = <<>> /\ r(n) = f
      /\ \A k \in 0 .. n : r(k) \in Seq(Record)
      /\ \A k \in 0 .. n - 1 : f[k + 1] \in Record /\ r(k + 1) = Append(r(k), f[k + 1])
  BY GrowsByOne
<1>3. \A k \in 0 .. n, h \in S : P[h][k] \in Seq(Record) BY <1>1 DEF Slices
<1>4. \A k \in 0 .. n : part(k) \in [S -> MapsTo(LogKeys, Amounts)]
  <2> SUFFICES ASSUME NEW k \in 0 .. n, NEW h \in S
               PROVE  RefBy(LogsOf(P[h][k]), dim) \in MapsTo(LogKeys, Amounts)
    OBVIOUS
  <2>1. PICK q \in Seq(Record) : q = P[h][k] BY <1>3
  <2>2. RefBy(LogsOf(q), dim) \in MapsTo(LogKeys, Amounts) BY RefOfFile
  <2> QED BY <2>1, <2>2
<1>5. 0 \in I
  <2> DEFINE fam == [h \in S |-> RefBy(LogsOf(<<>>), dim)]
  <2>1. \A h \in S : P[h][0] = <<>> BY <1>1 DEF Slices
  <2>2. \A h \in S : fam[h] = <<>> BY RefOfEmpty
  <2>3. part(0) = [h \in S |-> fam[h]] BY <2>1
  <2> HIDE DEF fam
  <2>4. Sums(<<>>, [h \in S |-> fam[h]], S) BY <2>2, SumsEmpty
  <2>5. RefBy(LogsOf(r(0)), dim) = <<>> BY <1>2, RefOfEmpty
  <2> HIDE DEF part, r
  <2> QED BY <2>3, <2>4, <2>5
<1>6. ASSUME NEW k \in 0 .. n - 1, k \in I PROVE k + 1 \in I
  <2>1. k \in 0 .. n /\ k + 1 \in 0 .. n /\ k + 1 \in Nat /\ k + 1 \in DOMAIN f BY <1>2
  <2>2. PICK x \in Record : x = f[k + 1] BY <1>2
  <2>3. PICK s \in Seq(Record) : s = r(k)
    <3>1. r(k) \in Seq(Record) BY <1>2, <2>1
    <3> HIDE DEF r
    <3> QED BY <3>1
  <2>4. PICK fam \in [S -> MapsTo(LogKeys, Amounts)] : fam = part(k) BY <1>4, <2>1
  <2>5. PICK fam2 \in [S -> MapsTo(LogKeys, Amounts)] : fam2 = part(k + 1) BY <1>4, <2>1
  <2>6. PICK h \in S : h = HourOf[x.uid] BY <2>1, <2>2
  <2>7. PICK c \in MapsTo(LogKeys, Amounts) : c = RefBy(LogsOf(<<x>>), dim)
    <3>1. PICK g \in Seq(Record) : g = <<x>>
      <4>1. <<x>> \in Seq(Record) OBVIOUS
      <4> QED BY <4>1
    <3>2. RefBy(LogsOf(g), dim) \in MapsTo(LogKeys, Amounts) BY RefOfFile
    <3> QED BY <3>1, <3>2
  <2>8. fam2[h] = AddMaps(fam[h], c)
    <3>1. PICK q \in Seq(Record) : q = P[h][k] BY <1>3, <2>1
    <3>2. P[h][k + 1] = Append(q, x) BY <1>1, <2>2, <2>6, <3>1 DEF Slices
    <3>3. RefBy(LogsOf(Append(q, x)), dim) = AddMaps(RefBy(LogsOf(q), dim), c)
      BY <2>7, RefOfAppend
    <3>4. fam[h] = RefBy(LogsOf(P[h][k]), dim) BY <2>4
    <3>5. fam2[h] = RefBy(LogsOf(P[h][k + 1]), dim) BY <2>5
    <3> QED BY <3>1, <3>2, <3>3, <3>4, <3>5
  <2>9. \A y \in S \ {h} : fam2[y] = fam[y]
    <3> SUFFICES ASSUME NEW y \in S, y # h PROVE fam2[y] = fam[y]
      OBVIOUS
    <3>1. P[y][k + 1] = P[y][k] BY <1>1, <2>2, <2>6 DEF Slices
    <3> QED BY <2>4, <2>5, <3>1
  <2>10. PICK b \in MapsTo(LogKeys, Amounts) : b = RefBy(LogsOf(s), dim) BY RefOfFile
  <2>11. Sums(b, fam, S) BY <1>6, <2>3, <2>4, <2>10
  <2>12. Sums(AddMaps(b, c), fam2, S) BY <2>8, <2>9, <2>11, SumsGrow
  <2>13. r(k + 1) = Append(s, x) BY <1>2, <2>2, <2>3
  <2>14. RefBy(LogsOf(Append(s, x)), dim) = AddMaps(b, c) BY <2>7, <2>10, RefOfAppend
  <2> HIDE DEF r, part
  <2> QED BY <2>1, <2>5, <2>12, <2>13, <2>14
<1> HIDE DEF I
<1>7. 0 .. n \subseteq I BY <1>2, <1>5, <1>6, BoundedInduction
<1>8. Good(n)
  <2>1. n \in I BY <1>2, <1>7
  <2> QED BY <2>1 DEF I
<1>9. part(n) = [h \in S |-> RefBy(LogsOf(OfHour(f, h)), dim)]
  <2>1. \A h \in S : P[h][n] = OfHour(f, h) BY <1>1 DEF Slices
  <2> QED BY <2>1
<1> QED BY <1>2, <1>8, <1>9

-----------------------------------------------------------------------------
(* BuildExact *)

\* Of a day that no crash has cut: the month's copy says of an hour what the day
\* file says, and the day file holds that day's records only.
DayInv(h) ==
    /\ meta.tier[h] = "monthly" /\ ~Untold(h) =>
          OfHour(MonthFile(DayOf(h)), h) = OfHour(DayFile(DayOf(h)), h)
    /\ \A u \in UidsIn(DayFile(DayOf(h))) : DayOf(HourOf[u]) = DayOf(h)

\* The index has finitely many entries.
FiniteIndex == /\ IsFiniteSet({h \in Hours : meta.tier[h] # "none"})
               /\ IsFiniteSet({h \in Hours : diskMeta.tier[h] # "none"})

\* A day that has a digest has records.
FilledInv == /\ archPc \in {"write", "digest"} => archBuf # <<>>
             /\ \A d \in DOMAIN digests : d \in cut \/ DayFile(d) # <<>>

BuildInv == FiniteIndex /\ FilledInv /\ \A h \in Hours : DayOf(h) \notin cut => DayInv(h)

LEMMA InitBuildInv == ArchiveInit => BuildInv
<1> SUFFICES ASSUME ArchiveInit PROVE BuildInv
  OBVIOUS
<1>1. /\ meta = EmptyMeta /\ diskMeta = EmptyMeta /\ digests = <<>> /\ archPc = "idle"
      /\ daily = [d \in Days |-> <<>>]
  BY DEF ArchiveInit, Init
<1>2. {h \in Hours : meta.tier[h] # "none"} = {} /\ {h \in Hours : diskMeta.tier[h] # "none"} = {}
  BY <1>1 DEF EmptyMeta
<1>3. FiniteIndex BY <1>2, FS_EmptySet DEF FiniteIndex
<1>4. DOMAIN <<>> = {} OBVIOUS
<1>5. FilledInv BY <1>1, <1>4 DEF FilledInv
<1>6. ASSUME NEW h \in Hours PROVE DayInv(h)
  <2>1. DayFile(DayOf(h)) = <<>> /\ meta.tier[h] = "none" BY <1>1 DEF DayFile, Days, EmptyMeta
  <2>2. UidsIn(<<>>) = {} BY DEF UidsIn
  <2> QED BY <2>1, <2>2 DEF DayInv
<1> QED BY <1>3, <1>5, <1>6 DEF BuildInv

LEMMA StepFiniteIndex ==
    ASSUME ArchiveTypes, Control, ArchiveControl, FiniteIndex, [ArchiveNext]_archVars
    PROVE  FiniteIndex'
<1> DEFINE I(m) == {h \in Hours : m.tier[h] # "none"}
<1>0. ArchiveTypeOK /\ TypeOK BY DEF ArchiveTypes, ArchiveTypeOK
<1>1. IsFiniteSet(I(meta)) /\ IsFiniteSet(I(diskMeta)) BY DEF FiniteIndex
<1>2. SUFFICES IsFiniteSet(I(meta')) /\ IsFiniteSet(I(diskMeta')) BY DEF FiniteIndex
<1>3. CASE PushNow \/ Push
  <2>1. PoolNext BY <1>3, PushIsAlone
  <2>2. /\ \A h \in Hours : meta'.tier[h] = meta.tier[h] \/ AtIndex(h)
        /\ diskMeta' \in {diskMeta, meta}
    BY <1>0, <2>1, PushTiers
  <2>3. I(meta') \subseteq I(meta) \cup {cur.hour} BY <2>2 DEF AtIndex
  <2>4. IsFiniteSet(I(meta) \cup {cur.hour}) BY <1>1, FS_AddElement
  <2> HIDE DEF I
  <2>5. IsFiniteSet(I(meta')) BY <2>3, <2>4, FS_Subset
  <2> QED BY <1>1, <2>2, <2>5
<1>4. CASE Pass
  <2>1. ~(ArchiveIndex \/ MonthlyIndex \/ ArchiveCrash) => meta' = meta BY <1>4, PassIsQuiet
  <2>2. CASE ArchiveIndex \/ MonthlyIndex
    <3>1. /\ archPc \in {"index", "monthIndex"} /\ diskMeta' = diskMeta
          /\ UpdateTier(CurArch, "daily") \/ UpdateTier(CurArch, "monthly")
      BY <2>2 DEF ArchiveIndex, MonthlyIndex
    <3>2. CurArch \in Hours BY <1>0, <3>1, CurArchIs DEF ArchiveTypeOK
    <3>3. \A h \in Hours : meta'.tier[h] # "none" => meta.tier[h] # "none"
      BY <1>0, <3>1, <3>2, UpdateTierIs DEF Tiers
    <3>4. I(meta') \subseteq I(meta) BY <3>3
    <3> HIDE DEF I
    <3> QED BY <1>1, <3>1, <3>4, FS_Subset
  <2>3. CASE ArchiveCrash BY <1>1, <2>3 DEF ArchiveCrash
  <2>4. CASE ~(ArchiveIndex \/ MonthlyIndex \/ ArchiveCrash)
    <3>1. diskMeta' = diskMeta \/ diskMeta' = meta
      <4> USE DEF poolVars, storeVars, callVars, chanVars
      <4>1. CASE Tick \/ ArchiveBegin BY <4>1 DEF Tick, ArchiveBegin
      <4>2. CASE ArchiveSkip \/ ArchiveRead \/ ArchiveCreate \/ ArchiveWrite \/ ArchiveDigest
        BY <4>2 DEF ArchiveSkip, ArchiveRead, ArchiveCreate, ArchiveWrite, ArchiveDigest
      <4>3. CASE ArchiveRemove \/ ArchiveMonths \/ ArchiveSave
        BY <4>3 DEF ArchiveRemove, ArchiveMonths, ArchiveSave
      <4>4. CASE MonthlySkip \/ MonthlyRead \/ MonthlyCreate \/ MonthlyWrite
        BY <4>4 DEF MonthlySkip, MonthlyRead, MonthlyCreate, MonthlyWrite
      <4> QED BY <1>4, <2>4, <4>1, <4>2, <4>3, <4>4 DEF Pass, ArchiveStep
    <3> QED BY <1>1, <2>1, <2>4, <3>1
  <2> QED BY <2>2, <2>3, <2>4
<1>5. CASE UNCHANGED archVars BY <1>1, <1>5 DEF archVars, poolVars, storeVars
<1> QED BY <1>3, <1>4, <1>5 DEF ArchiveNext, Pass

LEMMA StepFilledInv ==
    ASSUME ArchiveTypes, Control, ArchiveControl, DigestInv, FilledInv, [ArchiveNext]_archVars
    PROVE  FilledInv'
<1>0. /\ archTodo \subseteq Hours /\ daily \in [Days -> Seq(Record)]
      /\ archPc \notin {"idle", "hour", "month"} => archTodo # {}
      /\ DOMAIN digests \subseteq Days /\ files \in [Hours -> Seq(Record)]
  BY DEF ArchiveTypes, ArchiveTypeOK, TypeOK
<1>1. archTodo # {} => CurArch \in archTodo /\ CurArch \in Hours /\ CurDay \in Days
  BY <1>0, CurArchIs
<1> USE DEF archFiles, archCall
<1>2. ASSUME daily' = daily, digests' = digests, cut' = cut,
             archPc \notin {"write", "digest"}, archPc' \notin {"write", "digest"}
      PROVE  FilledInv'
  BY <1>2 DEF FilledInv, DayFile
<1>3. CASE PushNow \/ Push
  <2>1. archPc = "idle" /\ archPc' = "idle" /\ cut' = cut BY <1>3, PushIsAlone
  <2>2. daily' = daily /\ digests' = digests BY <1>3 DEF PushNow, Push
  <2> QED BY <1>2, <2>1, <2>2
<1>4. CASE Tick \/ ArchiveBegin BY <1>2, <1>4 DEF Tick, ArchiveBegin, Quiet
<1>5. CASE ArchiveSkip \/ ArchiveRead BY <1>2, <1>5 DEF ArchiveSkip, ArchiveRead
<1>6. CASE ArchiveCreate
  <2>1. /\ archPc = "create" /\ archPc' = "write" /\ daily' = [daily EXCEPT ![CurDay] = <<>>]
        /\ digests' = digests /\ cut' = cut /\ archTodo' = archTodo /\ archBuf' = archBuf
    BY <1>6 DEF ArchiveCreate
  <2>2. CurDay' = CurDay BY <2>1 DEF CurDay
  <2>3. archBuf # <<>>
    <3>1. CurArch \in archTodo /\ CurArch \in Hours /\ CurDay \in Days BY <1>0, <1>1, <2>1
    <3>2. archBuf = daily[CurDay] \o files[CurArch] /\ files[CurArch] # <<>>
      BY <2>1, <3>1 DEF ArchiveControl
    <3>3. PICK a \in Seq(Record) : a = daily[CurDay] BY <1>0, <3>1
    <3>4. PICK b \in Seq(Record) : b = files[CurArch] BY <1>0, <3>1
    <3>5. a \o b # <<>>
      <4>1. Len(a \o b) = Len(a) + Len(b) /\ Len(a) \in Nat /\ Len(b) \in Nat /\ Len(b) # 0
        BY <3>2, <3>4
      <4>2. Len(<<>>) = 0 OBVIOUS
      <4> QED BY <4>1, <4>2
    <3> QED BY <3>2, <3>3, <3>4, <3>5
  <2>4. \A d \in Days : d # CurDay => daily'[d] = daily[d] BY <1>0, <2>1
  <2> QED BY <1>0, <2>1, <2>2, <2>3, <2>4 DEF FilledInv, DayFile
<1>7. CASE ArchiveWrite
  <2>1. /\ archPc = "write" /\ archPc' = "digest" /\ daily' = [daily EXCEPT ![CurDay] = archBuf]
        /\ digests' = digests /\ cut' = cut /\ archTodo' = archTodo /\ archBuf' = archBuf
    BY <1>7 DEF ArchiveWrite
  <2>2. CurDay' = CurDay /\ CurDay \in Days BY <1>0, <1>1, <2>1 DEF CurDay
  <2>3. \A d \in Days : d # CurDay => daily'[d] = daily[d] BY <1>0, <2>1
  <2>4. daily'[CurDay] = archBuf BY <1>0, <2>1, <2>2
  <2> QED BY <1>0, <2>1, <2>2, <2>3, <2>4 DEF FilledInv, DayFile
<1>8. CASE ArchiveDigest
  <2>1. /\ archPc = "digest" /\ archPc' = "index" /\ daily' = daily /\ cut' = cut
        /\ DOMAIN digests' = DOMAIN digests \cup {CurDay}
    BY <1>8 DEF ArchiveDigest
  <2>2. archBuf # <<>> BY <2>1 DEF FilledInv
  <2> QED BY <2>1, <2>2 DEF FilledInv, DayFile, DigestInv
<1>9. CASE ArchiveIndex \/ ArchiveRemove \/ ArchiveMonths
  BY <1>2, <1>9 DEF ArchiveIndex, ArchiveRemove, ArchiveMonths
<1>10. CASE MonthlySkip \/ MonthlyRead \/ MonthlyCreate
  BY <1>2, <1>10 DEF MonthlySkip, MonthlyRead, MonthlyCreate
<1>11. CASE MonthlyWrite \/ MonthlyIndex \/ ArchiveSave
  BY <1>2, <1>11 DEF MonthlyWrite, MonthlyIndex, ArchiveSave
<1>12. CASE ArchiveCrash
  <2>1. /\ archPc' = "idle" /\ daily' = daily /\ digests' = digests /\ cut \subseteq cut'
        /\ archPc \in {"write", "digest"} => CurDay \in cut'
    BY <1>12 DEF ArchiveCrash
  <2> QED BY <2>1 DEF FilledInv, DayFile
<1>13. CASE UNCHANGED archVars BY <1>13 DEF archVars, FilledInv, DayFile, CurDay
<1> QED
  BY <1>3, <1>4, <1>5, <1>6, <1>7, <1>8, <1>9, <1>10, <1>11, <1>12, <1>13
     DEF ArchiveNext, ArchiveStep

LEMMA StepDayInv ==
    ASSUME ArchiveTypes, Control, ArchiveControl, CInv, [ArchiveNext]_archVars,
           NEW h \in Hours, DayOf(h) \notin cut => DayInv(h), DayOf(h) \notin cut'
    PROVE  DayInv(h)'
<1> DEFINE d == DayOf(h)
           f == DayFile(d)
           m == MonthFile(d)
<1>0. TypeOK /\ Consistent(Contents, byHour, Restored, todo) BY DEF CInv
<1>1. f \in Seq(Record) /\ m \in Seq(Record) /\ meta.tier[h] \in Tiers BY ArchiveFileTypes
<1>2. CASE PushNow \/ Push
  <2>1. /\ PoolNext /\ cut' = cut /\ f' = f /\ m' = m /\ ~Untold(h) /\ ~Untold(h)'
    BY <1>2, PushIsAlone
  <2>2. meta'.tier[h] = "monthly" => meta.tier[h] = "monthly" BY <1>0, <2>1, PushTiers
  <2> QED BY <2>1, <2>2 DEF DayInv
<1>3. CASE Pass
  <2>0. cut \subseteq cut'
    <3>1. CASE ArchiveCrash BY <3>1 DEF ArchiveCrash
    <3>2. CASE ~ArchiveCrash BY <1>3, <3>2, PassIsQuiet
    <3> QED BY <3>1, <3>2
  <2>1. /\ meta.tier[h] = "monthly" /\ ~Untold(h) => OfHour(m, h) = OfHour(f, h)
        /\ \A u \in UidsIn(f) : DayOf(HourOf[u]) = d
    BY <2>0 DEF DayInv
  <2>2. SUFFICES /\ meta'.tier[h] = "monthly" /\ ~Untold(h)' => OfHour(m', h) = OfHour(f', h)
                 /\ \A u \in UidsIn(f') : DayOf(HourOf[u]) = d
    BY DEF DayInv
  <2>3. \/ SameDay(h) /\ SameMonth(h) /\ SameTier(h) /\ SameRest(h)
        \/ ArchiveCreate /\ Moves(h)
        \/ Tells(h) \/ Copies(h) \/ TellsMonth(h)
    BY <1>3, PassSteps
  <2>4. CASE SameDay(h) /\ SameMonth(h) /\ SameTier(h) /\ SameRest(h)
    <3>1. f' = f /\ m' = m /\ meta'.tier[h] = meta.tier[h] /\ (Untold(h)' <=> Untold(h))
      BY <2>4 DEF SameDay, SameMonth, SameTier
    <3> HIDE DEF f, m
    <3> QED BY <2>1, <3>1
  <2>5. CASE ArchiveCreate /\ Moves(h)
    <3> DEFINE g == files[CurArch]
    <3>1. /\ d = CurDay /\ CurArch \in Hours /\ m' = m /\ f' = f \o g
          /\ h = CurArch => Untold(h)'
          /\ h # CurArch => (Untold(h)' <=> Untold(h))
          /\ meta'.tier[h] = meta.tier[h]
      BY <2>5 DEF Moves, SameMonth, SameTier
    <3>2. g \in Seq(Record) /\ \A u \in UidsIn(g) : HourOf[u] = CurArch
      <4>1. Contents[CurArch] = g BY <1>3, <3>1, PassIsQuiet DEF Contents
      <4>2. g \in Seq(Record) BY <1>0, <3>1 DEF TypeOK
      <4> QED BY <1>0, <3>1, <4>1, <4>2 DEF Consistent
    <3>3. DayOf(CurArch) = d BY <3>1 DEF CurDay, CurArch
    <3> HIDE DEF f, m, g
    <3>4. UidsIn(f') = UidsIn(f) \cup UidsIn(g) BY <1>1, <3>1, <3>2, ConcatUids
    <3>5. \A u \in UidsIn(f') : DayOf(HourOf[u]) = d BY <2>1, <3>2, <3>3, <3>4
    <3>6. ASSUME h # CurArch PROVE OfHour(f \o g, h) = OfHour(f, h)
      <4>1. \A i \in DOMAIN g : HourOf[g[i].uid] # h BY <3>2, <3>6 DEF UidsIn
      <4> QED BY <1>1, <3>2, <4>1, OfHourAway
    <3> QED BY <2>1, <3>1, <3>5, <3>6
  <2>6. CASE Tells(h)
    <3>1. f' = f /\ meta'.tier[h] # "monthly" BY <2>6 DEF Tells, SameDay
    <3> HIDE DEF f, m
    <3> QED BY <2>1, <3>1
  <2>7. CASE Copies(h)
    <3>1. f' = f /\ m' = f BY <2>7 DEF Copies, SameDay
    <3> HIDE DEF f, m
    <3> QED BY <2>1, <3>1
  <2>8. CASE TellsMonth(h)
    <3>1. m = f /\ f' = f /\ m' = m BY <2>8 DEF TellsMonth, SameDay, SameMonth
    <3> HIDE DEF f, m
    <3> QED BY <2>1, <3>1
  <2> QED BY <2>3, <2>4, <2>5, <2>6, <2>7, <2>8
<1>4. CASE UNCHANGED archVars
  <2>1. f' = f /\ m' = m /\ meta' = meta /\ cut' = cut /\ (Untold(h)' <=> Untold(h))
    BY <1>4 DEF archVars, poolVars, storeVars, Untold, CurArch, CurDay, DayFile, MonthFile
  <2> QED BY <2>1 DEF DayInv
<1> QED BY <1>2, <1>3, <1>4 DEF ArchiveNext, Pass

LEMMA StepBuildInv ==
    ASSUME ArchiveTypes, Control, ArchiveControl, CInv, DigestInv, BuildInv, [ArchiveNext]_archVars
    PROVE  BuildInv'
<1>1. FiniteIndex' BY StepFiniteIndex DEF BuildInv
<1>2. FilledInv' BY StepFilledInv DEF BuildInv
<1>3. ASSUME NEW h \in Hours, DayOf(h) \notin cut' PROVE DayInv(h)'
  <2>1. DayOf(h) \notin cut => DayInv(h) BY DEF BuildInv
  <2> QED BY <1>3, <2>1, StepDayInv
<1> QED BY <1>1, <1>2, <1>3 DEF BuildInv

-----------------------------------------------------------------------------
(* The two loops of do_build *)

Aggregates == Aggs(LogKeys, Projects, Names)

\* The aggregates that the digests dig of the days in D make of base, set by set.
Digesting(it, D, base, dig) ==
    it = [s \in SUBSET D |-> IF s = {} THEN base
             ELSE MergeDigest(it[s \ {CHOOSE x \in s : TRUE}], dig[CHOOSE x \in s : TRUE])]

DigestFold(D, base, dig) == FoldSet(LAMBDA d, acc : MergeDigest(acc, dig[d]), base, D)

LEMMA SomeDigesting ==
    ASSUME NEW D, IsFiniteSet(D), NEW base \in Aggregates, NEW dig,
           \A d \in D, v \in Aggregates : MergeDigest(v, dig[d]) \in Aggregates
    PROVE  \E it : Digesting(it, D, base, dig) /\ DigestFold(D, base, dig) = it[D]
<1> DEFINE V == Aggregates
           C == [s \in SUBSET D |-> CHOOSE x \in s : TRUE]
           G == [p \in D \X V |-> MergeDigest(p[2], dig[p[1]])]
           Rec(f) == f = [s \in SUBSET D |-> IF s = {} THEN base
                             ELSE MergeDigest(f[s \ {CHOOSE x \in s : TRUE}], dig[CHOOSE x \in s : TRUE])]
           it == CHOOSE f : Rec(f)
<1>1. DigestFold(D, base, dig) = it[D] BY DEF DigestFold, FoldSet, MapThenFoldSet
<1>2. \A s \in SUBSET D : C[s] = CHOOSE x \in s : TRUE OBVIOUS
<1>3. \A d \in D, v \in V : G[<<d, v>>] = MergeDigest(v, dig[d]) OBVIOUS
<1>4. \A s \in SUBSET D : s # {} => (CHOOSE x \in s : TRUE) \in s OBVIOUS
<1> HIDE DEF C, G, V
<1>5. Chooses(C, D) /\ StaysIn(G, D, V)
  <2>1. \A d \in D, v \in V : MergeDigest(v, dig[d]) \in V BY DEF V
  <2> QED BY <1>2, <1>3, <1>4, <2>1 DEF Chooses, StaysIn
<1>6. PICK g : IsFold(g, D, base, C, G) BY <1>5, SomeFold
<1>7. \A s \in SUBSET D : g[s] \in V
  <2> SUFFICES ASSUME NEW s \in SUBSET D PROVE g[s] \in V
    OBVIOUS
  <2>1. base \in V BY DEF V
  <2> QED BY <1>5, <1>6, <2>1, FoldSteps
<1>8. Rec(g)
  <2> DEFINE h == [s \in SUBSET D |-> IF s = {} THEN base
                      ELSE MergeDigest(g[s \ {CHOOSE x \in s : TRUE}], dig[CHOOSE x \in s : TRUE])]
  <2>1. g = [s \in SUBSET D |-> IF s = {} THEN base ELSE G[<<C[s], g[s \ {C[s]}]>>]] BY <1>6 DEF IsFold
  <2>2. \A s \in SUBSET D : s # {} => g[s] = G[<<C[s], g[s \ {C[s]}]>>] BY <2>1
  <2>3. ASSUME NEW s \in SUBSET D PROVE g[s] = h[s]
    <3>1. CASE s = {} BY <2>1, <3>1
    <3>2. CASE s # {}
      <4>1. PICK d \in D : d = CHOOSE x \in s : TRUE BY <1>4, <3>2
      <4>2. PICK v \in V : v = g[s \ {d}] BY <1>7
      <4>3. g[s] = G[<<d, v>>]
        <5>1. g[s] = G[<<C[s], g[s \ {C[s]}]>>] BY <2>2, <3>2
        <5>2. C[s] = d BY <1>2, <4>1
        <5> QED BY <4>2, <5>1, <5>2
      <4>4. h[s] = MergeDigest(v, dig[d]) BY <3>2, <4>1, <4>2
      <4> QED BY <1>3, <4>3, <4>4
    <3> QED BY <3>1, <3>2
  <2>4. g = [s \in SUBSET D |-> g[s]] BY <2>1
  <2> QED BY <2>3, <2>4
<1>9. Rec(it)
  <2> HIDE DEF Rec
  <2> QED BY <1>8
<1> HIDE DEF it
<1>10. Digesting(it, D, base, dig) BY <1>9 DEF Digesting
<1> QED BY <1>1, <1>10

\* And the ones that reading the hours in S makes of base.
Reading(it, S, base) ==
    it = [s \in SUBSET S |-> IF s = {} THEN base
             ELSE Ingest(it[s \ {CHOOSE x \in s : TRUE}], LogsOf(ReadHour(CHOOSE x \in s : TRUE)))]

LEMMA SomeReading ==
    ASSUME NEW S, IsFiniteSet(S), NEW base \in Aggregates,
           \A h \in S, v \in Aggregates : Ingest(v, LogsOf(ReadHour(h))) \in Aggregates
    PROVE  \E it : /\ Reading(it, S, base)
                   /\ FoldSet(LAMBDA h, acc : Ingest(acc, LogsOf(ReadHour(h))), base, S) = it[S]
<1> DEFINE V == Aggregates
           C == [s \in SUBSET S |-> CHOOSE x \in s : TRUE]
           G == [p \in S \X V |-> Ingest(p[2], LogsOf(ReadHour(p[1])))]
           Rec(f) == f = [s \in SUBSET S |-> IF s = {} THEN base
                             ELSE Ingest(f[s \ {CHOOSE x \in s : TRUE}], LogsOf(ReadHour(CHOOSE x \in s : TRUE)))]
           it == CHOOSE f : Rec(f)
<1>1. FoldSet(LAMBDA h, acc : Ingest(acc, LogsOf(ReadHour(h))), base, S) = it[S]
  BY DEF FoldSet, MapThenFoldSet
<1>2. \A s \in SUBSET S : C[s] = CHOOSE x \in s : TRUE OBVIOUS
<1>3. \A d \in S, v \in V : G[<<d, v>>] = Ingest(v, LogsOf(ReadHour(d))) OBVIOUS
<1>4. \A s \in SUBSET S : s # {} => (CHOOSE x \in s : TRUE) \in s OBVIOUS
<1> HIDE DEF C, G, V
<1>5. Chooses(C, S) /\ StaysIn(G, S, V)
  <2>1. \A d \in S, v \in V : Ingest(v, LogsOf(ReadHour(d))) \in V BY DEF V
  <2> QED BY <1>2, <1>3, <1>4, <2>1 DEF Chooses, StaysIn
<1>6. PICK g : IsFold(g, S, base, C, G) BY <1>5, SomeFold
<1>7. \A s \in SUBSET S : g[s] \in V
  <2> SUFFICES ASSUME NEW s \in SUBSET S PROVE g[s] \in V
    OBVIOUS
  <2>1. base \in V BY DEF V
  <2> QED BY <1>5, <1>6, <2>1, FoldSteps
<1>8. Rec(g)
  <2> DEFINE e == [s \in SUBSET S |-> IF s = {} THEN base
                      ELSE Ingest(g[s \ {CHOOSE x \in s : TRUE}], LogsOf(ReadHour(CHOOSE x \in s : TRUE)))]
  <2>1. g = [s \in SUBSET S |-> IF s = {} THEN base ELSE G[<<C[s], g[s \ {C[s]}]>>]] BY <1>6 DEF IsFold
  <2>2. \A s \in SUBSET S : s # {} => g[s] = G[<<C[s], g[s \ {C[s]}]>>] BY <2>1
  <2>3. ASSUME NEW s \in SUBSET S PROVE g[s] = e[s]
    <3>1. CASE s = {} BY <2>1, <3>1
    <3>2. CASE s # {}
      <4>1. PICK d \in S : d = CHOOSE x \in s : TRUE BY <1>4, <3>2
      <4>2. PICK v \in V : v = g[s \ {d}] BY <1>7
      <4>3. g[s] = G[<<d, v>>]
        <5>1. g[s] = G[<<C[s], g[s \ {C[s]}]>>] BY <2>2, <3>2
        <5>2. C[s] = d BY <1>2, <4>1
        <5> QED BY <4>2, <5>1, <5>2
      <4>4. e[s] = Ingest(v, LogsOf(ReadHour(d))) BY <3>2, <4>1, <4>2
      <4> QED BY <1>3, <4>3, <4>4
    <3> QED BY <3>1, <3>2
  <2>4. g = [s \in SUBSET S |-> g[s]] BY <2>1
  <2> QED BY <2>3, <2>4
<1>9. Rec(it)
  <2> HIDE DEF Rec
  <2> QED BY <1>8
<1> HIDE DEF it
<1>10. Reading(it, S, base) BY <1>9 DEF Reading
<1> QED BY <1>1, <1>10

-----------------------------------------------------------------------------
(* BuildExact: the digest of a day says what reading its hours would *)

\* The states in which do_build owes the whole truth, and what is known of them.
Exact == /\ ArchiveTypes /\ ArchiveInv /\ DigestInv /\ BuildInv
         /\ Settled /\ ~(\E d \in Days : HalfDigested(d))

OfDay(d)  == {h \in Indexed : DayOf(h) = d}
Read(dim) == [h \in Indexed |-> RefBy(LogsOf(ReadHour(h)), dim)]

LEMMA ReadHourType == ASSUME ArchiveTypes, NEW h \in Hours PROVE ReadHour(h) \in Seq(Record)
<1>1. /\ files[h] \in Seq(Record) /\ daily[DayOf(h)] \in Seq(Record) /\ monthly[DayOf(h)] \in Seq(Record)
  BY DEF ArchiveTypes, ArchiveTypeOK, TypeOK, Days
<1>2. OfHour(daily[DayOf(h)], h) \in Seq(Record) /\ OfHour(monthly[DayOf(h)], h) \in Seq(Record)
  BY <1>1, OfHourType
<1> QED BY <1>1, <1>2 DEF ReadHour

LEMMA ReadType == ASSUME ArchiveTypes, NEW dim \in Dims PROVE Read(dim) \in [Indexed -> MapsTo(LogKeys, Amounts)]
<1>1. \A h \in Indexed : RefBy(LogsOf(ReadHour(h)), dim) \in MapsTo(LogKeys, Amounts)
  <2> SUFFICES ASSUME NEW h \in Indexed PROVE RefBy(LogsOf(ReadHour(h)), dim) \in MapsTo(LogKeys, Amounts)
    OBVIOUS
  <2>1. PICK f \in Seq(Record) : f = ReadHour(h) BY ReadHourType DEF Indexed
  <2>2. RefBy(LogsOf(f), dim) \in MapsTo(LogKeys, Amounts) BY RefOfFile
  <2> QED BY <2>1, <2>2
<1> QED BY <1>1 DEF Read

LEMMA DigestedDay ==
    ASSUME Exact, NEW k \in digested, NEW d, d = DayOf(k)
    PROVE  /\ d \in DOMAIN digests /\ digests[d] = BuildDaily(d, LogsOf(daily[d]))
           /\ daily[d] \in Seq(Record) /\ daily[d] # <<>>
           /\ \A i \in DOMAIN daily[d] : HourOf[daily[d][i].uid] \in OfDay(d)
           /\ \A h \in OfDay(d) : ReadHour(h) = OfHour(daily[d], h)
<1>1. /\ k \in Hours /\ d \in Days /\ d \in DOMAIN digests /\ daily \in [Days -> Seq(Record)]
      /\ \A h \in digested : meta.tier[h] \in {"daily", "monthly"}
      /\ pc = "idle" /\ archPc = "idle" /\ cut = {} /\ stale = {}
  BY DEF Exact, Settled, Quiet, ArchiveTypes, ArchiveTypeOK, Days
<1>2. DayFile(d) = daily[d] /\ MonthFile(d) = monthly[d] /\ \A h \in Hours : ~Untold(h)
  BY <1>1 DEF DayFile, MonthFile, Untold
<1>3. daily[d] \in Seq(Record) BY <1>1
<1>4. digests[d] = BuildDaily(d, LogsOf(daily[d])) BY <1>1 DEF Exact, DigestInv
<1>5. daily[d] # <<>> BY <1>1, <1>2 DEF Exact, BuildInv, FilledInv
<1>6. \A h \in Hours : DayInv(h) /\ HourInv(h)
  BY <1>1 DEF Exact, BuildInv, ArchiveInv, Clean
<1>7. ASSUME NEW i \in DOMAIN daily[d] PROVE HourOf[daily[d][i].uid] \in OfDay(d)
  <2>1. PICK r \in Record : r = daily[d][i] BY <1>3
  <2>2. PICK h \in Hours : h = HourOf[r.uid]
    <3>1. r.uid \in Uids BY DEF Record
    <3> QED BY <3>1, HourOfAssumption
  <2>3. r.uid \in UidsIn(daily[d]) BY <2>1 DEF UidsIn
  <2>4. DayOf(h) = d BY <1>1, <1>2, <1>6, <2>2, <2>3 DEF DayInv
  <2>5. meta.tier[h] # "none" BY <1>2, <1>6, <2>2, <2>3, <2>4 DEF HourInv
  <2> QED BY <2>1, <2>2, <2>4, <2>5 DEF OfDay, Indexed
<1>8. ASSUME NEW h \in OfDay(d) PROVE ReadHour(h) = OfHour(daily[d], h)
  <2>1. h \in Indexed /\ h \in Hours /\ DayOf(h) = d BY DEF OfDay, Indexed
  <2>2. h \in digested BY <1>1, <2>1 DEF Exact, HalfDigested
  <2>3. CASE meta.tier[h] = "daily" BY <2>1, <2>3 DEF ReadHour
  <2>4. CASE meta.tier[h] = "monthly"
    <3>1. ReadHour(h) = OfHour(monthly[d], h) BY <2>1, <2>4 DEF ReadHour
    <3>2. OfHour(monthly[d], h) = OfHour(daily[d], h) BY <1>2, <1>6, <2>1, <2>4 DEF DayInv
    <3> QED BY <3>1, <3>2
  <2> QED BY <1>1, <2>2, <2>3, <2>4
<1> QED BY <1>1, <1>3, <1>4, <1>5, <1>7, <1>8

\* What the digest of a day adds is what reading its hours would.
LEMMA DigestAddsDay ==
    ASSUME Exact, NEW k \in digested, NEW d, d = DayOf(k), NEW dim \in Dims, NEW v, NEW w,
           v \in Aggregates => w = MergeDigest(v, digests[d])
    PROVE  AddsPart(w, v, LogKeys, Projects, Names, dim, Read(dim), OfDay(d))
<1> SUFFICES ASSUME v \in Aggregates
             PROVE  /\ w \in Aggregates
                    /\ \E c \in MapsTo(LogKeys, Amounts) :
                          w.by[dim] = AddMaps(v.by[dim], c) /\ Sums(c, Read(dim), OfDay(d))
  BY DEF AddsPart, Aggregates
<1>0. ArchiveTypes /\ FiniteIndex BY DEF Exact, BuildInv
<1>1. /\ digests[d] = BuildDaily(d, LogsOf(daily[d])) /\ daily[d] \in Seq(Record) /\ daily[d] # <<>>
      /\ \A i \in DOMAIN daily[d] : HourOf[daily[d][i].uid] \in OfDay(d)
      /\ \A h \in OfDay(d) : ReadHour(h) = OfHour(daily[d], h)
  BY DigestedDay
<1>2. PICK f \in Seq(Record) : f = daily[d] BY <1>1
<1>3. PICK S : S = OfDay(d) OBVIOUS
<1>4. IsFiniteSet(S) /\ S \subseteq Indexed /\ \A h \in S : h \in Hours /\ DayOf(h) = d
  <2>1. IsFiniteSet(Indexed) BY <1>0 DEF FiniteIndex, Indexed
  <2>2. S \subseteq Indexed BY <1>3 DEF OfDay
  <2> QED BY <1>3, <2>1, <2>2, FS_Subset DEF OfDay, Indexed
<1>5. PICK l \in Seq(Logs) : l = LogsOf(f) /\ Len(l) = Len(f) /\ \A i \in 1 .. Len(f) : l[i] = LogFor(f[i])
  BY LogsOfIs
<1>6. l # <<>> /\ \A i \in DOMAIN l : DayOf(l[i].hour) = d
  <2>1. Len(f) # 0 /\ DOMAIN l = 1 .. Len(f) /\ DOMAIN f = 1 .. Len(f) BY <1>1, <1>2, <1>5
  <2>2. Len(<<>>) = 0 OBVIOUS
  <2>3. ASSUME NEW i \in DOMAIN l PROVE DayOf(l[i].hour) = d
    <3>1. l[i].hour = HourOf[f[i].uid] BY <1>5, <2>1 DEF LogFor
    <3>2. HourOf[f[i].uid] \in S BY <1>1, <1>2, <1>3, <2>1
    <3> QED BY <1>4, <3>1, <3>2
  <2> QED BY <1>5, <2>1, <2>2, <2>3
<1>7. Gains(w, v, l, LogKeys, Projects, Names)
  <2>1. w = MergeDigest(v, BuildDaily(d, l)) BY <1>1, <1>2, <1>5
  <2>2. v \in Aggs(LogKeys, Projects, Names) BY DEF Aggregates
  <2> QED BY <1>6, <2>1, <2>2, LogsFit, MergeDigestGains
<1>8. PICK c \in MapsTo(LogKeys, Amounts) : c = RefBy(l, dim) BY LogsFit, RefByIs
<1>9. PICK fam : fam = [h \in S |-> RefBy(LogsOf(OfHour(f, h)), dim)] OBVIOUS
<1>10. Sums(c, fam, S)
  <2>1. \A i \in DOMAIN f : HourOf[f[i].uid] \in S BY <1>1, <1>2, <1>3
  <2>2. Sums(RefBy(LogsOf(f), dim), [h \in S |-> RefBy(LogsOf(OfHour(f, h)), dim)], S)
    BY <1>4, <2>1, HourParts
  <2> QED BY <1>5, <1>8, <1>9, <2>2
<1>11. Read(dim) \in [Indexed -> MapsTo(LogKeys, Amounts)] BY <1>0, ReadType
<1>12. \A h \in S : fam[h] = Read(dim)[h]
  <2> SUFFICES ASSUME NEW h \in S PROVE fam[h] = Read(dim)[h]
    OBVIOUS
  <2>1. fam[h] = RefBy(LogsOf(OfHour(f, h)), dim) BY <1>9
  <2>2. Read(dim)[h] = RefBy(LogsOf(ReadHour(h)), dim) BY <1>4 DEF Read
  <2>3. ReadHour(h) = OfHour(f, h) BY <1>1, <1>2, <1>3
  <2> QED BY <2>1, <2>2, <2>3
<1>13. fam \in [S -> MapsTo(LogKeys, Amounts)]
  <2>1. \A h \in S : fam[h] \in MapsTo(LogKeys, Amounts) BY <1>4, <1>11, <1>12
  <2> QED BY <1>9, <2>1
<1>14. Sums(c, Read(dim), S) BY <1>4, <1>10, <1>11, <1>12, <1>13, SumsAgree
<1>15. w \in Aggregates /\ w.by[dim] = AddMaps(v.by[dim], c) BY <1>7, <1>8 DEF Gains, Aggregates
<1> QED BY <1>3, <1>14, <1>15

\* The first loop: what the digests say of their days.
Dates(C)    == {d \in {DayOf(h) : h \in C \cap digested} : d \in DOMAIN digests}
OfDates(C)  == {h \in Indexed : DayOf(h) \in Dates(C)}
FromDays(C) == DigestFold(Dates(C), EmptyAggregate, digests)

\* Hours to build: with a digested hour all hours of its day.
WholeDays(C) == C \subseteq Indexed /\ \A k \in C \cap digested : OfDay(DayOf(k)) \subseteq C

LEMMA DatesAddUp ==
    ASSUME Exact, NEW C, WholeDays(C), NEW dim \in Dims
    PROVE  FromDays(C) \in Aggregates /\ Sums(FromDays(C).by[dim], Read(dim), OfDates(C))
<1> DEFINE D == Dates(C)
           K == LogKeys
           P == Projects
           N == Names
           X == Indexed
           part == [d \in D |-> OfDay(d)]
<1>0. ArchiveTypes /\ FiniteIndex BY DEF Exact, BuildInv
<1>1. IsFiniteSet(X) BY <1>0 DEF FiniteIndex, Indexed
<1>2. \A d \in D : \E k \in digested : d = DayOf(k) BY DEF Dates
<1>3. IsFiniteSet(D)
  <2>1. D \subseteq {DayOf(h) : h \in X} BY DEF Dates, WholeDays
  <2>2. PICK g : g = [h \in X |-> DayOf(h)] OBVIOUS
  <2>3. IsFiniteSet(Range(g)) BY <1>1, <2>2, FiniteRange
  <2>4. D \subseteq Range(g) BY <2>1, <2>2 DEF Range
  <2> QED BY <2>3, <2>4, FS_Subset
<1>4. EmptyAggregate \in Aggregates /\ EmptyAggregate.by[dim] = <<>>
  BY EmptyAggregateIs DEF Aggregates
<1>5. ASSUME NEW d \in D, NEW v, NEW w, v \in Aggregates => w = MergeDigest(v, digests[d])
      PROVE  AddsPart(w, v, K, P, N, dim, Read(dim), OfDay(d))
  <2>1. PICK k \in digested : d = DayOf(k) BY <1>2
  <2> QED BY <1>5, <2>1, DigestAddsDay
<1>6. \A d \in D, v \in Aggregates : MergeDigest(v, digests[d]) \in Aggregates
  <2> SUFFICES ASSUME NEW d \in D, NEW v \in Aggregates PROVE MergeDigest(v, digests[d]) \in Aggregates
    OBVIOUS
  <2>1. PICK w : w = MergeDigest(v, digests[d]) OBVIOUS
  <2>2. AddsPart(w, v, K, P, N, dim, Read(dim), OfDay(d)) BY <1>5, <2>1
  <2> QED BY <2>1, <2>2 DEF AddsPart, Aggregates
<1>7. PICK it : Digesting(it, D, EmptyAggregate, digests) /\ FromDays(C) = it[D]
  <2>1. PICK B \in Aggregates : B = EmptyAggregate BY <1>4
  <2> HIDE DEF D
  <2>2. \E it : Digesting(it, D, B, digests) /\ DigestFold(D, B, digests) = it[D]
    BY <1>3, <1>6, SomeDigesting
  <2> QED BY <2>1, <2>2 DEF FromDays, D
<1>8. /\ it[{}] = EmptyAggregate
      /\ \A s \in SUBSET D : s # {} =>
            it[s] = MergeDigest(it[s \ {CHOOSE x \in s : TRUE}], digests[CHOOSE x \in s : TRUE])
  BY <1>7 DEF Digesting
<1>9. ASSUME NEW s \in SUBSET D, s # {}
      PROVE  \E x \in s : AddsPart(it[s], it[s \ {x}], K, P, N, dim, Read(dim), part[x])
  <2>1. PICK x \in s : x = CHOOSE y \in s : TRUE BY <1>9
  <2>2. it[s] = MergeDigest(it[s \ {x}], digests[x]) BY <1>8, <1>9, <2>1
  <2>3. x \in D /\ part[x] = OfDay(x) OBVIOUS
  <2> HIDE DEF D, part
  <2>4. AddsPart(it[s], it[s \ {x}], K, P, N, dim, Read(dim), OfDay(x)) BY <1>5, <2>2, <2>3
  <2> QED BY <2>3, <2>4
<1>10. part \in [D -> SUBSET X] /\ \A d \in D : part[d] = OfDay(d) BY DEF OfDay
<1>11. \A s, t \in D : s # t => part[s] \cap part[t] = {} BY <1>10 DEF OfDay
<1>12. UNION {part[d] : d \in D} = OfDates(C) BY <1>10 DEF OfDay, OfDates
<1>13. Read(dim) \in [X -> MapsTo(K, Amounts)] BY <1>0, ReadType
<1>14. PICK fam \in [X -> MapsTo(K, Amounts)] : fam = Read(dim) BY <1>13
<1>15. it[{}] \in Aggs(K, P, N) /\ it[{}].by[dim] = <<>> BY <1>4, <1>8 DEF Aggregates
<1>16. Sums(it[{}].by[dim], fam, {}) BY <1>15, SumsNone
<1> HIDE DEF D, K, P, N, X, part
<1>17. AddedUp(it[D], K, P, N, dim, fam, {}, part, D)
  <2>1. PartByPart(it, D, K, P, N, dim, fam, part) BY <1>9, <1>14 DEF PartByPart
  <2>2. Apart(part, D, {}) BY <1>11 DEF Apart
  <2>3. {} \in SUBSET X OBVIOUS
  <2> QED BY <1>1, <1>3, <1>10, <1>15, <1>16, <2>1, <2>2, <2>3, PartsAddUp
<1>18. {} \cup OfDates(C) = OfDates(C) OBVIOUS
<1> QED BY <1>7, <1>12, <1>14, <1>17, <1>18 DEF K, P, N, Aggregates, AddedUp

\* The second: the hours of the other days.
LEMMA BuildAddsUp ==
    ASSUME Exact, NEW C, WholeDays(C), NEW dim \in Dims
    PROVE  DoBuild(C) \in Aggregates /\ Sums(DoBuild(C).by[dim], Read(dim), C)
<1> DEFINE S == {h \in C : DayOf(h) \notin Dates(C)}
           K == LogKeys
           P == Projects
           N == Names
           X == Indexed
           part == [h \in S |-> {h}]
<1>0. ArchiveTypes /\ FiniteIndex BY DEF Exact, BuildInv
<1>1. IsFiniteSet(X) /\ IsFiniteSet(S) /\ S \subseteq X
  <2>1. IsFiniteSet(X) BY <1>0 DEF FiniteIndex, Indexed
  <2>2. S \subseteq X BY DEF WholeDays
  <2> QED BY <2>1, <2>2, FS_Subset
<1>2. DoBuild(C) = FoldSet(LAMBDA h, acc : Ingest(acc, LogsOf(ReadHour(h))), FromDays(C), S)
  BY DEF DoBuild, FromDays, Dates, DigestFold
<1>3. FromDays(C) \in Aggregates /\ Sums(FromDays(C).by[dim], Read(dim), OfDates(C)) BY DatesAddUp
<1>4. Read(dim) \in [X -> MapsTo(K, Amounts)] BY <1>0, ReadType
<1>5. ASSUME NEW h \in S, NEW v, NEW w, v \in Aggregates => w = Ingest(v, LogsOf(ReadHour(h)))
      PROVE  AddsPart(w, v, K, P, N, dim, Read(dim), {h})
  <2> SUFFICES ASSUME v \in Aggregates
               PROVE  /\ w \in Aggregates
                      /\ \E c \in MapsTo(K, Amounts) :
                            w.by[dim] = AddMaps(v.by[dim], c) /\ Sums(c, Read(dim), {h})
    BY DEF AddsPart, Aggregates
  <2>1. h \in X /\ h \in Hours BY <1>1 DEF Indexed
  <2>2. PICK f \in Seq(Record) : f = ReadHour(h) BY <1>0, <2>1, ReadHourType
  <2>3. PICK l \in Seq(Logs) : l = LogsOf(f) BY LogsOfIs
  <2>4. w = Ingest(v, l) BY <1>5, <2>2, <2>3
  <2>5. Gains(w, v, l, K, P, N)
    <3>1. v \in Aggs(K, P, N) BY DEF Aggregates
    <3> QED BY <2>4, <3>1, LogsFit, IngestGains
  <2>6. PICK c \in MapsTo(K, Amounts) : c = RefBy(l, dim) BY LogsFit, RefByIs
  <2>7. c = Read(dim)[h] BY <2>1, <2>2, <2>3, <2>6 DEF Read
  <2>8. Sums(c, Read(dim), {h}) BY <1>4, <2>1, <2>7, SumsOne
  <2> QED BY <2>5, <2>6, <2>8 DEF Gains, Aggregates
<1>6. \A h \in S, v \in Aggregates : Ingest(v, LogsOf(ReadHour(h))) \in Aggregates
  <2> SUFFICES ASSUME NEW h \in S, NEW v \in Aggregates PROVE Ingest(v, LogsOf(ReadHour(h))) \in Aggregates
    OBVIOUS
  <2>1. PICK w : w = Ingest(v, LogsOf(ReadHour(h))) OBVIOUS
  <2>2. AddsPart(w, v, K, P, N, dim, Read(dim), {h}) BY <1>5, <2>1
  <2> QED BY <2>1, <2>2 DEF AddsPart, Aggregates
<1>7. PICK it : Reading(it, S, FromDays(C)) /\ DoBuild(C) = it[S]
  BY <1>1, <1>2, <1>3, <1>6, SomeReading
<1>8. /\ it[{}] = FromDays(C)
      /\ \A s \in SUBSET S : s # {} =>
            it[s] = Ingest(it[s \ {CHOOSE x \in s : TRUE}], LogsOf(ReadHour(CHOOSE x \in s : TRUE)))
  BY <1>7 DEF Reading
<1>9. ASSUME NEW s \in SUBSET S, s # {}
      PROVE  \E x \in s : AddsPart(it[s], it[s \ {x}], K, P, N, dim, Read(dim), part[x])
  <2>1. PICK x \in s : x = CHOOSE y \in s : TRUE BY <1>9
  <2>2. it[s] = Ingest(it[s \ {x}], LogsOf(ReadHour(x))) BY <1>8, <1>9, <2>1
  <2>3. x \in S /\ part[x] = {x} OBVIOUS
  <2> HIDE DEF S, part
  <2>4. AddsPart(it[s], it[s \ {x}], K, P, N, dim, Read(dim), {x}) BY <1>5, <2>2, <2>3
  <2> QED BY <2>3, <2>4
<1>10. part \in [S -> SUBSET X] /\ \A h \in S : part[h] = {h} BY <1>1
<1>11. \A s, t \in S : s # t => part[s] \cap part[t] = {} BY <1>10
<1>12. /\ OfDates(C) \in SUBSET X /\ \A h \in S : part[h] \cap OfDates(C) = {}
       /\ OfDates(C) \cup UNION {part[h] : h \in S} = C
  <2>1. OfDates(C) \subseteq C BY DEF OfDates, Dates, WholeDays, OfDay
  <2>2. OfDates(C) = {h \in C : DayOf(h) \in Dates(C)} BY <2>1 DEF OfDates, WholeDays
  <2> QED BY <1>10, <2>2 DEF WholeDays
<1>13. PICK fam \in [X -> MapsTo(K, Amounts)] : fam = Read(dim) BY <1>4
<1>14. it[{}] \in Aggs(K, P, N) /\ Sums(it[{}].by[dim], fam, OfDates(C))
  BY <1>3, <1>8, <1>13 DEF Aggregates
<1> HIDE DEF S, K, P, N, X, part
<1>15. AddedUp(it[S], K, P, N, dim, fam, OfDates(C), part, S)
  <2>1. PartByPart(it, S, K, P, N, dim, fam, part) BY <1>9, <1>13 DEF PartByPart
  <2>2. Apart(part, S, OfDates(C)) BY <1>11, <1>12 DEF Apart
  <2> QED BY <1>1, <1>10, <1>12, <1>14, <2>1, <2>2, PartsAddUp
<1> QED BY <1>7, <1>12, <1>13, <1>15 DEF K, P, N, X, Aggregates, AddedUp

\* What reading every hour record by record adds up to.
LEMMA RecordsAddUp ==
    ASSUME Exact, NEW C, C \subseteq Indexed, NEW dim \in Dims
    PROVE  /\ RecordsOf(C) \in Seq(Record)
           /\ Sums(RefBy(LogsOf(RecordsOf(C)), dim), Read(dim), C)
<1> DEFINE S == C
           F == [h \in S |-> ReadHour(h)]
           Rec(f) == f = [s \in SUBSET S |-> IF s = {} THEN <<>>
                             ELSE f[s \ {CHOOSE x \in s : TRUE}] \o ReadHour(CHOOSE x \in s : TRUE)]
           it == CHOOSE f : Rec(f)
<1>0. ArchiveTypes /\ FiniteIndex BY DEF Exact, BuildInv
<1>1. IsFiniteSet(S) /\ S \subseteq Hours
  <2>1. IsFiniteSet(Indexed) BY <1>0 DEF FiniteIndex, Indexed
  <2> QED BY <2>1, FS_Subset DEF Indexed
<1>2. RecordsOf(S) = it[S] BY DEF RecordsOf, FoldSet, MapThenFoldSet
<1>3. ASSUME NEW s \in SUBSET S, s # {}
      PROVE  ReadHour(CHOOSE x \in s : TRUE) = F[CHOOSE x \in s : TRUE]
  <2> DEFINE c == CHOOSE x \in s : TRUE
  <2>1. c \in S BY <1>3
  <2> HIDE DEF c
  <2>2. ReadHour(c) = F[c] BY <2>1
  <2> QED BY <2>2 DEF c
<1>4. \A h \in S : F[h] = ReadHour(h) OBVIOUS
<1> HIDE DEF F, S
<1>5. \A f : Rec(f) <=> Gathers(f, S, <<>>, F) BY <1>3 DEF Gathers
<1>6. \E f : Gathers(f, S, <<>>, F) BY <1>1, SomethingGathers
<1> HIDE DEF Rec
<1>7. Rec(it) BY <1>5, <1>6
<1> HIDE DEF it
<1>8. Gathers(it, S, <<>>, F) BY <1>5, <1>7
<1>9. \A h \in S : F[h] \in Seq(Record)
  <2> SUFFICES ASSUME NEW h \in S PROVE F[h] \in Seq(Record)
    OBVIOUS
  <2>1. ReadHour(h) \in Seq(Record) BY <1>0, <1>1, ReadHourType
  <2> QED BY <1>4, <2>1
<1>10. PICK fam : fam = [h \in S |-> RefBy(LogsOf(F[h]), dim)] OBVIOUS
<1>11. it[S] \in Seq(Record) /\ Sums(RefBy(LogsOf(it[S]), dim), fam, S)
  BY <1>1, <1>8, <1>9, <1>10, GatheredSums
<1>12. PICK full \in [Indexed -> MapsTo(LogKeys, Amounts)] : full = Read(dim)
  <2>1. Read(dim) \in [Indexed -> MapsTo(LogKeys, Amounts)] BY <1>0, ReadType
  <2> QED BY <2>1
<1>13. /\ S \subseteq Indexed /\ IsFiniteSet(S) /\ \A h \in S : fam[h] = full[h]
       /\ fam \in [S -> MapsTo(LogKeys, Amounts)]
  <2>1. S \subseteq Indexed BY DEF S
  <2>2. \A h \in S : fam[h] = full[h] BY <1>4, <1>10, <1>12, <2>1 DEF Read
  <2> QED BY <1>1, <1>10, <2>1, <2>2
<1>14. Sums(RefBy(LogsOf(it[S]), dim), full, S) BY <1>11, <1>13, SumsAgree
<1> QED BY <1>2, <1>11, <1>12, <1>14 DEF S

LEMMA BuildIs ==
    ASSUME Exact, NEW C, WholeDays(C)
    PROVE  DoBuild(C) \in Aggregates /\ \A dim \in Dims : DoBuild(C).by[dim] = RefBy(LogsOf(RecordsOf(C)), dim)
<1> SUFFICES ASSUME NEW dim \in Dims
             PROVE  DoBuild(C) \in Aggregates /\ DoBuild(C).by[dim] = RefBy(LogsOf(RecordsOf(C)), dim)
  BY DEF Dims
<1>1. DoBuild(C) \in Aggregates /\ Sums(DoBuild(C).by[dim], Read(dim), C) BY BuildAddsUp
<1>2. PICK f \in Seq(Record) : f = RecordsOf(C) BY RecordsAddUp DEF WholeDays
<1>3. Sums(RefBy(LogsOf(f), dim), Read(dim), C) BY <1>2, RecordsAddUp DEF WholeDays
<1>4. PICK b \in MapsTo(LogKeys, Amounts) : b = DoBuild(C).by[dim] BY <1>1 DEF Aggregates, Aggs
<1>5. PICK c \in MapsTo(LogKeys, Amounts) : c = RefBy(LogsOf(f), dim) BY RefOfFile
<1>6. b = c BY <1>1, <1>3, <1>4, <1>5, SumsSame
<1> QED BY <1>1, <1>2, <1>4, <1>5, <1>6

\* All of it at once: the inductive invariant behind the two theorems about the aggregates.
WholeInv == ArchiveTypes /\ Control /\ ArchiveControl /\ ArchiveInv /\ DigestInv /\ BuildInv

LEMMA ArchiveWhole == ASSUME DistinctBatches PROVE ArchiveSpec => []WholeInv
<1>1. ArchiveInit => WholeInv
  BY InitArchiveTypes, InitArchiveControl, InitArchiveInv, InitDigestInv, InitBuildInv DEF WholeInv
<1>2. WholeInv /\ [ArchiveNext]_archVars => WholeInv'
  <2> SUFFICES ASSUME WholeInv, [ArchiveNext]_archVars PROVE WholeInv'
    OBVIOUS
  <2>1. ArchiveTypes' /\ Control' /\ ArchiveControl' /\ ArchiveInv'
    BY StepArchiveTypes, StepArchiveControl, StepArchiveInv DEF WholeInv
  <2>2. DigestInv' BY StepDigestInv DEF WholeInv
  <2>3. CInv BY DEF ArchiveInv, WholeInv
  <2>4. BuildInv' BY <2>3, StepBuildInv DEF WholeInv
  <2> QED BY <2>1, <2>2, <2>4 DEF WholeInv
<1> QED BY <1>1, <1>2, PTL DEF ArchiveSpec

\* Whatever moves the hours have made, and whichever days have a digest, do_build of
\* the whole index counts, in every dimension, what reading each indexed hour record
\* by record counts - where no day was digested before all of its hours were archived.
THEOREM ArchiveBuildExact == ASSUME DistinctBatches PROVE ArchiveSpec => []BuildExact
<1>1. WholeInv => BuildExact
  <2> SUFFICES ASSUME WholeInv, Settled, ~(\E d \in Days : HalfDigested(d)), NEW dim \in Dims
               PROVE  DoBuild(Indexed).by[dim] = RefBy(LogsOf(RecordsOf(Indexed)), dim)
    BY DEF BuildExact
  <2>1. Exact BY DEF Exact, WholeInv
  <2>2. WholeDays(Indexed) BY DEF WholeDays, OfDay
  <2> QED BY <2>1, <2>2, BuildIs
<1> QED BY <1>1, ArchiveWhole, PTL

-----------------------------------------------------------------------------
(* ViewExact: the cold and the hot half of the view, together *)

\* Each record has a source, a project and an hour: no field is absent.
LEMMA LogsWhole == Whole(Logs) /\ \A x \in Logs : x.hour \in Int
<1> SUFFICES ASSUME NEW r \in Record
             PROVE  {"source", "project", "tokens"} \subseteq DOMAIN LogFor(r) /\ LogFor(r).hour \in Int
  BY DEF Whole, Logs
<1>1. r.uid \in Uids BY DEF Record
<1>2. PICK h \in Hours : h = HourOf[r.uid] BY <1>1, HourOfAssumption
<1>3. h \in Int BY HoursAssumption
<1> QED BY <1>2, <1>3 DEF LogFor

\* The records of all hours are those of some hours and those of the others.
LEMMA RecordsInParts ==
    ASSUME Exact, NEW C, C \subseteq Indexed, NEW dim \in Dims
    PROVE  Parts(LogsOf(RecordsOf(Indexed)), LogsOf(RecordsOf(C)), LogsOf(RecordsOf(Indexed \ C)), dim)
<1> DEFINE X == Indexed
           H == X \ C
<1>0. ArchiveTypes /\ FiniteIndex BY DEF Exact, BuildInv
<1>1. /\ IsFiniteSet(X) /\ IsFiniteSet(C) /\ IsFiniteSet(H)
      /\ C \subseteq X /\ H \subseteq X /\ C \cap H = {} /\ C \cup H = X /\ X \subseteq Indexed
  <2>1. IsFiniteSet(X) BY <1>0 DEF FiniteIndex, Indexed
  <2> QED BY <2>1, FS_Subset
<1> HIDE DEF X, H
<1>2. PICK f \in Seq(Record) : f = RecordsOf(X) /\ Sums(RefBy(LogsOf(f), dim), Read(dim), X)
  BY <1>1, RecordsAddUp
<1>3. PICK g \in Seq(Record) : g = RecordsOf(C) /\ Sums(RefBy(LogsOf(g), dim), Read(dim), C)
  BY RecordsAddUp
<1>4. PICK h \in Seq(Record) : h = RecordsOf(H) /\ Sums(RefBy(LogsOf(h), dim), Read(dim), H)
  <2>1. H \subseteq Indexed BY <1>1 DEF X
  <2> QED BY <2>1, RecordsAddUp
<1>5. PICK lf \in Seq(Logs) : lf = LogsOf(f) BY LogsOfIs
<1>6. PICK lg \in Seq(Logs) : lg = LogsOf(g) BY LogsOfIs
<1>7. PICK lh \in Seq(Logs) : lh = LogsOf(h) BY LogsOfIs
<1>8. PICK a \in MapsTo(LogKeys, Amounts) : a = RefBy(lf, dim) BY LogsFit, RefByIs
<1>9. PICK b \in MapsTo(LogKeys, Amounts) : b = RefBy(lg, dim) BY LogsFit, RefByIs
<1>10. PICK c \in MapsTo(LogKeys, Amounts) : c = RefBy(lh, dim) BY LogsFit, RefByIs
<1>11. PICK fam \in [X -> MapsTo(LogKeys, Amounts)] : fam = Read(dim)
  <2>1. Read(dim) \in [X -> MapsTo(LogKeys, Amounts)] BY <1>0, ReadType DEF X
  <2> QED BY <2>1
<1>12. Sums(AddMaps(b, c), fam, X)
  <2>1. Sums(b, fam, C) /\ Sums(c, fam, H) BY <1>3, <1>4, <1>6, <1>7, <1>9, <1>10, <1>11
  <2>2. Sums(AddMaps(b, c), fam, C \cup H) BY <1>1, <2>1, SumsJoin
  <2> QED BY <1>1, <2>2
<1>13. PICK s \in MapsTo(LogKeys, Amounts) : s = AddMaps(b, c) BY AddMapsIs
<1>14. a = s
  <2>1. Sums(a, fam, X) BY <1>2, <1>5, <1>8, <1>11
  <2> QED BY <1>12, <1>13, <2>1, SumsSame
<1>15. Parts(lf, lg, lh, dim)
  <2>1. DOMAIN s = DOMAIN b \cup DOMAIN c BY <1>13, AddMapsKeys
  <2>2. DOMAIN a = RefKeys(lf, dim) /\ \A k : At(a, k) = RefAmount(lf, dim, k) BY <1>8, LogsFit, RefByIs
  <2>3. DOMAIN b = RefKeys(lg, dim) /\ \A k : At(b, k) = RefAmount(lg, dim, k) BY <1>9, LogsFit, RefByIs
  <2>4. DOMAIN c = RefKeys(lh, dim) /\ \A k : At(c, k) = RefAmount(lh, dim, k) BY <1>10, LogsFit, RefByIs
  <2>5. \A k : At(s, k) = Plus(At(b, k), At(c, k)) BY <1>13, AddMapsAt
  <2> QED BY <1>14, <2>1, <2>2, <2>3, <2>4, <2>5 DEF Parts
<1> QED BY <1>2, <1>3, <1>4, <1>5, <1>6, <1>7, <1>15 DEF X, H

\* The hours before a boundary are whole days where there is a digest (the days of active
\* hours have none), so the cold half counts their records, and the view those and the hot ones.
LEMMA ViewIs ==
    ASSUME Exact, NEW t \in Indexed, \A h \in Indexed : h > t => meta.tier[h] = "active"
    PROVE  LET coldHours == {h \in Indexed : h <= t}
               hotLogs   == LogsOf(RecordsOf(Indexed \ coldHours))
               hot       == Ingest(EmptyAggregate, hotLogs)
               cold      == ColdView(ColdBuild(coldHours), now, t)
           IN  ShowsExactly(BuildView(cold, hot, hotLogs, now), LogsOf(RecordsOf(Indexed)), now)
<1>0. ArchiveTypes BY DEF Exact
<1>1. PICK C : C = {h \in Indexed : h <= t} OBVIOUS
<1>2. WholeDays(C)
  <2> SUFFICES ASSUME NEW k \in C \cap digested, NEW h \in OfDay(DayOf(k)) PROVE h \in C
    BY <1>1 DEF WholeDays
  <2>1. k \in Hours /\ DayOf(k) \in Days BY <1>1 DEF Indexed, Days
  <2>2. h \in Indexed /\ DayOf(h) = DayOf(k) BY DEF OfDay
  <2>3. h \in digested BY <2>1, <2>2 DEF Exact, HalfDigested
  <2>4. meta.tier[h] # "active" BY <1>0, <2>3 DEF ArchiveTypes, ArchiveTypeOK
  <2>5. ~(h > t) BY <2>2, <2>4
  <2>6. h \in Int /\ t \in Int BY <2>2, HoursAssumption DEF Indexed
  <2> QED BY <1>1, <2>2, <2>5, <2>6
<1>3. C \subseteq Indexed BY <1>1
<1>4. \A d \in Dims : /\ RecordsOf(Indexed) \in Seq(Record) /\ RecordsOf(C) \in Seq(Record)
                      /\ RecordsOf(Indexed \ C) \in Seq(Record)
  BY <1>3, RecordsAddUp
<1>5. PICK logs \in Seq(Logs) : logs = LogsOf(RecordsOf(Indexed)) BY <1>4, LogsOfIs DEF Dims
<1>6. PICK p \in Seq(Logs) : p = LogsOf(RecordsOf(C)) BY <1>4, LogsOfIs DEF Dims
<1>7. PICK q \in Seq(Logs) : q = LogsOf(RecordsOf(Indexed \ C)) BY <1>4, LogsOfIs DEF Dims
<1>8. \A d \in Dims : Parts(logs, p, q, d) BY <1>3, <1>5, <1>6, <1>7, RecordsInParts
<1>9. PICK agg \in Aggs(LogKeys, Projects, Names) : agg = DoBuild(C)
  BY <1>2, BuildIs DEF Aggregates
<1>10. \A d \in Dims : agg.by[d] = RefBy(p, d) BY <1>2, <1>6, <1>9, BuildIs
<1>11. now \in Int BY <1>0, AgesAssumption DEF ArchiveTypes, ArchiveTypeOK
<1>12. ColdBuild(C) = Prune(agg, now - 2 * HoursPerDay) BY <1>9 DEF ColdBuild, RetainHours
<1>13. ShowsExactly(BuildView(ColdView(Prune(agg, now - 2 * HoursPerDay), now, t),
                              Ingest(EmptyAggregate, q), q, now), logs, now)
  BY <1>8, <1>10, <1>11, LogsFit, LogsWhole, ViewShowsExactly
<1> QED BY <1>1, <1>5, <1>7, <1>12, <1>13

\* Wherever the boundary between the cold and the hot half of the view lies, and
\* however the hours before it were archived, build_view of the pruned cold aggregate
\* and the hot records shows each record once, in every window, dimension and series.
THEOREM ArchiveViewExact == ASSUME DistinctBatches PROVE ArchiveSpec => []ViewExact
<1>1. WholeInv => ViewExact
  <2> SUFFICES ASSUME WholeInv, Settled, ~(\E d \in Days : HalfDigested(d)) PROVE ViewExact
    BY DEF ViewExact
  <2>1. Exact BY DEF Exact, WholeInv
  <2> QED BY <2>1, ViewIs DEF ViewExact
<1> QED BY <1>1, ArchiveWhole, PTL
=============================================================================
