------------------------------ MODULE Archive ------------------------------
(***************************************************************************)
(* The archive tiers of the data pool (crates/tp-pool archive.rs and       *)
(* run_archive of storage.rs): hour files of earlier days move into one    *)
(* file and one digest per day, and day files of earlier months are copied *)
(* into the month's folder.  The readers choose the file by the tier of    *)
(* the index; the cache's build takes the digest of a day where it has one.*)
(*                                                                         *)
(* run_archive shares no lock with push_datalogs.  Its only caller, the    *)
(* integration test, awaits one call after another, and so does this       *)
(* module: a pass and a push do not overlap.  A crash may cut a pass       *)
(* anywhere; what it does to a push is in DataPoolFaults.                  *)
(*                                                                         *)
(* The order of the records in a file, which every writer re-establishes   *)
(* by sorting and no reader depends on, is left out.                       *)
(***************************************************************************)
EXTENDS DataPool, DashboardView

CONSTANTS
    LogOf,         \* uid -> source, model, project and name of its records
    DailyAge,      \* hours after which an hour is archived (2 in the code)
    MonthlyAge,    \* hours after which a day is (5 days in the code)
    MaxNow,        \* bound: the last hour of the clock
    MaxArchCrashes \* bound: crashes

ASSUME AgesAssumption == {DailyAge, MonthlyAge, MaxNow, MaxArchCrashes} \subseteq Nat
ASSUME LogOfAssumption == DOMAIN LogOf = Uids
ASSUME ValsAssumption  == Vals \subseteq Nat   \* a payload is an amount of tokens

VARIABLES
    now,          \* the hour it is
    daily,        \* archive/daily/DATE.jsonl by day
    monthly,      \* archive/monthly/MONTH/DATE.jsonl by day
    digests,      \* archive/daily/DATE.digest.json, for the days that have one
    digested,     \* hours whose index entry has a digest, in memory
    diskDigested, \* and in the metadata file
    archPc,       \* where the run_archive call is
    archTodo,     \* hours, of the first or of the second loop, still to be looked at
    archBuf,      \* the day's records, merged, to be written
    archived,     \* archived_keys is not empty
    stale,        \* hours in which a replacement found its record archived
    cut,          \* days a crash cut a pass over
    archCrashes

archFiles == <<daily, monthly, digests>>
archCall  == <<archPc, archTodo, archBuf, archived>>
archVars  == <<poolVars, now, daily, monthly, digests, digested, diskDigested,
               archPc, archTodo, archBuf, archived, stale, cut, archCrashes>>

Days    == {DayOf(h) : h \in Hours}
Today   == DayOf(now)
Quiet   == pc = "idle" /\ archPc = "idle"

ArchiveTypeOK ==
    /\ TypeOK
    /\ now \in 0..MaxNow
    /\ daily \in [Days -> Seq(Record)] /\ monthly \in [Days -> Seq(Record)]
    /\ DOMAIN digests \subseteq Days
    /\ digested \subseteq Hours /\ diskDigested \subseteq Hours
    /\ \A h \in digested : meta.tier[h] \in {"daily", "monthly"} /\ DayOf(h) \in DOMAIN digests
    /\ archPc \in {"idle", "hour", "create", "write", "digest", "index", "remove",
                   "month", "monthCreate", "monthWrite", "monthIndex"}
    /\ archTodo \subseteq Hours /\ archBuf \in Seq(Record) /\ archived \in BOOLEAN
    /\ archPc \notin {"idle", "hour", "month"} => archTodo # {}
    /\ stale \subseteq Hours /\ cut \subseteq Days /\ archCrashes \in 0..MaxArchCrashes

ArchiveInit ==
    /\ Init
    /\ now = 0
    /\ daily = [d \in Days |-> <<>>] /\ monthly = [d \in Days |-> <<>>]
    /\ digests = <<>>
    /\ digested = {} /\ diskDigested = {}
    /\ archPc = "idle" /\ archTodo = {} /\ archBuf = <<>> /\ archived = FALSE
    /\ stale = {} /\ cut = {} /\ archCrashes = 0

\* The log an aggregator makes of a record.
LogsOf(records) ==
    [i \in DOMAIN records |->
        [source |-> LogOf[records[i].uid].source, model |-> LogOf[records[i].uid].model,
         project |-> LogOf[records[i].uid].project, name |-> LogOf[records[i].uid].name,
         class |-> records[i].class, hour |-> HourOf[records[i].uid],
         tokens |-> records[i].val]]

-----------------------------------------------------------------------------
(* run_archive, first loop: the hour files there are, oldest first *)

CurArch == Min(archTodo)
CurDay  == DayOf(Min(archTodo))

ArchiveBegin ==
    /\ Quiet
    /\ archPc' = "hour" /\ archTodo' = {h \in Hours : files[h] # <<>>}
    /\ archived' = FALSE
    /\ UNCHANGED <<poolVars, now, archFiles, digested, diskDigested, archBuf,
                   stale, cut, archCrashes>>

\* Not of today, and old enough.
OfAge(h) == DayOf(h) < Today /\ now - h >= DailyAge

ArchiveSkip ==
    /\ archPc = "hour" /\ archTodo # {} /\ ~OfAge(CurArch)
    /\ archTodo' = archTodo \ {CurArch}
    /\ UNCHANGED <<poolVars, now, archFiles, digested, diskDigested, archPc, archBuf,
                   archived, stale, cut, archCrashes>>

\* Variations of ArchiveRead: the loop moves on too early, ArchiveTypeOK; and the
\* day file is not read before it is written, NothingLost.
ArchiveReadAdvances ==
    /\ archPc = "hour" /\ archTodo # {} /\ OfAge(CurArch)
    /\ archBuf' = daily[CurDay] \o files[CurArch]
    /\ archPc' = "create" /\ archTodo' = archTodo \ {CurArch}
    /\ UNCHANGED <<poolVars, now, archFiles, digested, diskDigested, archived,
                   stale, cut, archCrashes>>

ArchiveReadHourOnly ==
    /\ archPc = "hour" /\ archTodo # {} /\ OfAge(CurArch)
    /\ archBuf' = files[CurArch] /\ archPc' = "create"
    /\ UNCHANGED <<poolVars, now, archFiles, digested, diskDigested, archTodo, archived,
                   stale, cut, archCrashes>>

\* The hour is merged with what its day file holds ...
ArchiveRead ==
    /\ archPc = "hour" /\ archTodo # {} /\ OfAge(CurArch)
    /\ archBuf' = daily[CurDay] \o files[CurArch]
    /\ archPc' = "create"
    /\ UNCHANGED <<poolVars, now, archFiles, digested, diskDigested, archTodo, archived,
                   stale, cut, archCrashes>>

\* ... the day file is truncated and written ...
ArchiveCreate ==
    /\ archPc = "create" /\ archPc' = "write"
    /\ daily' = [daily EXCEPT ![CurDay] = <<>>]
    /\ UNCHANGED <<poolVars, now, monthly, digests, digested, diskDigested, archTodo,
                   archBuf, archived, stale, cut, archCrashes>>

ArchiveWrite ==
    /\ archPc = "write" /\ archPc' = "digest"
    /\ daily' = [daily EXCEPT ![CurDay] = archBuf]
    /\ UNCHANGED <<poolVars, now, monthly, digests, digested, diskDigested, archTodo,
                   archBuf, archived, stale, cut, archCrashes>>

\* A variation of ArchiveDigest, made of the hour instead of the day: BuildExact.
ArchiveDigestOfHour ==
    /\ archPc = "digest" /\ archPc' = "index"
    /\ digests' = (CurDay :> BuildDaily(CurDay, LogsOf(files[CurArch]))) @@ digests
    /\ archBuf' = <<>>
    /\ UNCHANGED <<poolVars, now, daily, monthly, digested, diskDigested, archTodo,
                   archived, stale, cut, archCrashes>>

\* ... its digest computed anew ...
ArchiveDigest ==
    /\ archPc = "digest" /\ archPc' = "index"
    /\ digests' = [d \in DOMAIN digests \cup {CurDay} |->
                      IF d = CurDay THEN BuildDaily(d, LogsOf(archBuf)) ELSE digests[d]]
    /\ archBuf' = <<>>
    /\ UNCHANGED <<poolVars, now, daily, monthly, digested, diskDigested, archTodo,
                   archived, stale, cut, archCrashes>>

\* update_tier: an index entry moves to another tier, bumps the version and is
\* announced; an hour without an entry stays without.
UpdateTier(h, tier) ==
    IF meta.tier[h] = "none" THEN UNCHANGED <<meta, chanVars>>
    ELSE /\ meta' = [meta EXCEPT !.version = @ + 1, !.tier[h] = tier]
         /\ Send([type |-> "meta", keys |-> {h}])

\* A variation of ArchiveIndex: the tier is left as it is, ReadOnce.
ArchiveIndexPathOnly ==
    /\ archPc = "index" /\ archPc' = "remove"
    /\ UpdateTier(CurArch, meta.tier[CurArch])
    /\ digested' = digested
    /\ UNCHANGED <<files, registry, diskMeta, diskRegistry, callVars, pushes, now, archFiles,
                   diskDigested, archTodo, archBuf, archived, stale, cut, archCrashes>>

\* ... the index entry points to both, under one write lock ...
ArchiveIndex ==
    /\ archPc = "index" /\ archPc' = "remove"
    /\ UpdateTier(CurArch, "daily")
    /\ digested' = IF meta.tier[CurArch] = "none" THEN digested ELSE digested \cup {CurArch}
    /\ UNCHANGED <<files, registry, diskMeta, diskRegistry, callVars, pushes, now, archFiles,
                   diskDigested, archTodo, archBuf, archived, stale, cut, archCrashes>>

\* ... and the hour file is removed.
ArchiveRemove ==
    /\ archPc = "remove" /\ archPc' = "hour"
    /\ files' = [files EXCEPT ![CurArch] = <<>>]
    /\ archived' = TRUE /\ archTodo' = archTodo \ {CurArch}
    /\ UNCHANGED <<meta, registry, diskMeta, diskRegistry, callVars, chanVars, pushes, now,
                   archFiles, digested, diskDigested, archBuf, stale, cut, archCrashes>>

-----------------------------------------------------------------------------
(* run_archive, second loop: the index entries that are daily now *)

ArchiveMonths ==
    /\ archPc = "hour" /\ archTodo = {}
    /\ archPc' = "month" /\ archTodo' = {h \in Hours : meta.tier[h] = "daily"}
    /\ UNCHANGED <<poolVars, now, archFiles, digested, diskDigested, archBuf, archived,
                   stale, cut, archCrashes>>

\* Not of this month, old enough, and its day file not empty.
OfMonthlyAge(h) ==
    /\ MonthOfDay(DayOf(h)) < MonthOfDay(Today) /\ now - h >= MonthlyAge
    /\ daily[DayOf(h)] # <<>>

MonthlySkip ==
    /\ archPc = "month" /\ archTodo # {} /\ ~OfMonthlyAge(CurArch)
    /\ archTodo' = archTodo \ {CurArch}
    /\ UNCHANGED <<poolVars, now, archFiles, digested, diskDigested, archPc, archBuf,
                   archived, stale, cut, archCrashes>>

MonthlyRead ==
    /\ archPc = "month" /\ archTodo # {} /\ OfMonthlyAge(CurArch)
    /\ archBuf' = daily[CurDay] /\ archPc' = "monthCreate"
    /\ UNCHANGED <<poolVars, now, archFiles, digested, diskDigested, archTodo, archived,
                   stale, cut, archCrashes>>

\* The whole day is written to the month's folder, once per hour of it ...
MonthlyCreate ==
    /\ archPc = "monthCreate" /\ archPc' = "monthWrite"
    /\ monthly' = [monthly EXCEPT ![CurDay] = <<>>]
    /\ UNCHANGED <<poolVars, now, daily, digests, digested, diskDigested, archTodo,
                   archBuf, archived, stale, cut, archCrashes>>

MonthlyWrite ==
    /\ archPc = "monthWrite" /\ archPc' = "monthIndex"
    /\ monthly' = [monthly EXCEPT ![CurDay] = archBuf]
    /\ archBuf' = <<>>
    /\ UNCHANGED <<poolVars, now, daily, digests, digested, diskDigested, archTodo,
                   archived, stale, cut, archCrashes>>

\* ... and the day file stays, as a redundant copy.
MonthlyIndex ==
    /\ archPc = "monthIndex" /\ archPc' = "month"
    /\ UpdateTier(CurArch, "monthly")
    /\ archTodo' = archTodo \ {CurArch}
    /\ UNCHANGED <<files, registry, diskMeta, diskRegistry, callVars, pushes, now, archFiles,
                   digested, diskDigested, archBuf, archived, stale, cut, archCrashes>>

\* The metadata is saved only when the first loop has archived something.
ArchiveSave ==
    /\ archPc = "month" /\ archTodo = {}
    /\ archPc' = "idle" /\ archived' = FALSE
    /\ IF archived THEN diskMeta' = meta /\ diskDigested' = digested
                   ELSE UNCHANGED <<diskMeta, diskDigested>>
    /\ UNCHANGED <<files, meta, registry, diskRegistry, callVars, chanVars, pushes, now,
                   archFiles, digested, archTodo, archBuf, stale, cut, archCrashes>>

ArchiveStep ==
    \/ ArchiveSkip \/ ArchiveRead \/ ArchiveCreate \/ ArchiveWrite \/ ArchiveDigest
    \/ ArchiveIndex \/ ArchiveRemove \/ ArchiveMonths
    \/ MonthlySkip \/ MonthlyRead \/ MonthlyCreate \/ MonthlyWrite \/ MonthlyIndex
    \/ ArchiveSave

-----------------------------------------------------------------------------
(* What happens around the passes *)

\* Collectors hand over what has happened by now.
PushNow ==
    /\ archPc = "idle"
    /\ \E b \in Batches : (\A i \in DOMAIN b : HourOf[b[i].uid] <= now) /\ PushBegin(b)
    /\ UNCHANGED <<now, archFiles, digested, diskDigested, archCall, stale, cut, archCrashes>>

\* persist_all saves the index with its digests.
Push ==
    /\ PushStep
    /\ stale' = IF pc = "append" /\ meta.tier[CurHour] \in {"daily", "monthly"}
                THEN stale \cup {CurHour} ELSE stale
    /\ diskDigested' = IF pc = "apply" /\ pc' = "saveRegistry" THEN digested ELSE diskDigested
    /\ UNCHANGED <<now, archFiles, digested, archCall, cut, archCrashes>>

Tick ==
    /\ Quiet /\ now < MaxNow /\ now' = now + 1
    /\ UNCHANGED <<poolVars, archFiles, digested, diskDigested, archCall, stale, cut, archCrashes>>

\* The process is killed and started again: index and registry come from the disk.
ArchiveCrash ==
    /\ pc = "idle" /\ archCrashes < MaxArchCrashes
    /\ archCrashes' = archCrashes + 1
    /\ meta' = diskMeta /\ registry' = diskRegistry /\ digested' = diskDigested
    /\ chan' = <<>> /\ lagged' = FALSE
    /\ archPc' = "idle" /\ archTodo' = {} /\ archBuf' = <<>> /\ archived' = FALSE
    /\ cut' = cut \cup {DayOf(h) : h \in {h \in Hours : diskMeta.tier[h] # meta.tier[h]}}
                  \cup (IF archPc \in {"idle", "hour", "month"} THEN {} ELSE {CurDay})
    /\ UNCHANGED <<files, diskMeta, diskRegistry, callVars, pushes, now, archFiles,
                   diskDigested, stale>>

ArchiveNext == PushNow \/ Push \/ Tick \/ ArchiveBegin \/ ArchiveStep \/ ArchiveCrash

ArchiveSpec == ArchiveInit /\ [][ArchiveNext]_archVars

-----------------------------------------------------------------------------
(* The readers *)

\* The records of one hour, in a day file's order.
OfHour(records, h) ==
    FlattenSeq([i \in DOMAIN records |->
                   IF HourOf[records[i].uid] = h THEN <<records[i]>> ELSE <<>>])

\* query_by_hour_key: the tier of the index says which file holds the hour.
ReadHour(h) ==
    CASE meta.tier[h] = "daily"   -> OfHour(daily[DayOf(h)], h)
      [] meta.tier[h] = "monthly" -> OfHour(monthly[DayOf(h)], h)
      [] OTHER                    -> files[h]

\* A variation of QueryRange, the first day left out: RangeFindsAll.
QueryRangeAfter(d1, d2) ==
    LET days  == {d \in Days : d1 < d /\ d <= d2}
        hours == {h \in Hours : meta.tier[h] = "active" /\ d1 <= DayOf(h) /\ DayOf(h) < d2}
    IN  FoldSet(LAMBDA d, acc : acc \o (daily[d] \o monthly[d]),
                FoldSet(LAMBDA h, acc : acc \o files[h], <<>>, hours), days)

\* query_range from the start of day d1 to the start of day d2: archived days up
\* to d2 itself, the kept day file of a monthly day once more; active hours whose
\* key does not exceed the date of d2, as every hour of that day does.
QueryRange(d1, d2) ==
    LET days  == {d \in Days : d1 <= d /\ d <= d2}
        hours == {h \in Hours : meta.tier[h] = "active" /\ d1 <= DayOf(h) /\ DayOf(h) < d2}
    IN  FoldSet(LAMBDA d, acc : acc \o (daily[d] \o monthly[d]),
                FoldSet(LAMBDA h, acc : acc \o files[h], <<>>, hours), days)

\* do_build over the index entries of some hours: the digest of every day that has
\* one, which stands for all hours of that day, then the other hours one by one.
DoBuild(hours) ==
    LET dates    == {d \in {DayOf(h) : h \in hours \cap digested} : d \in DOMAIN digests}
        fromDays == FoldSet(LAMBDA d, acc : MergeDigest(acc, digests[d]), EmptyAggregate, dates)
    IN  FoldSet(LAMBDA h, acc : Ingest(acc, LogsOf(ReadHour(h))), fromDays,
                {h \in hours : DayOf(h) \notin dates})

\* build prunes the hour series when it is done (48 hours).
RetainHours == 2 * HoursPerDay
ColdBuild(hours) == Prune(DoBuild(hours), now - RetainHours)

-----------------------------------------------------------------------------
(* Properties *)

Indexed     == {h \in Hours : meta.tier[h] # "none"}
RecordsOf(S) == FoldSet(LAMBDA h, acc : acc \o ReadHour(h), <<>>, S)

\* A late record of an archived hour waits in an hour file no reader opens.
Pending(h) == files[h] # <<>> /\ meta.tier[h] \in {"daily", "monthly"}

\* A day whose digest was made while some of its hours were still active.
HalfDigested(d) ==
    /\ \E h \in digested : DayOf(h) = d
    /\ \E h \in Indexed \ digested : DayOf(h) = d

\* run_archive with its crashes: a uid the saved registry knows is at all times in
\* one of the three tiers, or about to be written, or of a day that a crash cut.
NothingLost ==
    \A u \in Uids :
        LET h == HourOf[u]
        IN  pc = "idle" /\ diskRegistry[u] # "none" =>
            \/ \E f \in {files[h], daily[DayOf(h)], monthly[DayOf(h)], archBuf} : Holds(f, u) # {}
            \/ DayOf(h) \in cut

\* Replace-or-push across the tiers: whatever moves the hours of a day have made,
\* one by one, late records and repeated passes included, query_by_hour_key finds
\* every accepted record of an hour exactly once, with the class it is registered
\* with - unless a replacement missed its archived record, a late record waits for
\* the next pass, or a crash cut one.
ReadOnce ==
    pc = "idle" /\ archPc \in {"idle", "hour", "month"} =>
        \A h \in Hours :
            \/ h \in stale \/ DayOf(h) \in cut \/ Pending(h)
            \/ /\ OnePerUid(ReadHour(h))
               /\ \A u \in Uids : HourOf[u] = h =>
                    IF Holds(ReadHour(h), u) = {} THEN registry[u] = "none"
                    ELSE registry[u] = ClassIn(ReadHour(h), u)

\* States in which the readers owe the whole truth.
Settled == Quiet /\ stale = {} /\ cut = {} /\ ~(\E h \in Hours : Pending(h))

\* The digest fast path of do_build yields, in every dimension, what reading every
\* hour record by record would - where no day was digested before all of its
\* hours were archived.
BuildExact ==
    Settled /\ ~(\E d \in Days : HalfDigested(d)) =>
        LET built == DoBuild(Indexed).by
            logs  == LogsOf(RecordsOf(Indexed))
        IN  \A d \in Dims : built[d] = RefBy(logs, d)

\* The cold view of the hours up to some hour, and the hot records after it, add
\* up to a view that shows each record once, in all windows, dimensions and
\* series, wherever the boundary lies and however the cold part was archived.
ViewExact ==
    Settled /\ ~(\E d \in Days : HalfDigested(d)) =>
        \A t \in Indexed :
            (\A h \in Indexed : h > t => meta.tier[h] = "active") =>
                LET coldHours == {h \in Indexed : h <= t}
                    hotLogs   == LogsOf(RecordsOf(Indexed \ coldHours))
                    hot       == Ingest(EmptyAggregate, hotLogs)
                    cold      == ColdView(ColdBuild(coldHours), now, t)
                IN  ShowsExactly(BuildView(cold, hot, hotLogs, now),
                                 LogsOf(RecordsOf(Indexed)), now)

\* query_range returns at least once every record of the days before its last,
\* whichever tier each of the days is in.
RangeFindsAll ==
    Settled => \A d1, d2 \in Days \cup {Today} : d1 <= d2 =>
        Range(RecordsOf({h \in Indexed : d1 <= DayOf(h) /\ DayOf(h) < d2}))
            \subseteq Range(QueryRange(d1, d2))

\* The digests of a month's days, merged, are what its archived records add up to
\* in every dimension but the hours.
MonthDigestExact ==
    Quiet /\ cut = {} => \A m \in {MonthOfDay(d) : d \in Days} :
        LET days  == {d \in Days : MonthOfDay(d) = m /\ d \in DOMAIN digests}
            month == MergeToMonthly(m, SetToSeq({digests[d] : d \in days}))
            logs  == LogsOf(FoldSet(LAMBDA d, acc : acc \o daily[d], <<>>, days))
        IN  \A dim \in Dims \ (HourDims \cup {"month"}) : month.by[dim] = RefBy(logs, dim)
=============================================================================
