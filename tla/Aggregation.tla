---------------------------- MODULE Aggregation ----------------------------
(***************************************************************************)
(* The additive aggregate of crates/tp-compute and the pre-computed digest *)
(* of one archived day (crates/tp-protocol/src/digest.rs), as operators.   *)
(*                                                                         *)
(* An aggregate keeps, for every dimension, the amount of every key seen.  *)
(* A record's four token counts are one number here: they are only ever    *)
(* added, each to its like.  Costs are left out: a record's cost is a      *)
(* fixed multiple of its tokens for its model, added wherever its tokens   *)
(* are.  by_day and by_day_stats, which every operation keeps together,    *)
(* are the one dimension "day".                                            *)
(*                                                                         *)
(* Hours count from the epoch of a calendar whose days, weeks and months   *)
(* may be made short; a week begins with day 0.                            *)
(***************************************************************************)
EXTENDS Integers, Sequences, FiniteSets, TLC, FiniteSetsExt, SequencesExt

CONSTANTS HoursPerDay, DaysPerWeek, DaysPerMonth

ASSUME CalendarAssumption == {HoursPerDay, DaysPerWeek, DaysPerMonth} \subseteq Nat \ {0}

DayOf(hour)    == hour \div HoursPerDay
MonthOfDay(d)  == d \div DaysPerMonth
WeekOfDay(d)   == d \div DaysPerWeek

\* What an aggregate is kept by.  The two *Source sets have no amounts: they
\* record which sources a project and a model were seen with.
Dims == {"total", "source", "model", "project", "class", "hour", "day", "month",
         "daySource", "hourSource", "projectSource", "modelSource"}

\* The dimensions that count records besides tokens.
Counted == {"total", "source", "model", "project", "day", "daySource"}

\* The keys a record is counted under.
KeyOf(log) ==
    [total |-> "all", source |-> log.source, model |-> log.model,
     project |-> log.project, class |-> log.class, hour |-> log.hour,
     day |-> DayOf(log.hour), month |-> MonthOfDay(DayOf(log.hour)),
     daySource |-> <<DayOf(log.hour), log.source>>,
     hourSource |-> <<log.hour, log.source>>,
     projectSource |-> <<log.project, log.source>>,
     modelSource |-> <<log.model, log.source>>]

Zero       == [tokens |-> 0, records |-> 0]
Plus(a, b) == [tokens |-> a.tokens + b.tokens, records |-> a.records + b.records]

\* What one record adds in a dimension.
Amount(log, d) ==
    [tokens  |-> IF d \in {"projectSource", "modelSource"} THEN 0 ELSE log.tokens,
     records |-> IF d \in Counted THEN 1 ELSE 0]

\* entry(key).or_default(), and the accumulation of two maps key by key.
At(f, k)       == IF k \in DOMAIN f THEN f[k] ELSE Zero
Put(f, k, v)   == [j \in DOMAIN f \cup {k} |-> IF j = k THEN v ELSE f[j]]
AddTo(f, k, a) == Put(f, k, Plus(At(f, k), a))
AddMaps(f, g)  == [k \in DOMAIN f \cup DOMAIN g |-> Plus(At(f, k), At(g, k))]

\* SumOver of a map's amounts, for the keys of S.
SumOver(f, S) == FoldSet(LAMBDA k, acc : Plus(acc, At(f, k)), Zero, S)

EmptyAggregate == [by |-> [d \in Dims |-> <<>>], names |-> <<>>]

-----------------------------------------------------------------------------
(* IncrementalAggregator *)

\* A record is added under each of its keys, and gives its project its name.
IngestOne(agg, log) ==
    [by    |-> [d \in Dims |-> AddTo(agg.by[d], KeyOf(log)[d], Amount(log, d))],
     names |-> IF log.name = "none" THEN agg.names
               ELSE Put(agg.names, log.project, log.name)]

Ingest(agg, logs) == FoldLeft(IngestOne, agg, logs)

\* prune_hourly, after a build: hours before the cutoff leave the hour series only.
Prune(agg, cutoff) ==
    LET Recent(f, H(_)) == [k \in {k \in DOMAIN f : H(k) >= cutoff} |-> f[k]]
    IN  [agg EXCEPT !.by.hour       = Recent(@, LAMBDA k : k),
                    !.by.hourSource = Recent(@, LAMBDA k : k[1])]

\* project: the entries of a dimension; only projects are given a name.
Project(agg, d) ==
    [k \in DOMAIN agg.by[d] |->
        [amount |-> agg.by[d][k],
         name   |-> IF d = "project" /\ k \in DOMAIN agg.names THEN agg.names[k] ELSE "none"]]

\* window: the days from the window's first to today.
FirstDay(window, today) ==
    CASE window = "today" -> today
      [] window = "week"  -> WeekOfDay(today) * DaysPerWeek
      [] window = "month" -> MonthOfDay(today) * DaysPerMonth

Window(agg, window, now) ==
    IF window = "all" THEN At(agg.by.total, "all").tokens
    ELSE LET today == DayOf(now)
         IN  SumOver(agg.by.day, {d \in DOMAIN agg.by.day :
                         FirstDay(window, today) <= d /\ d <= today}).tokens

-----------------------------------------------------------------------------
(* ArchiveDigest *)

\* A monthly digest has none of these: its by_hour is None.
HourDims == {"hour", "hourSource"}

\* The digest of a day: what ingest keeps but months and names.
BuildDaily(day, logs) ==
    LET agg == Ingest(EmptyAggregate, logs)
    IN  [granularity |-> "daily", timeKey |-> day,
         by |-> [d \in Dims \ {"month"} |-> agg.by[d]]]

\* A variation of Accumulate, the last day's amount of a key kept: MonthDigestExact.
AccumulateOverwrites(self, other) ==
    [self EXCEPT !.by = [d \in DOMAIN self.by |->
        IF d \in DOMAIN other.by THEN other.by[d] @@ self.by[d] ELSE self.by[d]]]

\* accumulate: hours only where both digests have them.
Accumulate(self, other) ==
    [self EXCEPT !.by = [d \in DOMAIN self.by |->
        IF d \in DOMAIN other.by THEN AddMaps(self.by[d], other.by[d]) ELSE self.by[d]]]

\* merge_to_monthly, from an empty digest without hours.
MergeToMonthly(month, dailies) ==
    FoldLeft(Accumulate,
             [granularity |-> "monthly", timeKey |-> month,
              by |-> [d \in Dims \ (HourDims \cup {"month"}) |-> <<>>]],
             dailies)

\* merge_digest: a digest is added; its month is the one of its time key.
MergeDigest(agg, digest) ==
    LET month == IF digest.granularity = "daily" THEN MonthOfDay(digest.timeKey)
                                                 ELSE digest.timeKey
        total == [At(digest.by.total, "all") EXCEPT !.records = 0]
    IN  [agg EXCEPT !.by = [d \in Dims |->
            IF d = "month" THEN AddTo(agg.by.month, month, total)
            ELSE IF d \in DOMAIN digest.by THEN AddMaps(agg.by[d], digest.by[d])
            ELSE agg.by[d]]]

-----------------------------------------------------------------------------
(* What an aggregate of a sequence of records has to be *)

\* The amount of the records counted under a key, and the keys there are.
RefKeys(logs, d) == {KeyOf(logs[i])[d] : i \in DOMAIN logs}
RefAmount(logs, d, k) ==
    LET mine == {i \in DOMAIN logs : KeyOf(logs[i])[d] = k}
    IN  [tokens  |-> MapThenSumSet(LAMBDA i : Amount(logs[i], d).tokens, mine),
         records |-> IF d \in Counted THEN Cardinality(mine) ELSE 0]

RefBy(logs, d) == [k \in RefKeys(logs, d) |-> RefAmount(logs, d, k)]
=============================================================================
