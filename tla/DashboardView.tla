--------------------------- MODULE DashboardView ---------------------------
(***************************************************************************)
(* The view of the dashboard, computed: the cache's half of it             *)
(* (crates/tp-cache build_dashboard_view) and the view build_view makes of *)
(* that half and the hot records (crates/tp-aggregator).  When the two     *)
(* halves are taken is DataShow's subject; here it is what they add up to. *)
(* The order of the entries, which is by size, is left out.                *)
(***************************************************************************)
EXTENDS Aggregation

CONSTANTS
    Uuids, \* project keys that are conversation ids
    Titles, \* the titles the conversation registry has for some of them
    RecentLimit \* how many recent records a view keeps, 50 in the code

ASSUME TitlesAssumption == DOMAIN Titles \subseteq Uuids
ASSUME RecentAssumption == RecentLimit \in Nat

\* get_title of a conversation id; other project keys are titles already.
TitleOf(p) == IF p \notin Uuids THEN p
              ELSE IF p \in DOMAIN Titles THEN Titles[p] ELSE "Unknown"

\* Entries of an hour series, and of one by hour and source, that lie in the day of `now`.
TodayHours(f, now)   == [k \in {k \in DOMAIN f : DayOf(k) = DayOf(now)} |-> f[k]]
TodaySources(f, now) == [k \in {k \in DOMAIN f : DayOf(k[1]) = DayOf(now)} |-> f[k]]

\* The cache's view: windows, dimensions and series of its aggregate.
ColdView(agg, now, term) ==
    [windows |-> [w \in {"all", "today", "week", "month"} |-> Window(agg, w, now)],
     records |-> At(agg.by.total, "all").records,
     source  |-> Project(agg, "source"),
     model   |-> Project(agg, "model"),
     project |-> Project(agg, "project"),
     daily   |-> agg.by.day,
     daySource     |-> agg.by.daySource,
     hours         |-> TodayHours(agg.by.hour, now),
     hourSource    |-> TodaySources(agg.by.hourSource, now),
     projectSource |-> DOMAIN agg.by.projectSource,
     modelSource   |-> DOMAIN agg.by.modelSource,
     term          |-> term]

\* merge_dimension_entries: amounts add, an overlay's name wins where it has one.
MergeEntries(base, overlay) ==
    LET amount(f, k) == IF k \in DOMAIN f THEN f[k].amount ELSE Zero
        name(f, k)   == IF k \in DOMAIN f THEN f[k].name ELSE "none"
    IN  [k \in DOMAIN base \cup DOMAIN overlay |->
            [amount |-> Plus(amount(base, k), amount(overlay, k)),
             name   |-> IF name(overlay, k) # "none" THEN name(overlay, k) ELSE name(base, k)]]

\* resolve_and_merge_by_project: entries of one title become one, named by it.
ResolveProjects(entries) ==
    [t \in {TitleOf(p) : p \in DOMAIN entries} |->
        [amount |-> SumOver([p \in DOMAIN entries |-> entries[p].amount],
                            {p \in DOMAIN entries : TitleOf(p) = t}),
         name   |-> t]]

\* A variation of MergeDaily, the day's hot records not counted: ViewExact.
MergeDailyTokensOnly(daily, hot, hotLogs) ==
    [d \in DOMAIN daily \cup DOMAIN hot |->
        [tokens |-> At(daily, d).tokens + At(hot, d).tokens, records |-> At(daily, d).records]]

\* The daily series: tokens from the hot aggregate, records from the hot logs.
MergeDaily(daily, hot, hotLogs) ==
    [d \in DOMAIN daily \cup DOMAIN hot |->
        [tokens  |-> At(daily, d).tokens + At(hot, d).tokens,
         records |-> At(daily, d).records
                     + Cardinality({i \in DOMAIN hotLogs :
                           d \in DOMAIN hot /\ DayOf(hotLogs[i].hour) = d})]]

\* A variation of Recent, the oldest records taken: RecentExact.
RecentOldest(hotLogs) ==
    LET oldestFirst == SortSeq(hotLogs, LAMBDA a, b : a.hour < b.hour)
    IN  [i \in DOMAIN oldestFirst |-> [oldestFirst[i] EXCEPT !.project = TitleOf(@)]]

\* The newest hot records; conversation ids give way to their titles.
Recent(hotLogs) ==
    LET newestFirst == SortSeq(hotLogs, LAMBDA a, b : a.hour > b.hour)
        newest == SubSeq(newestFirst, 1, Min({RecentLimit, Len(hotLogs)}))
    IN  [i \in DOMAIN newest |-> [newest[i] EXCEPT !.project = TitleOf(@)]]

\* build_view: the cold view plus the hot records, window by window and map by map.
BuildView(cold, hot, hotLogs, now) ==
    [windows |-> [w \in DOMAIN cold.windows |-> cold.windows[w] + Window(hot, w, now)],
     records |-> cold.records + At(hot.by.total, "all").records,
     source  |-> MergeEntries(cold.source, Project(hot, "source")),
     model   |-> MergeEntries(cold.model, Project(hot, "model")),
     project |-> ResolveProjects(MergeEntries(cold.project, Project(hot, "project"))),
     daily   |-> MergeDaily(cold.daily, hot.by.day, hotLogs),
     daySource     |-> AddMaps(cold.daySource, hot.by.daySource),
     hours         |-> AddMaps(cold.hours, TodayHours(hot.by.hour, now)),
     hourSource    |-> AddMaps(cold.hourSource, TodaySources(hot.by.hourSource, now)),
     projectSource |-> {<<TitleOf(ps[1]), ps[2]>> :
                            ps \in cold.projectSource \cup DOMAIN hot.by.projectSource},
     modelSource   |-> cold.modelSource \cup DOMAIN hot.by.modelSource,
     recent        |-> Recent(hotLogs)]

\* The amounts of a dimension's entries.
AmountsOf(f) == [k \in DOMAIN f |-> f[k].amount]

\* The records with their titles for projects.
TitledLogs(logs) == [i \in DOMAIN logs |-> [logs[i] EXCEPT !.project = TitleOf(@)]]

-----------------------------------------------------------------------------
(* What the view of a sequence of records has to be *)

\* The tokens of the records from a window's first day to today.
RefWindow(logs, window, now) ==
    LET today == DayOf(now)
        In(log) == \/ window = "all"
                   \/ /\ FirstDay(window, today) <= DayOf(log.hour)
                      /\ DayOf(log.hour) <= today
    IN  MapThenSumSet(LAMBDA i : logs[i].tokens, {i \in DOMAIN logs : In(logs[i])})

\* The view shows, in every window and every dimension, each of the records once.
ShowsExactly(view, logs, now) ==
    LET titled    == TitledLogs(logs)
        today     == {h \in RefKeys(logs, "hour") : DayOf(h) = DayOf(now)}
        todayBy   == {k \in RefKeys(logs, "hourSource") : k[1] \in today}
    IN  /\ \A w \in DOMAIN view.windows : view.windows[w] = RefWindow(logs, w, now)
        /\ view.records = Len(logs)
        /\ AmountsOf(view.source)  = RefBy(logs, "source")
        /\ AmountsOf(view.model)   = RefBy(logs, "model")
        /\ AmountsOf(view.project) = RefBy(titled, "project")
        /\ view.daily          = RefBy(logs, "day")
        /\ view.daySource      = RefBy(logs, "daySource")
        /\ view.hours          = [h \in today |-> RefAmount(logs, "hour", h)]
        /\ view.hourSource     = [k \in todayBy |-> RefAmount(logs, "hourSource", k)]
        /\ view.projectSource  = RefKeys(titled, "projectSource")
        /\ view.modelSource    = RefKeys(logs, "modelSource")
=============================================================================
