----------------------------- MODULE Dashboard -----------------------------
(***************************************************************************)
(* The dashboard window (crates/tp-dash) and the way of a view to it: the  *)
(* push task of src/main.rs mixes the memory warning into the aggregator's *)
(* view and sends it on, the worker of app_logic turns every change into a *)
(* message, and the window's state is updated message by message, between  *)
(* the clicks of a user who changes tabs and pages.                        *)
(*                                                                         *)
(* What the window shows is precalculated: the view filtered by the active *)
(* tab, and the rows of the session table.  The day does not change here:  *)
(* a filtered view dates its windows at the last precalculation.           *)
(***************************************************************************)
EXTENDS DashboardView

CONSTANTS
    Feeds,       \* what the aggregator has records of, one refresh after another
    Now,         \* the hour
    PageSize,    \* page_size of the session table
    CmdCap,      \* the capacity of the command channel
    MaxWarnings, \* bound: how often the memory warning changes
    MaxMessages  \* bound: updates under way from the worker to the window

ASSUME DashboardAssumption ==
    /\ {PageSize, CmdCap, MaxMessages} \subseteq Nat \ {0}
    /\ MaxWarnings \in Nat /\ Now \in Nat
    /\ Len(Feeds) \in Nat \ {0} /\ DOMAIN Feeds = 1 .. Len(Feeds)

VARIABLES
    feed, feedChanged,       \* the aggregator's view, and whether the push task has seen it
    warning, warningChanged, \* the memory warning, likewise
    warnings,                \* how often it has changed
    pushed, pushedChanged,   \* view_tx's value, and whether the worker has seen it
    messages,                \* ViewUpdates on their way to the window
    view, activeTab,         \* AppState's view and active_tab
    filtered, rows,          \* its filtered_view and session_table.data.rows
    page, mode, scrollLimit, \* of the session table
    dropdownOpen,
    commands                 \* PipelineCommands queued; DataShow and Collector say what they do

pipeVars  == <<feed, feedChanged, warning, warningChanged, warnings,
               pushed, pushedChanged, messages>>
tableVars == <<page, mode, scrollLimit>>
appVars   == <<view, activeTab, filtered, rows, tableVars, dropdownOpen, commands>>
dashVars  == <<pipeVars, appVars>>

\* The sources of a tab.
TabSources ==
    [all |-> {"antigravity", "ide", "codex", "claude"}, antigravity |-> {"antigravity", "ide"},
     codex |-> {"codex"}, claude |-> {"claude"}]

\* The cold records are the cache's, up to its termination key; the hot ones, those of
\* active hours after it, which the cache has still to count.
FeedLog == [source : TabSources.all, model : STRING, project : STRING, name : STRING,
            hour : Nat, class : {"official", "calculate"}, tokens : Nat]

ASSUME FeedsAssumption ==
    \A f \in DOMAIN Feeds : Feeds[f] \in [cold : Seq(FeedLog), hot : Seq(FeedLog)]

\* What it makes of them.  The cold aggregate keeps the hours of two days.
ViewOf(logs) ==
    LET cold == Prune(Ingest(EmptyAggregate, logs.cold), Now - 2 * HoursPerDay)
    IN  BuildView(ColdView(cold, Now, "none"), Ingest(EmptyAggregate, logs.hot), logs.hot, Now)

FeedViews == [f \in DOMAIN Feeds |-> ViewOf(Feeds[f])]

-----------------------------------------------------------------------------
(* filter_view *)

OfSource(f, S)  == [k \in {k \in DOMAIN f : k[2] \in S} |-> f[k]]
BySources(f, S) == \* a map by <<key, source>> summed over the sources of S
    LET mine == OfSource(f, S)
    IN  [k \in {ks[1] : ks \in DOMAIN mine} |->
            SumOver(mine, {ks \in DOMAIN mine : ks[1] = k})]
\* A variation of SeenWith, every entry kept: TabExact.
SeenWithAny(f, pairs, S) == f

SeenWith(f, pairs, S) == \* the entries of a dimension seen with a source of S
    [k \in {k \in DOMAIN f : \E s \in S : <<k, s>> \in pairs} |-> f[k]]
EntriesTotal(f) == SumOver(AmountsOf(f), DOMAIN f)

\* The view of a tab.  Sessions and models are kept whole when one of the tab's
\* sources was seen with them; totals add sessions, message counts add models,
\* and the windows add the days from their first one on.
FilterView(v, tab) ==
    LET S        == TabSources[tab]
        project  == SeenWith(v.project, v.projectSource, S)
        model    == SeenWith(v.model, v.modelSource, S)
        daily    == BySources(v.daySource, S)
        since(w) == SumOver(daily, {d \in DOMAIN daily : d >= FirstDay(w, DayOf(Now))}).tokens
        Mine(log) == log.source \in S
    IN  IF tab = "all" THEN v ELSE
        [windows |-> [all |-> EntriesTotal(project).tokens, today |-> At(daily, DayOf(Now)).tokens,
                      week |-> since("week"), month |-> since("month")],
         records |-> EntriesTotal(model).records,
         source  |-> [s \in DOMAIN v.source \cap S |-> v.source[s]],
         model   |-> model,
         project |-> project,
         daily   |-> daily,
         daySource     |-> OfSource(v.daySource, S),
         hours         |-> BySources(v.hourSource, S),
         hourSource    |-> OfSource(v.hourSource, S),
         projectSource |-> {ps \in v.projectSource : ps[2] \in S},
         modelSource   |-> {ms \in v.modelSource : ms[2] \in S},
         recent        |-> SelectSeq(v.recent, Mine)]

-----------------------------------------------------------------------------
(* The session table *)

\* The rows a view may give: by size, in any order among equals.  A session is
\* marked as estimated when one of its recent records is, so for what the cache has
\* counted never.
RowsOf(v) ==
    LET estimated(p) == \E i \in DOMAIN v.recent :
                            v.recent[i].project = p /\ v.recent[i].class = "calculate"
        row(p) == [key |-> p, amount |-> v.project[p].amount, calculated |-> estimated(p)]
    IN  {q \in SetToSeqs({row(p) : p \in DOMAIN v.project}) :
            \A i, j \in DOMAIN q : i < j => q[i].amount.tokens >= q[j].amount.tokens}

\* A variation of MaxPage, the last full page counted as one more: PageShown.
MaxPageFull(r) == Len(r) \div PageSize

MaxPage(r)    == IF r = <<>> THEN 0 ELSE (Len(r) - 1) \div PageSize
TotalPages(r) == IF r = <<>> THEN 1 ELSE (Len(r) + PageSize - 1) \div PageSize

\* The rows shown: the current page, or the first scroll_limit.
Shown == IF mode = "pagination"
         THEN SubSeq(rows, page * PageSize + 1, Min({(page + 1) * PageSize, Len(rows)}))
         ELSE SubSeq(rows, 1, Min({scrollLimit, Len(rows)}))

\* precalculate: the filtered view, the table's rows, and a page that exists.
Precalculate(v, tab) ==
    /\ filtered' = [view |-> FilterView(FeedViews[v.feed], tab), warning |-> v.warning]
    /\ rows' \in RowsOf(filtered'.view)
    /\ page' = Min({page, MaxPage(rows')})

-----------------------------------------------------------------------------
(* From the aggregator to the window *)

DashInit ==
    /\ feed = 1 /\ feedChanged = FALSE
    /\ warning = "none" /\ warningChanged = FALSE /\ warnings = 0
    /\ pushed = [feed |-> 1, warning |-> "none"] /\ pushedChanged = FALSE
    /\ messages = <<pushed>>
    /\ view = pushed /\ activeTab = "all"
    /\ filtered = [view |-> FeedViews[1], warning |-> "none"]
    /\ rows \in RowsOf(FeedViews[1])
    /\ page = 0 /\ mode = "pagination" /\ scrollLimit = PageSize
    /\ dropdownOpen = FALSE /\ commands = 0

\* The aggregator sends a new view.
Refreshed ==
    /\ feed < Len(Feeds)
    /\ feed' = feed + 1 /\ feedChanged' = TRUE
    /\ UNCHANGED <<warning, warningChanged, warnings, pushed, pushedChanged, messages, appVars>>

\* The monitoring task sends what it finds, every five seconds, changed or not.
Measure ==
    /\ warnings < MaxWarnings
    /\ warnings' = warnings + 1
    /\ warning' \in {"none", "memory"} /\ warningChanged' = TRUE
    /\ UNCHANGED <<feed, feedChanged, pushed, pushedChanged, messages, appVars>>

Push == pushed' = [feed |-> feed, warning |-> warning] /\ pushedChanged' = TRUE

PushView ==
    /\ feedChanged
    /\ feedChanged' = FALSE
    /\ Push
    /\ UNCHANGED <<feed, warning, warningChanged, warnings, messages, appVars>>

PushWarning ==
    /\ warningChanged
    /\ warningChanged' = FALSE
    /\ Push
    /\ UNCHANGED <<feed, feedChanged, warning, warnings, messages, appVars>>

\* The worker: changes in a row may become one message.
Forward ==
    /\ pushedChanged /\ Len(messages) < MaxMessages
    /\ pushedChanged' = FALSE
    /\ messages' = Append(messages, pushed)
    /\ UNCHANGED <<feed, feedChanged, warning, warningChanged, warnings, pushed, appVars>>

\* A variation of UpdateView, a view of the same records passed over: ShowsLatest.
UpdateViewIfNew ==
    /\ messages # <<>>
    /\ messages' = Tail(messages)
    /\ IF Head(messages).feed = view.feed THEN UNCHANGED <<view, filtered, rows, page>>
       ELSE view' = Head(messages) /\ Precalculate(view', activeTab)
    /\ UNCHANGED <<feed, feedChanged, warning, warningChanged, warnings, pushed, pushedChanged,
                   activeTab, mode, scrollLimit, dropdownOpen, commands>>

UpdateView ==
    /\ messages # <<>>
    /\ messages' = Tail(messages)
    /\ view' = Head(messages)
    /\ Precalculate(view', activeTab)
    /\ UNCHANGED <<feed, feedChanged, warning, warningChanged, warnings, pushed, pushedChanged,
                   activeTab, mode, scrollLimit, dropdownOpen, commands>>

-----------------------------------------------------------------------------
(* Clicks *)

\* try_send: a command that finds the channel full is dropped.
TrySend == commands' = Min({commands + 1, CmdCap})

SelectTab(tab) ==
    /\ activeTab' = tab
    /\ Precalculate(view, tab)
    /\ TrySend
    /\ UNCHANGED <<pipeVars, view, mode, scrollLimit, dropdownOpen>>

ToggleDropdown ==
    /\ dropdownOpen' = ~dropdownOpen
    /\ UNCHANGED <<pipeVars, view, activeTab, filtered, rows, tableVars, commands>>

\* Refresh, and Upsert and Rebuild, which are in the dropdown.
SendCommand ==
    /\ dropdownOpen' = FALSE
    /\ TrySend
    /\ UNCHANGED <<pipeVars, view, activeTab, filtered, rows, tableVars>>

\* The command task takes one.
TakeCommand ==
    /\ commands > 0
    /\ commands' = commands - 1
    /\ UNCHANGED <<pipeVars, view, activeTab, filtered, rows, tableVars, dropdownOpen>>

PrevPage ==
    /\ mode = "pagination" /\ page > 0
    /\ page' = page - 1
    /\ UNCHANGED <<mode, scrollLimit>>

NextPage ==
    /\ mode = "pagination" /\ (page + 1) * PageSize < Len(rows)
    /\ page' = page + 1
    /\ UNCHANGED <<mode, scrollLimit>>

LoadMore ==
    /\ mode = "scroll" /\ scrollLimit < Len(rows)
    /\ scrollLimit' = scrollLimit + PageSize
    /\ UNCHANGED <<page, mode>>

ToPagination == mode' = "pagination" /\ page' = 0 /\ UNCHANGED scrollLimit
ToScroll     == mode' = "scroll" /\ scrollLimit' = PageSize /\ UNCHANGED page

TableClick ==
    /\ PrevPage \/ NextPage \/ LoadMore \/ ToPagination \/ ToScroll
    /\ UNCHANGED <<pipeVars, view, activeTab, filtered, rows, dropdownOpen, commands>>

DashNext ==
    \/ Refreshed \/ Measure \/ PushView \/ PushWarning \/ Forward \/ UpdateView
    \/ \E tab \in DOMAIN TabSources : SelectTab(tab)
    \/ ToggleDropdown \/ SendCommand \/ TakeCommand \/ TableClick

DashSpec == DashInit /\ [][DashNext]_dashVars

-----------------------------------------------------------------------------
(* Properties *)

\* Each variable keeps to its values, queues and channel to their capacity.
DashTypeOK ==
    LET Versions == [feed : DOMAIN Feeds, warning : {"none", "memory"}]
    IN  /\ {pushed, view} \cup Range(messages) \subseteq Versions
        /\ [feed |-> feed, warning |-> warning] \in Versions
        /\ {feedChanged, warningChanged, pushedChanged, dropdownOpen} \subseteq BOOLEAN
        /\ activeTab \in DOMAIN TabSources /\ mode \in {"pagination", "scroll"}
        /\ page \in Nat /\ scrollLimit \in Nat \ {0} /\ warnings \in 0 .. MaxWarnings
        /\ commands \in 0 .. CmdCap /\ Len(messages) <= MaxMessages
        /\ filtered.warning \in {"none", "memory"}

\* Two senders, a channel that keeps the last value only and a queue: once all of
\* them are through, the window shows the last view and the last warning.
ShowsLatest ==
    (~feedChanged /\ ~warningChanged /\ ~pushedChanged /\ messages = <<>>)
    => view.feed = feed /\ filtered.warning = warning

\* A tab's view of some records.  Windows, series and sources count the tab's own;
\* sessions and models are those with a record of the tab, and count with all their
\* records, other tabs' too, and so does the total.
TabShows(v, logs, tab) ==
    LET titled == TitledLogs(logs)
        own    == {i \in DOMAIN logs : logs[i].source \in TabSources[tab]}
        today  == {i \in own : DayOf(logs[i].hour) = DayOf(Now)}
        mine   == Restrict(logs, own)
        sessions == [p \in RefKeys(Restrict(titled, own), "project") |-> RefAmount(titled, "project", p)]
        models   == [m \in RefKeys(mine, "model") |-> RefAmount(logs, "model", m)]
    IN  /\ \A w \in {"today", "week", "month"} : v.windows[w] = RefWindow(mine, w, Now)
        /\ v.windows.all = SumOver(sessions, DOMAIN sessions).tokens
        /\ v.records = SumOver(models, DOMAIN models).records
        /\ AmountsOf(v.project) = sessions /\ AmountsOf(v.model) = models
        /\ AmountsOf(v.source) = RefBy(mine, "source")
        /\ v.daily = RefBy(mine, "day") /\ v.daySource = RefBy(mine, "daySource")
        /\ v.hours = RefBy(Restrict(logs, today), "hour")
        /\ v.hourSource = RefBy(Restrict(logs, today), "hourSource")

\* Whatever came between, an update or a change of tab: each figure on the screen is
\* that of the view and the tab in force, and the table has one row for each session.
TabExact ==
    LET sessions == DOMAIN filtered.view.project
    IN  /\ TabShows(filtered.view, Feeds[view.feed].cold \o Feeds[view.feed].hot, activeTab)
        /\ {r.key : r \in Range(rows)} = sessions /\ Len(rows) = Cardinality(sessions)

\* The recent records are the tab's hot ones, the newest first, no more than the limit;
\* one is left out only for so many hot ones at least as new. And no session is marked as
\* estimated that has no estimated record.
RecentExact ==
    LET hot    == TitledLogs(Feeds[view.feed].hot)
        mine   == {log \in Range(hot) : log.source \in TabSources[activeTab]}
        recent == filtered.view.recent
        Times(logs, log) == Cardinality({i \in DOMAIN logs : logs[i] = log})
    IN  /\ \A i, j \in DOMAIN recent : i < j => recent[i].hour >= recent[j].hour
        /\ Range(recent) \subseteq mine /\ Len(recent) <= RecentLimit
        /\ \A log \in mine :
              \/ Times(recent, log) = Times(hot, log)
              \/ /\ Times(recent, log) < Times(hot, log)
                 /\ Cardinality({i \in DOMAIN hot : hot[i].hour >= log.hour}) > RecentLimit
        /\ \A r \in Range(rows) :
              r.calculated => \E log \in Range(hot) : log.project = r.key /\ log.class = "calculate"

\* "If there is any estimated data in this session, it is taken as calculated"
\* (session_table.rs:93), whether the cache has counted it or not.
EstimatesMarked ==
    LET logs == TitledLogs(Feeds[view.feed].cold \o Feeds[view.feed].hot)
    IN  \A r \in Range(rows) :
            (\E log \in Range(logs) : log.project = r.key /\ log.class = "calculate") => r.calculated

\* However the table shrank or grew under the user, the page it is on exists and
\* has rows as long as there are any.
PageShown ==
    /\ mode = "pagination" => page + 1 <= TotalPages(rows)
    /\ rows # <<>> => Shown # <<>>
=============================================================================
