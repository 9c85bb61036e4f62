------------------------------ MODULE MCDesktop ------------------------------
(***************************************************************************)
(* What the user sees, one part at a time: the floating widget, or the     *)
(* dashboard.  They share no state, so a run of both is a run of each.     *)
(***************************************************************************)
EXTENDS Desktop

VARIABLE part

\* A monitor of six by five; the drag ends near the left edge, near the bottom, in the
\* corner at the right, and off the top.
MCInitialPos == <<2, 2>>
MCReach == {<<1, 2>>, <<2, 3>>, <<5, 4>>, <<3, -1>>}

MCTitles == "u1" :> "Fix" @@ "u2" :> "Fix"

Log(s, m, p, h, c, t) ==
    [source |-> s, model |-> m, project |-> p, hour |-> h, class |-> c, tokens |-> t, name |-> "none"]

\* A session two sources share and two ids of one title, more of it hot than the recent
\* list keeps; then two sessions more, one of them estimated; then, after a Rebuild, less
\* than at first.  Of today's hours 6 and 7 the cache has the first in the second feed.
MCCold == << Log("antigravity", "a", "u1", 1, "official", 1) >>
MCHot  == << Log("claude", "b", "p", 6, "calculate", 2), Log("codex", "a", "p", 7, "calculate", 4),
             Log("ide", "a", "u2", 7, "official", 8) >>
MCFeeds ==
    << [cold |-> MCCold, hot |-> MCHot],
       [cold |-> MCCold \o << Log("codex", "b", "q", 4, "calculate", 16),
                              Log("claude", "b", "r", 3, "official", 32), Head(MCHot) >>,
        hot  |-> Tail(MCHot)],
       [cold |-> <<>>, hot |-> << Log("codex", "b", "q", 7, "official", 16) >>] >>

MCInit == DesktopInit /\ part \in {"widget", "dashboard"}

MCNext ==
    \/ part = "widget"    /\ WidgetStep /\ UNCHANGED part
    \/ part = "dashboard" /\ DashStep   /\ UNCHANGED part

MCSpec == MCInit /\ [][MCNext]_<<part, widgetVars, dashVars>>
=============================================================================
