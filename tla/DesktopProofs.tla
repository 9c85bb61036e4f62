---------------------------- MODULE DesktopProofs ----------------------------
(***************************************************************************)
(* Proofs about what the user sees (Desktop): the floating widget, for a   *)
(* monitor, a widget and drags of every size, and the dashboard, for feeds *)
(* of every length and content, page sizes and capacities.                 *)
(*                                                                         *)
(* A widget under way to its place is at no place of its state, and one    *)
(* held with the button down may be anywhere: the first invariant speaks   *)
(* of the place and size an animation is about to leave, and of a held     *)
(* widget only that a release will start one.  The second follows a view   *)
(* and a warning on their way to the window.  What a view shows comes from *)
(* what BuildView does (AggregationProofs): a tab's series and sources are *)
(* those of its own records, and its sessions and models are some of the   *)
(* whole view's.  At the end the two come together: what is proved of      *)
(* either holds of both.                                                   *)
(***************************************************************************)
EXTENDS Desktop, AggregationProofs, FiniteSetTheorems, TLAPS

-----------------------------------------------------------------------------
(* The floating widget *)

\* The place and the kind of size that the widget has or is on its way to.
Goal == IF anim = NoAnim THEN [pos |-> pos, size |-> size]
                         ELSE [pos |-> anim.target, size |-> anim.size]

\* A layout that is one of state s, snapped or revealed.
Fitting(s, layout) ==
    CASE s = "left"  -> layout.size \in {"handle", "badge"} /\ layout.pos[1] = 0
      [] s = "right" -> \/ layout.size = "handle" /\ layout.pos[1] = MonitorW - Handle
                        \/ layout.size = "badge"  /\ layout.pos[1] = MonitorW - Badge
      [] s = "top"   -> layout.size \in {"handle", "badge"} /\ layout.pos[2] = 0
      [] s = "badge" -> layout.size = "badge"
      [] s = "expanded" ->
            /\ layout.size = "expanded"
            /\ layout.pos[1] \in 0 .. MonitorW - ExpandedW
            /\ layout.pos[2] \in 0 .. MonitorH - ExpandedH

\* What the events exclude one another by.
Control ==
    /\ mouseDown => state # "expanded" /\ floating = "shown"
    /\ over => floating = "shown"
    /\ floating = "none" => state = "badge"
    /\ hoverStart => over

\* A snapped widget on the screen, or on its way there, goes back.
Returning == state \in Snapped /\ ~over /\ ~mouseDown /\ Goal.size = "badge" => hoverOff

WInv ==
    /\ WidgetTypeOK
    /\ Control
    /\ ~mouseDown => Fitting(state, Goal)
    /\ Returning

Points == Int \X Int

-----------------------------------------------------------------------------
(* Layouts *)

\* Every layout is a place and a kind of size, and one of its state.
LEMMA SnappedFits ==
    ASSUME NEW s \in Snapped \cup {"badge"}, NEW p \in Points
    PROVE  LET l == SnappedLayout(s, p)
           IN  /\ l.pos \in Points /\ l.size \in Sizes /\ Fitting(s, l)
               /\ s # "badge" => l.size = "handle"
<1> USE WidgetAssumption DEF Points, Sizes, Snapped
<1>1. CASE s = "left"  BY <1>1 DEF SnappedLayout, Fitting
<1>2. CASE s = "right" BY <1>2 DEF SnappedLayout, Fitting
<1>3. CASE s = "top"   BY <1>3 DEF SnappedLayout, Fitting
<1>4. CASE s = "badge" BY <1>4 DEF SnappedLayout, Fitting
<1> QED BY <1>1, <1>2, <1>3, <1>4

LEMMA RevealedFits ==
    ASSUME NEW s \in Snapped, NEW p \in Points
    PROVE  LET l == RevealedLayout(s, p)
           IN  l.pos \in Points /\ l.size \in Sizes /\ Fitting(s, l)
<1> USE WidgetAssumption DEF Points, Sizes, Snapped
<1>1. CASE s = "left"  BY <1>1 DEF RevealedLayout, Fitting
<1>2. CASE s = "right" BY <1>2 DEF RevealedLayout, Fitting
<1>3. CASE s = "top"   BY <1>3 DEF RevealedLayout, Fitting
<1> QED BY <1>1, <1>2, <1>3

\* The expanded widget is whole on the monitor, wherever it was opened.
LEMMA ExpandedFits ==
    ASSUME NEW p \in Points
    PROVE  LET l == ExpandedLayout(p)
           IN  l.pos \in Points /\ l.size \in Sizes /\ Fitting("expanded", l)
<1> DEFINE l == ExpandedLayout(p)
<1>1. \A v \in Int, hi \in Nat : Clamp(v, 0, hi) \in 0 .. hi BY DEF Clamp
<1>2. MonitorW - ExpandedW \in Nat /\ MonitorH - ExpandedH \in Nat BY WidgetAssumption
<1>3. p[1] \in Int /\ p[2] \in Int BY DEF Points
<1>4. l.pos = <<Clamp(p[1], 0, MonitorW - ExpandedW), Clamp(p[2], 0, MonitorH - ExpandedH)>>
      /\ l.size = "expanded"
  BY DEF ExpandedLayout
<1>5. /\ Clamp(p[1], 0, MonitorW - ExpandedW) \in 0 .. MonitorW - ExpandedW
      /\ Clamp(p[2], 0, MonitorH - ExpandedH) \in 0 .. MonitorH - ExpandedH
  BY <1>1, <1>2, <1>3
<1> HIDE DEF l
<1>6. l.pos[1] \in 0 .. MonitorW - ExpandedW /\ l.pos[2] \in 0 .. MonitorH - ExpandedH
  BY <1>4, <1>5
<1>7. l.pos \in Points BY <1>4, <1>5 DEF Points
<1> QED BY <1>4, <1>6, <1>7 DEF Fitting, Sizes, l

\* An animation that has been started is one, and leads to its layout.
LEMMA Started ==
    ASSUME NEW l, l.pos \in Points, l.size \in Sizes, pos \in Points, anim' = Towards(l)
    PROVE  /\ anim' # NoAnim
           /\ anim'.size \in Sizes /\ {anim'.start, anim'.target} \subseteq Points
           /\ Goal'.pos = l.pos /\ Goal'.size = l.size
<1>1. anim' = [start |-> pos, target |-> l.pos, size |-> l.size] BY DEF Towards
<1>2. anim'.target # <<>> BY <1>1 DEF Points
<1>3. anim' # NoAnim BY <1>2 DEF NoAnim
<1> QED BY <1>1, <1>3 DEF Goal

\* Where an animation may be is a point.
LEMMA OnTheWayPoints ==
    ASSUME NEW a, a.start \in Points, a.target \in Points
    PROVE  OnTheWay(a) \subseteq Points
<1>1. \A x, y \in Int : Interval(x, y) \subseteq Int BY DEF Interval
<1>2. /\ a.start[1] \in Int /\ a.target[1] \in Int
      /\ a.start[2] \in Int /\ a.target[2] \in Int
  BY DEF Points
<1>3. Interval(a.start[1], a.target[1]) \X Interval(a.start[2], a.target[2]) \subseteq Points
  BY <1>1, <1>2 DEF Points
<1> QED BY <1>3 DEF OnTheWay

\* Fitting depends on the place and the size alone.
LEMMA FittingSame ==
    ASSUME NEW s, NEW k, NEW l, k.pos = l.pos, k.size = l.size, Fitting(s, k)
    PROVE  Fitting(s, l)
  BY DEF Fitting

-----------------------------------------------------------------------------
(* The invariant *)

\* A step that starts an animation keeps what the layout has to do with the state.
LEMMA AnimStep ==
    ASSUME NEW l, NEW s, l.pos \in Points, l.size \in Sizes, Fitting(s, l),
           pos \in Points, anim' = Towards(l), state' = s
    PROVE  Fitting(state', Goal') /\ Goal'.size = l.size
  BY Started, FittingSame

LEMMA StepWInv == WInv /\ [WidgetNext]_widgetVars => WInv'
<1> SUFFICES ASSUME WInv, [WidgetNext]_widgetVars PROVE WInv'
  OBVIOUS
<1>1. WidgetTypeOK /\ Control /\ Returning /\ (~mouseDown => Fitting(state, Goal))
  BY DEF WInv
<1>2. pos \in Points /\ Points = Int \X Int BY <1>1 DEF WidgetTypeOK, Points
<1> USE DEF hoverVars, mouseVars, layoutVars
<1>3. CASE UNCHANGED widgetVars
  <2>1. /\ UNCHANGED <<floating, state, previous, pos, size, anim>>
        /\ UNCHANGED <<hoverStart, hoverOff, over, mouseDown, dragging, tooltip>>
    BY <1>3 DEF widgetVars
  <2>2. Goal' = Goal BY <2>1 DEF Goal
  <2> QED BY <1>1, <2>1, <2>2 DEF WInv, WidgetTypeOK, Control, Returning
<1>4. CASE Toggle
  <2>1. /\ UNCHANGED <<previous, pos, size, anim, hoverStart, hoverOff, over, mouseDown, dragging, tooltip>>
        /\ ~over /\ ~mouseDown /\ floating' \in {"none", "shown", "hidden"}
        /\ floating' = "none" => floating = "none"
        /\ state' = state
    BY <1>1, <1>4 DEF Toggle, Control
  <2>2. Goal' = Goal BY <2>1 DEF Goal
  <2> QED BY <1>1, <2>1, <2>2 DEF WInv, WidgetTypeOK, Control, Returning
<1>5. CASE CursorEntered \/ CursorLeft
  <2>1. /\ UNCHANGED <<floating, state, previous, pos, size, anim, mouseDown, dragging>>
    BY <1>5 DEF CursorEntered, CursorLeft
  <2>2. Goal' = Goal BY <2>1 DEF Goal
  <2> QED BY <1>1, <1>5, <2>1, <2>2 DEF CursorEntered, CursorLeft, WInv, WidgetTypeOK, Control, Returning
<1>6. CASE Press
  <2>1. UNCHANGED <<floating, state, previous, pos, size, anim, over, tooltip>> BY <1>6 DEF Press
  <2>2. /\ over /\ state # "expanded" /\ mouseDown' = TRUE /\ dragging' = FALSE
        /\ hoverStart' = FALSE /\ hoverOff' = FALSE
    BY <1>6 DEF Press
  <2>3. WidgetTypeOK' BY <1>1, <2>1, <2>2 DEF WidgetTypeOK
  <2>4. Control' BY <1>1, <2>1, <2>2 DEF Control
  <2> QED BY <2>2, <2>3, <2>4 DEF WInv, Returning
<1>7. CASE Drag
  <2>1. pos' \in Int \X Int BY <1>7, WidgetAssumption DEF Drag
  <2> QED BY <1>1, <1>7, <2>1 DEF Drag, WInv, WidgetTypeOK, Control, Returning
<1>8. CASE Drop
  <2> DEFINE l == SnappedLayout(state', pos)
  <2>1. /\ mouseDown /\ mouseDown' = FALSE /\ dragging' = FALSE
        /\ state' = DroppedAt(pos) /\ anim' = Towards(l)
        /\ UNCHANGED <<floating, previous, pos, size, hoverStart, hoverOff, over, tooltip>>
    BY <1>8 DEF Drop
  <2>2. state' \in Snapped \cup {"badge"} BY <2>1 DEF DroppedAt, Snapped
  <2>3. /\ l.pos \in Points /\ l.size \in Sizes /\ Fitting(state', l)
        /\ state' # "badge" => l.size = "handle"
    BY <1>2, <2>2, SnappedFits
  <2> HIDE DEF l
  <2>4. /\ anim' # NoAnim /\ anim'.size \in Sizes /\ {anim'.start, anim'.target} \subseteq Points
        /\ Fitting(state', Goal') /\ Goal'.size = l.size
    BY <1>2, <2>1, <2>3, Started, AnimStep
  <2>5. WidgetTypeOK' BY <1>1, <1>2, <2>1, <2>2, <2>4 DEF WidgetTypeOK, Control, States, Snapped
  <2>6. Control' BY <1>1, <2>1, <2>2 DEF Control, Snapped
  <2>7. Returning' BY <2>2, <2>3, <2>4 DEF Returning, Snapped
  <2> QED BY <2>4, <2>5, <2>6, <2>7 DEF WInv
<1>9. CASE Click
  <2> DEFINE l == ExpandedLayout(pos)
  <2>1. /\ mouseDown /\ mouseDown' = FALSE /\ tooltip' = FALSE /\ ~dragging
        /\ previous' = state /\ state' = "expanded" /\ anim' = Towards(l)
        /\ UNCHANGED <<floating, pos, size, hoverStart, hoverOff, over, dragging>>
    BY <1>9 DEF Click
  <2>2. state \in Snapped \cup {"badge"} BY <1>1, <2>1 DEF Control, WidgetTypeOK, States
  <2>3. l.pos \in Points /\ l.size \in Sizes /\ Fitting(state', l)
    BY <1>2, <2>1, ExpandedFits
  <2> HIDE DEF l
  <2>4. /\ anim' # NoAnim /\ anim'.size \in Sizes /\ {anim'.start, anim'.target} \subseteq Points
        /\ Fitting(state', Goal') /\ Goal'.size = l.size
    BY <1>2, <2>1, <2>3, Started, AnimStep
  <2>5. WidgetTypeOK' BY <1>1, <1>2, <2>1, <2>2, <2>4 DEF WidgetTypeOK, Control, States, Snapped
  <2>6. Control' BY <1>1, <2>1 DEF Control
  <2>7. Returning' BY <2>1 DEF Returning, Snapped
  <2> QED BY <2>4, <2>5, <2>6, <2>7 DEF WInv
<1>10. CASE Collapse
  <2> DEFINE l == SnappedLayout(previous, pos)
  <2>1. /\ state = "expanded" /\ state' = previous /\ previous' = "none" /\ anim' = Towards(l)
        /\ UNCHANGED <<floating, pos, size, hoverStart, hoverOff, over, mouseDown, dragging, tooltip>>
    BY <1>10 DEF Collapse
  <2>2. previous \in Snapped \cup {"badge"} BY <1>1, <2>1 DEF WidgetTypeOK, Snapped
  <2>3. /\ l.pos \in Points /\ l.size \in Sizes /\ Fitting(state', l)
        /\ state' # "badge" => l.size = "handle"
    BY <1>2, <2>1, <2>2, SnappedFits
  <2> HIDE DEF l
  <2>4. /\ anim' # NoAnim /\ anim'.size \in Sizes /\ {anim'.start, anim'.target} \subseteq Points
        /\ Fitting(state', Goal') /\ Goal'.size = l.size
    BY <1>2, <2>1, <2>3, Started, AnimStep
  <2>5. WidgetTypeOK' BY <1>1, <1>2, <2>1, <2>2, <2>4 DEF WidgetTypeOK, Control, States, Snapped
  <2>6. Control' BY <1>1, <2>1, <2>2 DEF Control, Snapped
  <2>7. Returning' BY <2>1, <2>2, <2>3, <2>4 DEF Returning, Snapped
  <2> QED BY <2>4, <2>5, <2>6, <2>7 DEF WInv
<1>11. CASE AboutToWait
  <2>1. /\ floating = "shown"
        /\ UNCHANGED <<floating, state, previous, over, mouseDown, dragging, tooltip>>
    BY <1>11 DEF AboutToWait
  <2>2. CASE /\ state \in Snapped /\ hoverStart /\ hoverStart' = FALSE
             /\ anim' = Towards(RevealedLayout(state, pos))
             /\ UNCHANGED <<hoverOff, pos, size>>
    <3> DEFINE l == RevealedLayout(state, pos)
    <3>1. l.pos \in Points /\ l.size \in Sizes /\ Fitting(state', l)
      BY <1>2, <2>1, <2>2, RevealedFits
    <3> HIDE DEF l
    <3>2. /\ anim' # NoAnim /\ anim'.size \in Sizes /\ {anim'.start, anim'.target} \subseteq Points
          /\ Fitting(state', Goal')
      BY <1>2, <2>1, <2>2, <3>1, Started, AnimStep DEF l
    <3>3. WidgetTypeOK' BY <1>1, <1>2, <2>1, <2>2, <3>2 DEF WidgetTypeOK
    <3>4. Control' /\ Returning' BY <1>1, <2>1, <2>2 DEF Control, Returning
    <3> QED BY <3>2, <3>3, <3>4 DEF WInv
  <2>3. CASE /\ state # "expanded" /\ hoverOff /\ hoverOff' = FALSE
             /\ anim' = Towards(SnappedLayout(state, pos))
             /\ UNCHANGED <<hoverStart, pos, size>>
    <3> DEFINE l == SnappedLayout(state, pos)
    <3>1. state \in Snapped \cup {"badge"} BY <1>1, <2>3 DEF WidgetTypeOK, States
    <3>2. /\ l.pos \in Points /\ l.size \in Sizes /\ Fitting(state', l)
          /\ state # "badge" => l.size = "handle"
      BY <1>2, <2>1, <3>1, SnappedFits
    <3> HIDE DEF l
    <3>3. /\ anim' # NoAnim /\ anim'.size \in Sizes /\ {anim'.start, anim'.target} \subseteq Points
          /\ Fitting(state', Goal') /\ Goal'.size = l.size
      BY <1>2, <2>1, <2>3, <3>2, Started, AnimStep DEF l
    <3>4. WidgetTypeOK' BY <1>1, <1>2, <2>1, <2>3, <3>3 DEF WidgetTypeOK
    <3>5. Control' BY <1>1, <2>1, <2>3 DEF Control
    <3>6. Returning' BY <2>1, <3>1, <3>2, <3>3 DEF Returning, Snapped
    <3> QED BY <3>3, <3>4, <3>5, <3>6 DEF WInv
  <2>4. ASSUME UNCHANGED <<hoverStart, hoverOff>>, NEW done \in BOOLEAN, StepAnimation(anim, done)
        PROVE  WInv'
    <3>1. pos' \in Points /\ size' \in Sizes /\ (anim' = anim \/ anim' = NoAnim)
      <4>1. CASE anim # NoAnim /\ ~done
        <5>1. anim.start \in Points /\ anim.target \in Points
          BY <1>1, <1>2, <4>1 DEF WidgetTypeOK
        <5>2. pos' \in OnTheWay(anim) /\ size' = size /\ anim' = anim
          BY <2>4, <4>1 DEF StepAnimation
        <5> QED BY <1>1, <5>1, <5>2, OnTheWayPoints DEF WidgetTypeOK
      <4>2. CASE anim # NoAnim /\ done
        BY <1>1, <1>2, <2>4, <4>2 DEF WidgetTypeOK, StepAnimation
      <4>3. CASE anim = NoAnim
        BY <1>1, <1>2, <2>4, <4>3 DEF WidgetTypeOK, StepAnimation
      <4> QED BY <4>1, <4>2, <4>3
    <3>2. Goal'.pos = Goal.pos /\ Goal'.size = Goal.size
      BY <2>4 DEF Goal, StepAnimation
    <3>3. ~mouseDown' => Fitting(state', Goal')
      BY <1>1, <2>1, <3>2, FittingSame
    <3>4. WidgetTypeOK' BY <1>1, <1>2, <2>1, <2>4, <3>1 DEF WidgetTypeOK
    <3>5. Control' /\ Returning' BY <1>1, <2>1, <2>4, <3>2 DEF Control, Returning
    <3> QED BY <3>3, <3>4, <3>5 DEF WInv
  <2> QED BY <1>11, <2>2, <2>3, <2>4 DEF AboutToWait
<1> QED BY <1>3, <1>4, <1>5, <1>6, <1>7, <1>8, <1>9, <1>10, <1>11 DEF WidgetNext

LEMMA InitWInv == WidgetInit => WInv
<1> SUFFICES ASSUME WidgetInit PROVE WInv
  OBVIOUS
<1>1. Goal.size = "badge" /\ state = "badge" BY DEF WidgetInit, Goal
<1>2. WidgetTypeOK /\ Control
  BY WidgetAssumption DEF WidgetInit, WidgetTypeOK, Control, States, Sizes, Snapped
<1>3. Fitting(state, Goal) /\ Returning BY <1>1 DEF Fitting, Returning, Snapped
<1> QED BY <1>2, <1>3 DEF WInv

LEMMA WidgetInvariant == WidgetSpec => []WInv
  BY InitWInv, StepWInv, PTL DEF WidgetSpec

-----------------------------------------------------------------------------
(* The properties *)

\* Type correctness of the widget: above all, an expanded widget, and no other, has a
\* state to go back to, and a tooltip never stays without the cursor or over the
\* expanded widget.
THEOREM WidgetTypeCorrect == WidgetSpec => []WidgetTypeOK
<1>1. WInv => WidgetTypeOK BY DEF WInv
<1> QED BY <1>1, WidgetInvariant, PTL

\* Whatever drags, clicks, timers and animations ran into one another, and whatever the
\* sizes of monitor and widget, a widget at rest lies where its state says.
THEOREM WidgetSettled == WidgetSpec => []Settled
<1>1. WInv => Settled
  <2> SUFFICES ASSUME WInv, anim = NoAnim, ~mouseDown PROVE Settled
    BY DEF Settled
  <2>1. Fitting(state, Goal) /\ Goal.pos = pos /\ Goal.size = size BY DEF WInv, Goal
  <2> QED BY <2>1 DEF Settled, Fitting
<1> QED BY <1>1, WidgetInvariant, PTL

\* A snapped widget that is revealed, or on its way to be, with the cursor gone and no
\* button down has its return pending.
THEOREM WidgetHidesAgain == WidgetSpec => []HidesAgain
<1>1. WInv => HidesAgain BY DEF WInv, Returning, Goal, HidesAgain
<1> QED BY <1>1, WidgetInvariant, PTL

-----------------------------------------------------------------------------
(* The records of a tab *)

\* The records of some sources.
Own(logs, S) == {i \in DOMAIN logs : logs[i].source \in S}
Of(logs, S)  == Restrict(logs, Own(logs, S))

\* The dimensions by source, and what filter_view makes of them.
ByWhich == {<<"day", "daySource">>, <<"hour", "hourSource">>}

LEMMA OfSourceIs ==
    ASSUME NEW logs, Records(logs), NEW S, NEW e, NEW d, <<e, d>> \in ByWhich
    PROVE  OfSource(RefBy(logs, d), S) = RefBy(Of(logs, S), d)
<1>1. d \in {"daySource", "hourSource"} BY DEF ByWhich
<1>2. \A i \in DOMAIN logs : KeyOf(logs[i])[d][2] = logs[i].source BY <1>1 DEF KeyOf
<1>3. PICK I : I = Own(logs, S) OBVIOUS
<1>4. I \subseteq DOMAIN logs BY <1>3 DEF Own
<1>5. PICK sub : sub = Of(logs, S) OBVIOUS
<1>6. /\ Records(sub) /\ DOMAIN sub = I /\ \A i \in I : sub[i] = logs[i]
      /\ \A k : Mine(sub, d, k) = {i \in I : KeyOf(logs[i])[d] = k}
      /\ RefKeys(sub, d) = {KeyOf(logs[i])[d] : i \in I}
  BY <1>3, <1>4, <1>5, RestrictIs DEF Of
<1>7. {k \in RefKeys(logs, d) : k[2] \in S} = RefKeys(sub, d)
  <2>1. PICK key : key = [i \in DOMAIN logs |-> KeyOf(logs[i])[d]] OBVIOUS
  <2>2. RefKeys(logs, d) = {key[i] : i \in DOMAIN logs} BY <2>1 DEF RefKeys
  <2>3. RefKeys(sub, d) = {key[i] : i \in I} BY <1>4, <1>6, <2>1
  <2>4. \A i \in DOMAIN logs : key[i][2] \in S <=> i \in I BY <1>2, <1>3, <2>1 DEF Own
  <2>5. PICK X : X = RefKeys(logs, d) OBVIOUS
  <2>6. PICK Y : Y = RefKeys(sub, d) OBVIOUS
  <2>7. ASSUME NEW k PROVE (k \in X /\ k[2] \in S) <=> k \in Y
    BY <1>4, <2>2, <2>3, <2>4, <2>5, <2>6
  <2>8. {k \in X : k[2] \in S} = Y BY <2>7
  <2> QED BY <2>5, <2>6, <2>8
<1>8. ASSUME NEW k, k[2] \in S PROVE RefAmount(logs, d, k) = RefAmount(sub, d, k)
  <2>1. \A i \in DOMAIN logs : KeyOf(logs[i])[d] = k => i \in I BY <1>2, <1>3, <1>8 DEF Own
  <2>2. Mine(logs, d, k) = Mine(sub, d, k) BY <1>4, <1>6, <2>1 DEF Mine
  <2>3. \A i \in Mine(logs, d, k) : logs[i].tokens = sub[i].tokens BY <1>6, <2>2
  <2> QED BY <1>6, <2>2, <2>3, SameAmount
<1>9. OfSource(RefBy(logs, d), S) = [k \in {k \in RefKeys(logs, d) : k[2] \in S} |-> RefAmount(logs, d, k)]
  BY DEF OfSource, RefBy
<1>10. PICK D : D = {k \in RefKeys(logs, d) : k[2] \in S} OBVIOUS
<1>11. \A k \in D : RefAmount(logs, d, k) = RefAmount(sub, d, k) BY <1>8, <1>10
<1>12. [k \in D |-> RefAmount(logs, d, k)] = [k \in D |-> RefAmount(sub, d, k)] BY <1>11
<1> QED BY <1>5, <1>7, <1>9, <1>10, <1>12 DEF RefBy

LEMMA BySourcesIs ==
    ASSUME NEW logs, Records(logs), NEW S, NEW e, NEW d, <<e, d>> \in ByWhich
    PROVE  BySources(RefBy(logs, d), S) = RefBy(Of(logs, S), e)
<1>1. /\ d \in {"daySource", "hourSource"} /\ (e \in Counted <=> d \in Counted)
      /\ e \in {"day", "hour"} /\ d \notin {"projectSource", "modelSource"}
      /\ e \notin {"projectSource", "modelSource"}
  BY DEF ByWhich, Counted
<1>2. \A i \in DOMAIN logs : KeyOf(logs[i])[d][1] = KeyOf(logs[i])[e] BY DEF ByWhich, KeyOf
<1>3. PICK I : I = Own(logs, S) OBVIOUS
<1>4. I \subseteq DOMAIN logs BY <1>3 DEF Own
<1>5. PICK sub : sub = Of(logs, S) OBVIOUS
<1>6. /\ Records(sub) /\ DOMAIN sub = I /\ \A i \in I : sub[i] = logs[i]
      /\ RefKeys(sub, d) = {KeyOf(logs[i])[d] : i \in I}
      /\ RefKeys(sub, e) = {KeyOf(logs[i])[e] : i \in I}
      /\ \A k : Mine(sub, e, k) = {i \in I : KeyOf(logs[i])[e] = k}
  BY <1>3, <1>4, <1>5, RestrictIs DEF Of
<1>7. PICK m \in MapsTo(RefKeys(sub, d), Amounts) : m = RefBy(sub, d) BY <1>6, RecordsByIs
<1>8. m = OfSource(RefBy(logs, d), S) BY <1>5, <1>7, OfSourceIs
<1>9. DOMAIN m = RefKeys(sub, d) /\ \A k : At(m, k) = RefAmount(sub, d, k) BY <1>6, <1>7, RecordsByIs
<1>10. {ks[1] : ks \in DOMAIN m} = RefKeys(sub, e)
  <2>1. PICK key : key = [i \in I |-> KeyOf(logs[i])[d]] OBVIOUS
  <2>2. PICK ekey : ekey = [i \in I |-> KeyOf(logs[i])[e]] OBVIOUS
  <2>3. DOMAIN m = {key[i] : i \in I} BY <1>6, <1>9, <2>1
  <2>4. RefKeys(sub, e) = {ekey[i] : i \in I} BY <1>6, <2>2
  <2>5. \A i \in I : key[i][1] = ekey[i] BY <1>2, <1>4, <2>1, <2>2
  <2>6. {ks[1] : ks \in DOMAIN m} = {ekey[i] : i \in I} BY <2>3, <2>5
  <2> QED BY <2>4, <2>6
<1>11. ASSUME NEW k
       PROVE  SumOver(m, {ks \in DOMAIN m : ks[1] = k}) = RefAmount(sub, e, k)
  <2>1. PICK D : D = {ks \in DOMAIN m : ks[1] = k} OBVIOUS
  <2>2. IsFiniteSet(D)
    <3>1. IsFiniteSet(RefKeys(sub, d)) BY <1>6, FiniteKeys
    <3>2. D \subseteq RefKeys(sub, d) BY <1>9, <2>1
    <3> QED BY <3>1, <3>2, FS_Subset
  <2>3. Gathered(sub, e, k, sub, d, D)
    <3>1. ASSUME NEW i \in I PROVE KeyOf(logs[i])[e] = k <=> KeyOf(sub[i])[d] \in D
      <4>1. KeyOf(sub[i])[d] \in DOMAIN m BY <1>6, <1>9 DEF RefKeys
      <4>2. KeyOf(sub[i])[d][1] = KeyOf(logs[i])[e] BY <1>2, <1>4, <1>6
      <4> QED BY <2>1, <4>1, <4>2
    <3>2. Mine(sub, e, k) = {i \in DOMAIN sub : KeyOf(sub[i])[d] \in D} BY <1>6, <3>1
    <3>3. \A x : Amount(x, e) = Amount(x, d) BY <1>1 DEF Amount
    <3> QED BY <1>1, <3>2, <3>3 DEF Gathered
  <2>4. SumOver(m, D) = RefAmount(sub, e, k) BY <1>6, <1>9, <2>2, <2>3, GatheredAmount
  <2> QED BY <2>1, <2>4
<1>12. BySources(RefBy(logs, d), S)
         = [k \in {ks[1] : ks \in DOMAIN m} |-> SumOver(m, {ks \in DOMAIN m : ks[1] = k})]
  BY <1>8 DEF BySources
<1>13. PICK E : E = RefKeys(sub, e) OBVIOUS
<1>14. [k \in E |-> SumOver(m, {ks \in DOMAIN m : ks[1] = k})] = [k \in E |-> RefAmount(sub, e, k)]
  BY <1>11
<1>15. BySources(RefBy(logs, d), S) = [k \in E |-> RefAmount(sub, e, k)]
  BY <1>10, <1>12, <1>13, <1>14
<1> QED BY <1>5, <1>13, <1>15 DEF RefBy

\* Of the records of some hours, those of some sources.
LEMMA OfSome ==
    ASSUME NEW logs, NEW S, NEW I, I \subseteq DOMAIN logs
    PROVE  Of(Restrict(logs, I), S) = Restrict(logs, {i \in Own(logs, S) : i \in I})
<1>1. PICK r : r = Restrict(logs, I) OBVIOUS
<1>2. DOMAIN r = I /\ \A i \in I : r[i] = logs[i] BY <1>1 DEF Restrict
<1>3. PICK J : J = Own(r, S) OBVIOUS
<1>4. J = {i \in Own(logs, S) : i \in I} BY <1>2, <1>3 DEF Own
<1>5. J \subseteq I BY <1>4
<1>6. [i \in J |-> r[i]] = [i \in J |-> logs[i]] BY <1>2, <1>5
<1>7. Restrict(r, J) = Restrict(logs, J) BY <1>6 DEF Restrict
<1> QED BY <1>1, <1>3, <1>4, <1>7 DEF Of

-----------------------------------------------------------------------------
(* The aggregator's view of a feed *)

FeedKeys == {KeyOf(x)[d] : x \in FeedLog, d \in Dims}

LEMMA FeedLogsFit ==
    /\ Fits(FeedLog, FeedKeys, STRING, STRING) /\ Whole(FeedLog) /\ LogSet(FeedLog)
    /\ \A x \in FeedLog : x.hour \in Int /\ x.source \in TabSources.all
<1>1. \A x \in FeedLog : /\ x.tokens \in Nat /\ x.project \in STRING /\ x.name \in STRING
                         /\ x.hour \in Int /\ x.source \in TabSources.all
  BY DEF FeedLog
<1>2. \A x \in FeedLog, d \in Dims : KeyOf(x)[d] \in FeedKeys BY DEF FeedKeys
<1>3. Whole(FeedLog) BY DEF Whole, FeedLog
<1>4. LogSet(FeedLog) BY <1>1 DEF LogSet
<1> QED BY <1>1, <1>2, <1>3, <1>4 DEF Fits

\* The records of a feed, and those of a view.
LogsOfFeed(f) == Feeds[f].cold \o Feeds[f].hot
Shows(v, logs) ==
    /\ logs \in Seq(FeedLog) /\ ShowsExactly(v, logs, Now)
    /\ DOMAIN v.windows = {"all", "today", "week", "month"}

LEMMA FeedShown == ASSUME NEW f \in DOMAIN Feeds PROVE Shows(FeedViews[f], LogsOfFeed(f))
<1>1. PICK p \in Seq(FeedLog) : p = Feeds[f].cold BY FeedsAssumption
<1>2. PICK q \in Seq(FeedLog) : q = Feeds[f].hot BY FeedsAssumption
<1>3. PICK logs \in Seq(FeedLog) : logs = p \o q BY ConcatProperties
<1>4. \A d \in Dims : Parts(logs, p, q, d) BY <1>3, FeedLogsFit, RefConcat
<1>5. PICK agg \in Aggs(FeedKeys, STRING, STRING) : agg = Ingest(EmptyAggregate, p)
  BY FeedLogsFit, EmptyAggregateIs, IngestIs
<1>6. \A d \in Dims : agg.by[d] = RefBy(p, d) BY <1>5, FeedLogsFit, IngestAlone
<1>7. Now \in Int BY DashboardAssumption
<1>8. PICK v : v = BuildView(ColdView(Prune(agg, Now - 2 * HoursPerDay), Now, "none"),
                             Ingest(EmptyAggregate, q), q, Now)
  OBVIOUS
<1>9. ShowsExactly(v, logs, Now) BY <1>4, <1>6, <1>7, <1>8, FeedLogsFit, ViewShowsExactly
<1>10. FeedViews[f] = v BY <1>1, <1>2, <1>5, <1>8 DEF FeedViews, ViewOf
<1>11. DOMAIN v.windows = {"all", "today", "week", "month"} BY <1>8 DEF BuildView, ColdView
<1> QED BY <1>1, <1>2, <1>3, <1>9, <1>10, <1>11 DEF Shows, LogsOfFeed

\* What the view shows, map by map.
LEMMA ShownIs ==
    ASSUME NEW v, NEW logs, Shows(v, logs)
    PROVE  /\ Records(logs) /\ logs \in Seq(FeedLog) /\ Records(TitledLogs(logs))
           /\ DOMAIN TitledLogs(logs) = DOMAIN logs
           /\ \A i \in DOMAIN logs : /\ TitledLogs(logs)[i].source = logs[i].source
                                     /\ TitledLogs(logs)[i].tokens = logs[i].tokens
           /\ \A w \in {"all", "today", "week", "month"} : v.windows[w] = RefWindow(logs, w, Now)
           /\ v.records = Len(logs)
           /\ AmountsOf(v.source) = RefBy(logs, "source") /\ AmountsOf(v.model) = RefBy(logs, "model")
           /\ AmountsOf(v.project) = RefBy(TitledLogs(logs), "project")
           /\ v.daily = RefBy(logs, "day") /\ v.daySource = RefBy(logs, "daySource")
           /\ v.hours = RefToday(logs, "hour", Now) /\ v.hourSource = RefToday(logs, "hourSource", Now)
           /\ v.projectSource = RefKeys(TitledLogs(logs), "projectSource")
           /\ v.modelSource = RefKeys(logs, "modelSource")
<1>1. /\ logs \in Seq(FeedLog) /\ ShowsExactly(v, logs, Now)
      /\ DOMAIN v.windows = {"all", "today", "week", "month"}
  BY DEF Shows
<1>2. PICK TL : TL = {Titled(x) : x \in FeedLog} OBVIOUS
<1>3. PICK l : l = TitledLogs(logs) OBVIOUS
<1>4. /\ LogSet(TL) /\ l \in Seq(TL) /\ DOMAIN l = DOMAIN logs
      /\ \A i \in DOMAIN logs : l[i].source = logs[i].source /\ l[i].tokens = logs[i].tokens
  BY <1>1, <1>2, <1>3, FeedLogsFit, TitledIs
<1>5. Records(logs) /\ Records(l) BY <1>1, <1>4, FeedLogsFit, SeqRecords
<1>6. /\ \A w \in DOMAIN v.windows : v.windows[w] = RefWindow(logs, w, Now)
      /\ v.records = Len(logs)
      /\ AmountsOf(v.source) = RefBy(logs, "source") /\ AmountsOf(v.model) = RefBy(logs, "model")
      /\ AmountsOf(v.project) = RefBy(l, "project")
      /\ v.daily = RefBy(logs, "day") /\ v.daySource = RefBy(logs, "daySource")
      /\ v.projectSource = RefKeys(l, "projectSource")
      /\ v.modelSource = RefKeys(logs, "modelSource")
  BY <1>1, <1>3 DEF ShowsExactly
<1>7. /\ v.hours = [k \in {k \in RefKeys(logs, "hour") : DayOf(k) = DayOf(Now)} |-> RefAmount(logs, "hour", k)]
      /\ v.hourSource = [k \in {k \in RefKeys(logs, "hourSource") :
                                   k[1] \in {j \in RefKeys(logs, "hour") : DayOf(j) = DayOf(Now)}} |->
                            RefAmount(logs, "hourSource", k)]
  BY <1>1 DEF ShowsExactly
<1>8. v.hours = RefToday(logs, "hour", Now) BY <1>7 DEF RefToday, TodayKeys, IsHour
<1>9. v.hourSource = RefToday(logs, "hourSource", Now)
  <2>1. \A k \in RefKeys(logs, "hourSource") : k[1] \in RefKeys(logs, "hour") BY DEF RefKeys, KeyOf
  <2>2. {k \in RefKeys(logs, "hourSource") : DayOf(k[1]) = DayOf(Now)}
           = {k \in RefKeys(logs, "hourSource") : k[1] \in {j \in RefKeys(logs, "hour") : DayOf(j) = DayOf(Now)}}
    BY <2>1
  <2>3. RefToday(logs, "hourSource", Now)
          = [k \in {k \in RefKeys(logs, "hourSource") : DayOf(k[1]) = DayOf(Now)} |-> RefAmount(logs, "hourSource", k)]
    BY DEF RefToday, TodayKeys, IsHour
  <2> QED BY <1>7, <2>2, <2>3
<1> QED BY <1>1, <1>3, <1>4, <1>5, <1>6, <1>8, <1>9

-----------------------------------------------------------------------------
(* The view of a tab *)

\* The entries seen with a source.
LEMMA SeenIs ==
    ASSUME NEW logs, Records(logs), NEW S, NEW d, NEW e,
           <<d, e>> \in {<<"project", "projectSource">>, <<"model", "modelSource">>},
           NEW x, AmountsOf(x) = RefBy(logs, d)
    PROVE  AmountsOf(SeenWith(x, RefKeys(logs, e), S)) = [k \in RefKeys(Of(logs, S), d) |-> RefAmount(logs, d, k)]
<1>1. \A i \in DOMAIN logs : KeyOf(logs[i])[e] = <<KeyOf(logs[i])[d], logs[i].source>> BY DEF KeyOf
<1>2. PICK key : key = [i \in DOMAIN logs |-> KeyOf(logs[i])[d]] OBVIOUS
<1>3. PICK X : X = RefKeys(logs, d) OBVIOUS
<1>4. PICK Y : Y = RefKeys(logs, e) OBVIOUS
<1>5. PICK Z : Z = RefKeys(Of(logs, S), d) OBVIOUS
<1>6. X = {key[i] : i \in DOMAIN logs} BY <1>2, <1>3 DEF RefKeys
<1>7. Y = {<<key[i], logs[i].source>> : i \in DOMAIN logs} BY <1>1, <1>2, <1>4 DEF RefKeys
<1>8. Z = {key[i] : i \in Own(logs, S)}
  <2>1. Own(logs, S) \subseteq DOMAIN logs BY DEF Own
  <2>2. Z = {KeyOf(logs[i])[d] : i \in Own(logs, S)} BY <1>5, <2>1, RestrictIs DEF Of
  <2> QED BY <1>2, <2>1, <2>2
<1>9. {k \in X : \E s \in S : <<k, s>> \in Y} = Z
  <2>1. ASSUME NEW k, k \in X, NEW s \in S, <<k, s>> \in Y PROVE k \in Z
    <3>1. PICK i \in DOMAIN logs : <<k, s>> = <<key[i], logs[i].source>> BY <1>7, <2>1
    <3>2. k = key[i] /\ i \in Own(logs, S) BY <2>1, <3>1 DEF Own
    <3> QED BY <1>8, <3>2
  <2>2. ASSUME NEW k \in Z PROVE k \in X /\ \E s \in S : <<k, s>> \in Y
    <3>1. PICK i \in Own(logs, S) : k = key[i] BY <1>8
    <3>2. i \in DOMAIN logs /\ logs[i].source \in S BY DEF Own
    <3>3. <<k, logs[i].source>> \in Y BY <1>7, <3>1, <3>2
    <3> QED BY <1>6, <3>1, <3>2, <3>3
  <2> QED BY <2>1, <2>2
<1>10. DOMAIN x = X /\ \A k \in X : x[k].amount = RefAmount(logs, d, k)
  <2>1. DOMAIN AmountsOf(x) = DOMAIN x /\ \A k \in DOMAIN x : AmountsOf(x)[k] = x[k].amount BY DEF AmountsOf
  <2>2. DOMAIN RefBy(logs, d) = X /\ \A k \in X : RefBy(logs, d)[k] = RefAmount(logs, d, k)
    BY <1>3 DEF RefBy
  <2> QED BY <2>1, <2>2
<1>11. PICK y : y = SeenWith(x, Y, S) OBVIOUS
<1>12. y = [k \in Z |-> x[k]] BY <1>9, <1>10, <1>11 DEF SeenWith
<1>13. Z \subseteq X BY <1>9
<1>14. \A k \in Z : y[k].amount = RefAmount(logs, d, k) BY <1>10, <1>12, <1>13
<1>15. AmountsOf(y) = [k \in Z |-> RefAmount(logs, d, k)] BY <1>12, <1>14 DEF AmountsOf
<1> QED BY <1>4, <1>5, <1>11, <1>15

\* The sources of a tab.
Within(x, S) == [s \in DOMAIN x \cap S |-> x[s]]

LEMMA OwnSources ==
    ASSUME NEW logs, Records(logs), NEW S, NEW x, AmountsOf(x) = RefBy(logs, "source")
    PROVE  AmountsOf(Within(x, S)) = RefBy(Of(logs, S), "source")
<1>1. \A i \in DOMAIN logs : KeyOf(logs[i])["source"] = logs[i].source BY DEF KeyOf
<1>2. PICK I : I = Own(logs, S) OBVIOUS
<1>3. PICK sub : sub = Of(logs, S) OBVIOUS
<1>4. I \subseteq DOMAIN logs BY <1>2 DEF Own
<1>5. /\ Records(sub) /\ DOMAIN sub = I /\ \A i \in I : sub[i] = logs[i]
      /\ \A k : Mine(sub, "source", k) = {i \in I : KeyOf(logs[i])["source"] = k}
      /\ RefKeys(sub, "source") = {KeyOf(logs[i])["source"] : i \in I}
  BY <1>2, <1>3, <1>4, RestrictIs DEF Of
<1>6. PICK X : X = RefKeys(logs, "source") OBVIOUS
<1>7. PICK Z : Z = RefKeys(sub, "source") OBVIOUS
<1>8. X \cap S = Z
  <2>1. X = {logs[i].source : i \in DOMAIN logs} BY <1>1, <1>6 DEF RefKeys
  <2>2. Z = {logs[i].source : i \in I} BY <1>1, <1>4, <1>5, <1>7
  <2> QED BY <1>2, <2>1, <2>2 DEF Own
<1>9. ASSUME NEW s \in S PROVE RefAmount(logs, "source", s) = RefAmount(sub, "source", s)
  <2>1. Mine(logs, "source", s) = Mine(sub, "source", s) BY <1>1, <1>2, <1>4, <1>5 DEF Mine, Own
  <2>2. \A i \in Mine(logs, "source", s) : logs[i].tokens = sub[i].tokens BY <1>5, <2>1
  <2> QED BY <1>5, <2>1, <2>2, SameAmount
<1>10. DOMAIN x = X /\ \A k \in X : x[k].amount = RefAmount(logs, "source", k)
  <2>1. DOMAIN AmountsOf(x) = DOMAIN x /\ \A k \in DOMAIN x : AmountsOf(x)[k] = x[k].amount BY DEF AmountsOf
  <2>2. DOMAIN RefBy(logs, "source") = X /\ \A k \in X : RefBy(logs, "source")[k] = RefAmount(logs, "source", k)
    BY <1>6 DEF RefBy
  <2> QED BY <2>1, <2>2
<1>11. PICK y : y = Within(x, S) OBVIOUS
<1>12. y = [s \in Z |-> x[s]] BY <1>8, <1>10, <1>11 DEF Within
<1>13. Z \subseteq X /\ Z \subseteq S BY <1>8
<1>14. \A k \in Z : y[k].amount = RefAmount(sub, "source", k) BY <1>9, <1>10, <1>12, <1>13
<1>15. AmountsOf(y) = [k \in Z |-> RefAmount(sub, "source", k)] BY <1>12, <1>14 DEF AmountsOf
<1> QED BY <1>3, <1>7, <1>11, <1>15 DEF RefBy

LEMMA EarlierDay ==
    ASSUME NEW h \in Int, NEW n \in Int, h <= n, NEW k \in Nat \ {0}
    PROVE  h \div k \in Int /\ h \div k <= n \div k
<1>1. PICK a \in Int : a = h \div k OBVIOUS
<1>2. PICK b \in Int : b = n \div k OBVIOUS
<1>3. a * k <= h /\ n < b * k + k BY <1>1, <1>2
<1>4. a * k < (b + 1) * k
  <2>1. (b + 1) * k = b * k + k OBVIOUS
  <2>2. a * k \in Int /\ b * k \in Int OBVIOUS
  <2> QED BY <1>3, <2>1, <2>2
<1>5. a < b + 1
  <2> SUFFICES ASSUME a >= b + 1 PROVE FALSE
    OBVIOUS
  <2>1. a * k >= (b + 1) * k BY SMTT(30)
  <2>2. a * k \in Int /\ (b + 1) * k \in Int OBVIOUS
  <2> QED BY <1>4, <2>1, <2>2
<1> QED BY <1>1, <1>2, <1>5

\* The windows filter_view adds from the days, if no record is dated ahead.
LEMMA TabWindows ==
    ASSUME NEW m, Records(m), \A i \in DOMAIN m : m[i].hour \in Int /\ m[i].hour <= Now,
           NEW daily, daily = RefBy(m, "day")
    PROVE  /\ At(daily, DayOf(Now)).tokens = RefWindow(m, "today", Now)
           /\ \A w \in {"week", "month"} :
                SumOver(daily, {d \in DOMAIN daily : d >= FirstDay(w, DayOf(Now))}).tokens = RefWindow(m, w, Now)
<1>1. PICK D : D = RefKeys(m, "day") OBVIOUS
<1>2. IsFiniteSet(D) BY <1>1, FiniteKeys
<1>3. PICK t : t = DayOf(Now) OBVIOUS
<1>4. Now \in Int /\ HoursPerDay \in Nat \ {0} BY DashboardAssumption, CalendarAssumption
<1>5. t \in Int BY <1>3, <1>4 DEF DayOf
<1>6. \A d \in D : d \in Int /\ d <= t
  <2> SUFFICES ASSUME NEW d \in D PROVE d \in Int /\ d <= t
    OBVIOUS
  <2>1. PICK i \in DOMAIN m : d = DayOf(m[i].hour) BY <1>1 DEF RefKeys, KeyOf
  <2>2. PICK h \in Int : h = m[i].hour /\ h <= Now OBVIOUS
  <2>3. d = h \div HoursPerDay /\ t = Now \div HoursPerDay BY <1>3, <2>1, <2>2 DEF DayOf
  <2> QED BY <1>4, <2>2, <2>3, EarlierDay
<1>7. /\ daily \in MapsTo(D, Amounts) /\ DOMAIN daily = D
      /\ \A k : At(daily, k) = RefAmount(m, "day", k)
  BY <1>1, RecordsByIs
<1>8. At(daily, t).tokens = RefWindow(m, "today", Now)
  <2>1. PICK E : E = D \cup {t} OBVIOUS
  <2>2. IsFiniteSet(E) BY <1>2, <2>1, FS_AddElement
  <2>3. DaysOfWindow(E, "today", Now) = {t} BY <1>3, <1>5, <1>6, <2>1 DEF DaysOfWindow, FirstDay
  <2>4. RefKeys(m, "day") \subseteq E BY <1>1, <2>1
  <2>5. RefWindow(m, "today", Now) = Total(DayTokens(m, {t}), {t})
    BY <2>2, <2>3, <2>4, WindowByDays
  <2>6. PICK F : F = DayTokens(m, {t}) OBVIOUS
  <2>7. F[t] = RefAmount(m, "day", t).tokens BY <2>6 DEF DayTokens
  <2>8. F[t] \in Nat BY <2>7, AmountOfRecords DEF Amounts
  <2>9. Total(F, {t}) = F[t]
    <3>1. IsFiniteSet({t}) /\ {t} \ {t} = {} BY FS_Singleton
    <3>2. Total(F, {}) = 0 BY FS_EmptySet, TotalSteps
    <3>3. Total(F, {t}) = F[t] + Total(F, {t} \ {t}) BY <2>8, <3>1, TotalSteps
    <3> QED BY <2>8, <3>1, <3>2, <3>3
  <2> QED BY <1>7, <2>5, <2>6, <2>7, <2>9
<1>9. ASSUME NEW w \in {"week", "month"}
      PROVE  SumOver(daily, {d \in D : d >= FirstDay(w, t)}).tokens = RefWindow(m, w, Now)
  <2>1. PICK E : E = DaysOfWindow(D, w, Now) OBVIOUS
  <2>2. PICK a : a = FirstDay(w, t) OBVIOUS
  <2>3. a \in Int
    <3>1. /\ DaysPerWeek \in Nat \ {0} /\ DaysPerMonth \in Nat \ {0} BY CalendarAssumption
    <3> QED BY <1>5, <2>2, <3>1 DEF FirstDay, WeekOfDay, MonthOfDay
  <2>4. {d \in D : d >= a} = E BY <1>3, <1>6, <2>1, <2>2, <2>3 DEF DaysOfWindow
  <2>5. IsFiniteSet(E)
    <3>1. E \subseteq D BY <2>4
    <3> QED BY <1>2, <3>1, FS_Subset
  <2>6. SumOver(daily, E).tokens = Total(TokensIn(daily, E), E) BY <1>7, <2>5, SumOverIs
  <2>7. TokensIn(daily, E) = DayTokens(m, E) BY <1>7 DEF TokensIn, DayTokens
  <2>8. RefWindow(m, w, Now) = Total(DayTokens(m, E), E)
    <3>1. w # "all" OBVIOUS
    <3> QED BY <1>1, <1>2, <2>1, <3>1, WindowByDays
  <2> QED BY <2>2, <2>4, <2>6, <2>7, <2>8
<1> QED BY <1>3, <1>7, <1>8, <1>9

\* What a view of a tab has to have, with names for what the tab has of the records.
LEMMA ShowsTab ==
    ASSUME NEW v, NEW logs, NEW tab, NEW titled, titled = TitledLogs(logs),
           NEW own, own = Own(logs, TabSources[tab]), NEW mine, mine = Restrict(logs, own),
           NEW hours, hours = Restrict(logs, {i \in own : DayOf(logs[i].hour) = DayOf(Now)}),
           NEW sessions, sessions = [p \in RefKeys(Restrict(titled, own), "project") |-> RefAmount(titled, "project", p)],
           NEW models, models = [m \in RefKeys(mine, "model") |-> RefAmount(logs, "model", m)],
           \A w \in {"today", "week", "month"} : v.windows[w] = RefWindow(mine, w, Now),
           v.windows.all = SumOver(sessions, DOMAIN sessions).tokens,
           v.records = SumOver(models, DOMAIN models).records,
           AmountsOf(v.project) = sessions, AmountsOf(v.model) = models,
           AmountsOf(v.source) = RefBy(mine, "source"),
           v.daily = RefBy(mine, "day"), v.daySource = RefBy(mine, "daySource"),
           v.hours = RefBy(hours, "hour"), v.hourSource = RefBy(hours, "hourSource")
    PROVE  TabShows(v, logs, tab)
BY Zenon DEF TabShows, Own

LEMMA AllShown == ASSUME NEW v, NEW logs, Shows(v, logs) PROVE TabShows(FilterView(v, "all"), logs, "all")
<1>1. PICK l : l = TitledLogs(logs) OBVIOUS
<1>2. /\ Records(logs) /\ logs \in Seq(FeedLog) /\ Records(l) /\ DOMAIN l = DOMAIN logs
      /\ \A i \in DOMAIN logs : l[i].source = logs[i].source /\ l[i].tokens = logs[i].tokens
      /\ \A w \in {"all", "today", "week", "month"} : v.windows[w] = RefWindow(logs, w, Now)
      /\ v.records = Len(logs)
      /\ AmountsOf(v.source) = RefBy(logs, "source") /\ AmountsOf(v.model) = RefBy(logs, "model")
      /\ AmountsOf(v.project) = RefBy(l, "project")
      /\ v.daily = RefBy(logs, "day") /\ v.daySource = RefBy(logs, "daySource")
      /\ v.hours = RefToday(logs, "hour", Now) /\ v.hourSource = RefToday(logs, "hourSource", Now)
  BY <1>1, ShownIs
<1>3. PICK own : own = Own(logs, TabSources["all"]) OBVIOUS
<1>4. own = DOMAIN logs
  <2>1. \A i \in DOMAIN logs : logs[i] \in FeedLog BY <1>2
  <2>2. \A i \in DOMAIN logs : logs[i].source \in TabSources["all"] BY <2>1, FeedLogsFit
  <2> QED BY <1>3, <2>2 DEF Own
<1>5. Restrict(logs, own) = logs
  <2>1. logs = [i \in DOMAIN logs |-> logs[i]] BY <1>2
  <2> QED BY <1>4, <2>1 DEF Restrict
<1>6. Restrict(l, own) = l
  <2>1. l = [i \in DOMAIN l |-> l[i]] BY <1>1 DEF TitledLogs
  <2> QED BY <1>2, <1>4, <2>1 DEF Restrict
<1>7. PICK sessions : sessions = RefBy(l, "project") OBVIOUS
<1>8. PICK models : models = RefBy(logs, "model") OBVIOUS
<1>9. DOMAIN sessions = RefKeys(l, "project") /\ DOMAIN models = RefKeys(logs, "model")
  BY <1>7, <1>8 DEF RefBy
<1>10. Mine(logs, "total", "all") = DOMAIN logs /\ Mine(l, "total", "all") = DOMAIN logs
  BY <1>2 DEF Mine, KeyOf
<1>11. v.windows.all = SumOver(sessions, DOMAIN sessions).tokens
  <2>1. v.windows.all = RefAmount(logs, "total", "all").tokens
    <3>1. RefWindow(logs, "all", Now) = RefAmount(logs, "total", "all").tokens
      BY <1>2, FeedLogsFit, AllTokens
    <3> QED BY <1>2, <3>1
  <2>2. RefAmount(logs, "total", "all") = RefAmount(l, "total", "all")
    BY <1>2, <1>10, SameAmount
  <2>3. SumOver(sessions, RefKeys(l, "project")) = RefAmount(l, "total", "all")
    BY <1>2, <1>7, GrandTotal
  <2> QED BY <1>9, <2>1, <2>2, <2>3
<1>12. v.records = SumOver(models, DOMAIN models).records
  <2>1. RefAmount(logs, "total", "all").records = Cardinality(DOMAIN logs)
    BY <1>2, <1>10, AmountOfRecords DEF Counted
  <2>2. Cardinality(DOMAIN logs) = Len(logs)
    <3>1. Len(logs) \in Nat /\ DOMAIN logs = 1 .. Len(logs) BY <1>2
    <3>2. PICK n \in Nat : n = Len(logs) BY <3>1
    <3>3. Cardinality(1 .. n) = n
      <4>1. Cardinality(1 .. n) = IF 1 > n THEN 0 ELSE n - 1 + 1 BY FS_Interval
      <4> QED BY <4>1
    <3> QED BY <3>1, <3>2, <3>3
  <2>3. SumOver(models, RefKeys(logs, "model")) = RefAmount(logs, "total", "all")
    BY <1>2, <1>8, GrandTotal
  <2> QED BY <1>2, <1>9, <2>1, <2>2, <2>3
<1>13. PICK hours : hours = Restrict(logs, {i \in own : DayOf(logs[i].hour) = DayOf(Now)}) OBVIOUS
<1>14. v.hours = RefBy(hours, "hour") /\ v.hourSource = RefBy(hours, "hourSource")
  <2>1. hours = Restrict(logs, Todays(logs, Now)) BY <1>4, <1>13 DEF Todays
  <2> QED BY <1>2, <2>1, TodayIs
<1>15. sessions = [p \in RefKeys(Restrict(l, own), "project") |-> RefAmount(l, "project", p)]
  BY <1>6, <1>7 DEF RefBy
<1>16. PICK mine : mine = Restrict(logs, own) OBVIOUS
<1>17. models = [m \in RefKeys(mine, "model") |-> RefAmount(logs, "model", m)]
  BY <1>5, <1>8, <1>16 DEF RefBy
<1>18. PICK u : u = FilterView(v, "all") OBVIOUS
<1>19. u = v BY <1>18 DEF FilterView
<1>20. \A w \in {"today", "week", "month"} : v.windows[w] = RefWindow(mine, w, Now)
  BY <1>2, <1>5, <1>16
<1>21. /\ AmountsOf(v.source) = RefBy(mine, "source")
       /\ v.daily = RefBy(mine, "day") /\ v.daySource = RefBy(mine, "daySource")
  BY <1>2, <1>5, <1>16
<1>22. AmountsOf(v.project) = sessions /\ AmountsOf(v.model) = models BY <1>2, <1>7, <1>8
<1>23. TabShows(v, logs, "all")
  BY <1>1, <1>3, <1>11, <1>12, <1>13, <1>14, <1>15, <1>16, <1>17, <1>20, <1>21, <1>22, ShowsTab
<1> QED BY <1>18, <1>19, <1>23

LEMMA TabShown ==
    ASSUME NEW v, NEW logs, Shows(v, logs), \A i \in DOMAIN logs : logs[i].hour <= Now,
           NEW tab, tab # "all"
    PROVE  TabShows(FilterView(v, tab), logs, tab)
<1>1. PICK l : l = TitledLogs(logs) OBVIOUS
<1>2. /\ Records(logs) /\ logs \in Seq(FeedLog) /\ Records(l) /\ DOMAIN l = DOMAIN logs
      /\ \A i \in DOMAIN logs : l[i].source = logs[i].source
      /\ AmountsOf(v.source) = RefBy(logs, "source") /\ AmountsOf(v.model) = RefBy(logs, "model")
      /\ AmountsOf(v.project) = RefBy(l, "project")
      /\ v.daySource = RefBy(logs, "daySource") /\ v.hourSource = RefToday(logs, "hourSource", Now)
      /\ v.projectSource = RefKeys(l, "projectSource") /\ v.modelSource = RefKeys(logs, "modelSource")
  BY <1>1, ShownIs
<1>3. PICK S : S = TabSources[tab] OBVIOUS
<1>4. PICK own : own = Own(logs, S) OBVIOUS
<1>5. own \subseteq DOMAIN logs /\ own = Own(l, S) BY <1>2, <1>4 DEF Own
<1>6. PICK mine : mine = Restrict(logs, own) OBVIOUS
<1>7. /\ mine = Of(logs, S) /\ Of(l, S) = Restrict(l, own) /\ Records(mine)
      /\ DOMAIN mine = own /\ \A i \in own : mine[i] = logs[i]
  BY <1>2, <1>4, <1>5, <1>6, RestrictIs DEF Of
<1>8. PICK hours : hours = Restrict(logs, {i \in own : DayOf(logs[i].hour) = DayOf(Now)}) OBVIOUS
<1>9. PICK sessions : sessions = [p \in RefKeys(Restrict(l, own), "project") |-> RefAmount(l, "project", p)]
  OBVIOUS
<1>10. PICK models : models = [m \in RefKeys(mine, "model") |-> RefAmount(logs, "model", m)] OBVIOUS
<1>11. PICK project : project = SeenWith(v.project, v.projectSource, S) OBVIOUS
<1>12. PICK model : model = SeenWith(v.model, v.modelSource, S) OBVIOUS
<1>13. PICK daily : daily = BySources(v.daySource, S) OBVIOUS
<1>14. PICK u : u = FilterView(v, tab) OBVIOUS
<1>15. /\ u.windows.all = EntriesTotal(project).tokens /\ u.windows.today = At(daily, DayOf(Now)).tokens
       /\ \A w \in {"week", "month"} :
            u.windows[w] = SumOver(daily, {d \in DOMAIN daily : d >= FirstDay(w, DayOf(Now))}).tokens
       /\ u.records = EntriesTotal(model).records
       /\ u.source = Within(v.source, S)
       /\ u.model = model /\ u.project = project /\ u.daily = daily
       /\ u.daySource = OfSource(v.daySource, S)
       /\ u.hours = BySources(v.hourSource, S) /\ u.hourSource = OfSource(v.hourSource, S)
  BY <1>3, <1>11, <1>12, <1>13, <1>14 DEF FilterView, Within
<1>16. AmountsOf(project) = sessions
  BY <1>2, <1>5, <1>7, <1>9, <1>11, SeenIs
<1>17. AmountsOf(model) = models
  BY <1>2, <1>7, <1>10, <1>12, SeenIs
<1>18. AmountsOf(u.source) = RefBy(mine, "source") BY <1>2, <1>7, <1>15, OwnSources
<1>19. <<"day", "daySource">> \in ByWhich /\ <<"hour", "hourSource">> \in ByWhich BY DEF ByWhich
<1>20. daily = RefBy(mine, "day") /\ u.daySource = RefBy(mine, "daySource")
  BY <1>2, <1>7, <1>13, <1>15, <1>19, BySourcesIs, OfSourceIs
<1>21. \A w \in {"today", "week", "month"} : u.windows[w] = RefWindow(mine, w, Now)
  <2>1. \A i \in DOMAIN mine : mine[i].hour \in Int /\ mine[i].hour <= Now
    <3>1. \A i \in DOMAIN logs : logs[i].hour \in Int BY <1>2, FeedLogsFit
    <3> QED BY <1>5, <1>7, <3>1
  <2>2. u.windows.today = RefWindow(mine, "today", Now) BY <1>7, <1>15, <1>20, <2>1, TabWindows
  <2>3. \A w \in {"week", "month"} : u.windows[w] = RefWindow(mine, w, Now)
    BY <1>7, <1>15, <1>20, <2>1, TabWindows
  <2> QED BY <2>2, <2>3
<1>22. u.hours = RefBy(hours, "hour") /\ u.hourSource = RefBy(hours, "hourSource")
  <2>1. PICK I : I = {i \in DOMAIN logs : DayOf(logs[i].hour) = DayOf(Now)} /\ I = Todays(logs, Now) BY DEF Todays
  <2>2. PICK T : T = Restrict(logs, I) OBVIOUS
  <2>3. I \subseteq DOMAIN logs BY <2>1
  <2>4. Records(T) BY <1>2, <2>2, <2>3, RestrictIs
  <2>5. v.hourSource = RefBy(T, "hourSource") BY <1>2, <2>1, <2>2, TodayIs
  <2>6. Of(T, S) = hours
    <3>1. {i \in own : i \in I} = {i \in own : DayOf(logs[i].hour) = DayOf(Now)} BY <1>5, <2>1
    <3>2. Of(T, S) = Restrict(logs, {i \in own : i \in I}) BY <1>4, <2>2, <2>3, OfSome
    <3> QED BY <1>8, <3>1, <3>2
  <2> QED BY <1>15, <1>19, <2>4, <2>5, <2>6, BySourcesIs, OfSourceIs
<1>23. /\ u.windows.all = SumOver(sessions, DOMAIN sessions).tokens
       /\ u.records = SumOver(models, DOMAIN models).records
  <2>1. DOMAIN AmountsOf(project) = DOMAIN project /\ DOMAIN AmountsOf(model) = DOMAIN model BY DEF AmountsOf
  <2> QED BY <1>15, <1>16, <1>17, <2>1 DEF EntriesTotal
<1>24. TabShows(u, logs, tab)
  <2>1. own = Own(logs, TabSources[tab]) BY <1>3, <1>4
  <2>2. AmountsOf(u.project) = sessions /\ AmountsOf(u.model) = models BY <1>15, <1>16, <1>17
  <2>3. u.daily = RefBy(mine, "day") BY <1>15, <1>20
  <2> QED BY <1>1, <1>6, <1>8, <1>9, <1>10, <1>18, <1>20, <1>21, <1>22, <1>23, <2>1, <2>2, <2>3, ShowsTab
<1> QED BY <1>14, <1>24

\* A feed has finitely many sessions, its records being finitely many.
LEMMA FiniteViews == \A f \in DOMAIN Feeds : IsFiniteSet(DOMAIN FeedViews[f].project)
<1> SUFFICES ASSUME NEW f \in DOMAIN Feeds PROVE IsFiniteSet(DOMAIN FeedViews[f].project)
  OBVIOUS
<1>1. PICK v : v = FeedViews[f] OBVIOUS
<1>2. PICK l : l = TitledLogs(LogsOfFeed(f)) OBVIOUS
<1>3. Records(l) /\ AmountsOf(v.project) = RefBy(l, "project") BY <1>1, <1>2, FeedShown, ShownIs
<1>4. DOMAIN AmountsOf(v.project) = DOMAIN v.project BY DEF AmountsOf
<1>5. DOMAIN RefBy(l, "project") = RefKeys(l, "project") BY DEF RefBy
<1> QED BY <1>1, <1>3, <1>4, <1>5, FiniteKeys

-----------------------------------------------------------------------------
(* The dashboard *)

Versions == [feed : DOMAIN Feeds, warning : {"none", "memory"}]

IsSequence(r) == \E S : r \in Seq(S)

\* DashTypeOK part by part, with the queue as a sequence and the rows as one.
PipeTypes ==
    /\ messages \in Seq(Versions) /\ Len(messages) <= MaxMessages
    /\ pushed \in Versions /\ [feed |-> feed, warning |-> warning] \in Versions
    /\ {feedChanged, warningChanged, pushedChanged} \subseteq BOOLEAN
    /\ warnings \in 0 .. MaxWarnings
AppTypes ==
    /\ view \in Versions /\ filtered.warning = view.warning
    /\ activeTab \in DOMAIN TabSources /\ dropdownOpen \in BOOLEAN /\ commands \in 0 .. CmdCap
TableTypes ==
    /\ page \in Nat /\ scrollLimit \in Nat \ {0} /\ mode \in {"pagination", "scroll"}
    /\ IsSequence(rows)

\* The last version on its way to the window, or there.
Newest == IF messages = <<>> THEN view ELSE messages[Len(messages)]

\* Whoever has nothing new to pass on has passed the present value on.
Passed ==
    /\ ~feedChanged => pushed.feed = feed
    /\ ~warningChanged => pushed.warning = warning
    /\ ~pushedChanged => Newest = pushed

\* The table's page is one that has rows, in either mode.
OnPage == page <= MaxPage(rows)

DashInv == PipeTypes /\ AppTypes /\ TableTypes /\ Passed /\ OnPage

-----------------------------------------------------------------------------
(* Numbers *)

LEMMA MinOfTwo ==
    ASSUME NEW a \in Int, NEW b \in Int
    PROVE  Min({a, b}) = IF a <= b THEN a ELSE b
<1> DEFINE m == IF a <= b THEN a ELSE b
<1>1. m \in {a, b} /\ \A y \in {a, b} : m =< y OBVIOUS
<1>2. \A x \in {a, b} : (\A y \in {a, b} : x =< y) => x = m OBVIOUS
<1> HIDE DEF m
<1>3. (CHOOSE x \in {a, b} : \A y \in {a, b} : x =< y) = m BY <1>1, <1>2
<1> QED BY <1>3 DEF Min, m

\* What a quotient rounds off.
LEMMA Quotient ==
    ASSUME NEW n \in Nat, NEW d \in Nat \ {0}
    PROVE  n \div d \in Nat /\ (n \div d) * d <= n /\ n < (n \div d + 1) * d
  OBVIOUS

LEMMA Products ==
    ASSUME NEW a \in Nat, NEW b \in Nat, NEW d \in Nat \ {0}
    PROVE  /\ a <= b <=> a * d <= b * d
           /\ a * d < (b + 1) * d <=> a <= b
           /\ (a + 1) * d = a * d + d
  OBVIOUS

\* The pages that have rows are those from 0 to MaxPage.
LEMMA Pages ==
    ASSUME NEW n \in Nat \ {0}, NEW d \in Nat \ {0}, NEW p \in Nat
    PROVE  /\ p <= (n - 1) \div d <=> p * d < n
           /\ (n + d - 1) \div d = (n - 1) \div d + 1
<1> DEFINE q == (n - 1) \div d
           t == (n + d - 1) \div d
<1>1. q \in Nat /\ q * d <= n - 1 /\ n - 1 < (q + 1) * d BY Quotient
<1>2. t \in Nat /\ t * d <= n + d - 1 /\ n + d - 1 < (t + 1) * d
  <2>1. n + d - 1 \in Nat OBVIOUS
  <2> QED BY <2>1, Quotient
<1> HIDE DEF q, t
<1>3. p <= q <=> p * d < n
  <2>1. CASE p <= q
    <3>1. p * d <= q * d BY <1>1, <2>1, Products
    <3>2. p * d \in Nat /\ q * d \in Nat BY <1>1
    <3> QED BY <1>1, <2>1, <3>1, <3>2
  <2>2. CASE ~(p <= q)
    <3>1. q + 1 <= p /\ q + 1 \in Nat BY <1>1, <2>2
    <3>2. (q + 1) * d <= p * d BY <3>1, Products
    <3>3. (q + 1) * d \in Nat /\ p * d \in Nat BY <3>1
    <3> QED BY <1>1, <2>2, <3>2, <3>3
  <2> QED BY <2>1, <2>2
<1>4. t = q + 1
  <2>1. (q + 1) * d = q * d + d /\ (t + 1) * d = t * d + d /\ q * d \in Nat /\ t * d \in Nat
    BY <1>1, <1>2, Products
  <2>2. t * d < (q + 1) * d + d /\ q * d + d < (t + 1) * d
    BY <1>1, <1>2, <2>1
  <2>3. t * d < (q + 2) * d /\ (q + 1) * d < (t + 1) * d
    <3>1. (q + 2) * d = ((q + 1) + 1) * d /\ ((q + 1) + 1) * d = (q + 1) * d + d
      BY <1>1, Products
    <3> QED BY <2>1, <2>2, <3>1
  <2>4. t <= q + 1
    <3>1. q + 1 \in Nat /\ (q + 2) = (q + 1) + 1 BY <1>1
    <3> QED BY <1>2, <2>3, <3>1, Products
  <2>5. q + 1 <= t
    <3>1. q + 1 \in Nat BY <1>1
    <3> QED BY <1>2, <2>3, <3>1, Products
  <2> QED BY <1>1, <1>2, <2>4, <2>5
<1> QED BY <1>3, <1>4 DEF q, t

-----------------------------------------------------------------------------
(* Rows and pages *)

\* A tab's view has the sessions of the whole one, or some of them.
LEMMA FilteredSessions ==
    ASSUME NEW v, NEW tab, IsFiniteSet(DOMAIN v.project)
    PROVE  IsFiniteSet(DOMAIN FilterView(v, tab).project)
<1>1. CASE tab = "all" BY <1>1 DEF FilterView
<1>2. CASE tab # "all"
  <2>1. FilterView(v, tab).project = SeenWith(v.project, v.projectSource, TabSources[tab])
    BY <1>2 DEF FilterView
  <2>2. DOMAIN SeenWith(v.project, v.projectSource, TabSources[tab]) \in SUBSET DOMAIN v.project
    BY DEF SeenWith
  <2> QED BY <2>1, <2>2, FS_Subset
<1> QED BY <1>1, <1>2

\* The rows are a sequence, and there is one for each session.
OneEach(r, P) == {x.key : x \in Range(r)} = P /\ Len(r) = Cardinality(P)

LEMMA RowsAre ==
    ASSUME NEW v, IsFiniteSet(DOMAIN v.project), NEW r \in RowsOf(v)
    PROVE  IsSequence(r) /\ OneEach(r, DOMAIN v.project)
<1> DEFINE estimated(p) == \E i \in DOMAIN v.recent :
                               v.recent[i].project = p /\ v.recent[i].class = "calculate"
           row(p) == [key |-> p, amount |-> v.project[p].amount, calculated |-> estimated(p)]
           P == DOMAIN v.project
           T == {row(p) : p \in P}
           f == [p \in P |-> row(p)]
<1>1. r \in SetToSeqs(T) BY DEF RowsOf
<1>2. \A p \in P : row(p).key = p OBVIOUS
<1> HIDE DEF row, P
<1>3. f \in Surjection(P, T) BY DEF Surjection
<1>4. f \in Injection(P, T) BY <1>2 DEF Injection, IsInjective
<1>5. {x.key : x \in T} = P BY <1>2
<1> HIDE DEF T, f
<1>6. IsFiniteSet(T) /\ Cardinality(T) = Cardinality(P) BY <1>3, <1>4, FS_Surjection DEF P
<1>7. r \in Seq(T) /\ Range(r) = T /\ Len(r) = Cardinality(T) BY <1>1, <1>6, RangeOfOrder
<1>8. OneEach(r, P) BY <1>5, <1>6, <1>7 DEF OneEach
<1> QED BY <1>7, <1>8 DEF IsSequence, P

\* A page that is at most the last one shows rows, if there are any; page 0 always exists.
LEMMA PageOfRows ==
    ASSUME NEW r, IsSequence(r)
    PROVE  /\ MaxPage(r) \in Nat /\ TotalPages(r) = MaxPage(r) + 1
           /\ Len(r) \in Nat /\ (r # <<>> <=> Len(r) > 0)
           /\ \A p \in Nat : r # <<>> => (p <= MaxPage(r) <=> p * PageSize < Len(r))
<1>1. PageSize \in Nat \ {0} BY DashboardAssumption
<1>2. PICK S : r \in Seq(S) BY DEF IsSequence
<1>3. Len(r) \in Nat /\ (r # <<>> <=> Len(r) > 0) BY <1>2
<1>4. CASE r = <<>> BY <1>3, <1>4 DEF MaxPage, TotalPages
<1>5. CASE r # <<>>
  <2>1. Len(r) \in Nat \ {0} /\ Len(r) - 1 \in Nat BY <1>3, <1>5
  <2>2. MaxPage(r) = (Len(r) - 1) \div PageSize
        /\ TotalPages(r) = (Len(r) + PageSize - 1) \div PageSize
    BY <1>5 DEF MaxPage, TotalPages
  <2>3. (Len(r) - 1) \div PageSize \in Nat BY <1>1, <2>1, Quotient
  <2> QED BY <1>1, <1>3, <2>1, <2>2, <2>3, Pages
<1> QED BY <1>4, <1>5

\* A stretch of rows from one to a later one is not empty.
LEMMA SomeRows ==
    ASSUME NEW r, NEW m \in Nat, NEW n \in Nat, 1 <= m, m <= n
    PROVE  SubSeq(r, m, n) # <<>>
<1>1. SubSeq(r, m, n) = [i \in 1 .. (1 + n - m) |-> r[i + m - 1]] OBVIOUS
<1>2. 1 \in DOMAIN SubSeq(r, m, n) BY <1>1
<1>3. DOMAIN <<>> = {} OBVIOUS
<1> QED BY <1>2, <1>3

\* Recomputing rows and page leaves the warning of the view and a page that exists.
LEMMA Precalculated ==
    ASSUME NEW v \in Versions, NEW tab, page \in Nat, Precalculate(v, tab)
    PROVE  /\ filtered'.warning = v.warning
           /\ IsSequence(rows)'
           /\ page' \in Nat /\ page' <= MaxPage(rows')
<1>1. /\ filtered' = [view |-> FilterView(FeedViews[v.feed], tab), warning |-> v.warning]
      /\ rows' \in RowsOf(filtered'.view) /\ page' = Min({page, MaxPage(rows')})
  BY DEF Precalculate
<1>2. IsFiniteSet(DOMAIN FeedViews[v.feed].project) BY FiniteViews DEF Versions
<1>3. filtered'.view = FilterView(FeedViews[v.feed], tab) /\ filtered'.warning = v.warning
  BY <1>1
<1>4. IsSequence(rows') BY <1>1, <1>2, <1>3, FilteredSessions, RowsAre
<1>5. MaxPage(rows') \in Nat BY <1>4, PageOfRows
<1>6. page' = IF page <= MaxPage(rows') THEN page ELSE MaxPage(rows') BY <1>1, <1>5, MinOfTwo
<1> QED BY <1>3, <1>4, <1>5, <1>6

-----------------------------------------------------------------------------
(* The invariant *)

\* What a step leaves alone stays as it was.
LEMMA SamePipe ==
    ASSUME UNCHANGED pipeVars
    PROVE  /\ PipeTypes => PipeTypes'
           /\ Passed /\ view' = view => Passed'
<1>1. UNCHANGED <<feed, feedChanged, warning, warningChanged, warnings, pushed, pushedChanged,
                  messages>>
  BY DEF pipeVars
<1>2. view' = view => Newest' = Newest BY <1>1 DEF Newest
<1> QED BY <1>1, <1>2 DEF PipeTypes, Passed

LEMMA SameTable ==
    ASSUME UNCHANGED <<rows, tableVars>>
    PROVE  (TableTypes => TableTypes') /\ (OnPage => OnPage')
  BY DEF tableVars, TableTypes, OnPage, MaxPage, IsSequence

LEMMA SameApp ==
    ASSUME UNCHANGED appVars
    PROVE  (AppTypes => AppTypes') /\ UNCHANGED <<view, rows, tableVars>>
  BY DEF appVars, AppTypes

LEMMA InitDash == DashInit => DashInv
<1> SUFFICES ASSUME DashInit PROVE DashInv
  OBVIOUS
<1>1. 1 \in DOMAIN Feeds BY DashboardAssumption
<1>2. pushed \in Versions /\ view = pushed /\ pushed = [feed |-> feed, warning |-> warning]
  BY <1>1 DEF DashInit, Versions
<1>3. /\ messages = <<pushed>> /\ messages \in Seq(Versions) /\ Len(messages) = 1
      /\ messages[1] = pushed
  BY <1>2 DEF DashInit
<1>4. IsSequence(rows)
  <2>1. IsFiniteSet(DOMAIN FeedViews[1].project) BY <1>1, FiniteViews
  <2> QED BY <2>1, RowsAre DEF DashInit
<1>5. PipeTypes
  <2>1. /\ MaxWarnings \in Nat /\ 0 \in 0 .. MaxWarnings /\ MaxMessages \in Nat /\ 1 <= MaxMessages
        /\ CmdCap \in Nat /\ 0 \in 0 .. CmdCap
    BY DashboardAssumption
  <2>2. /\ warnings = 0 /\ feedChanged = FALSE /\ warningChanged = FALSE /\ pushedChanged = FALSE
    BY DEF DashInit
  <2>3. {feedChanged, warningChanged, pushedChanged} \subseteq BOOLEAN BY <2>2, Zenon
  <2>4. Len(messages) <= MaxMessages /\ warnings \in 0 .. MaxWarnings BY <1>3, <2>1, <2>2
  <2> QED BY <1>2, <1>3, <2>3, <2>4, Zenon DEF PipeTypes
<1>6. AppTypes
  <2>1. CmdCap \in Nat /\ 0 \in 0 .. CmdCap BY DashboardAssumption
  <2>2. commands \in 0 .. CmdCap BY <2>1 DEF DashInit
  <2>3. dropdownOpen \in BOOLEAN BY Zenon DEF DashInit
  <2>4. activeTab \in DOMAIN TabSources BY DEF DashInit, TabSources
  <2>5. view.warning = "none" /\ filtered.warning = "none" BY DEF DashInit
  <2> QED BY <1>2, <2>2, <2>3, <2>4, <2>5 DEF AppTypes
<1>7. TableTypes BY <1>4, DashboardAssumption DEF DashInit, TableTypes
<1>8. Passed BY <1>2, <1>3 DEF DashInit, Passed, Newest
<1>9. OnPage
  <2>1. MaxPage(rows) \in Nat BY <1>4, PageOfRows
  <2> QED BY <2>1 DEF DashInit, OnPage
<1> QED BY <1>5, <1>6, <1>7, <1>8, <1>9 DEF DashInv

\* A message is taken from the front of the queue, or put at its end.
LEMMA QueueEnds ==
    ASSUME NEW q \in Seq(Versions)
    PROVE  /\ q # <<>> => /\ Head(q) \in Versions /\ Tail(q) \in Seq(Versions)
                          /\ Len(Tail(q)) = Len(q) - 1
                          /\ Tail(q) = <<>> => q[Len(q)] = Head(q)
                          /\ Tail(q) # <<>> => Tail(q)[Len(Tail(q))] = q[Len(q)]
           /\ \A v \in Versions : /\ Append(q, v) \in Seq(Versions) /\ Append(q, v) # <<>>
                                  /\ Len(Append(q, v)) = Len(q) + 1
                                  /\ Append(q, v)[Len(Append(q, v))] = v
  OBVIOUS

LEMMA StepDash ==
    ASSUME DashInv, [DashNext]_dashVars
    PROVE  DashInv'
<1>1. PipeTypes /\ AppTypes /\ TableTypes /\ Passed /\ OnPage BY DEF DashInv
<1>2. CASE UNCHANGED dashVars
  <2>1. UNCHANGED pipeVars /\ UNCHANGED appVars BY <1>2 DEF dashVars
  <2> QED BY <1>1, <2>1, SamePipe, SameApp, SameTable DEF DashInv
<1>3. ASSUME PipeTypes', Passed', UNCHANGED appVars PROVE DashInv'
  BY <1>1, <1>3, SameApp, SameTable DEF DashInv
<1>4. CASE Refreshed \/ Measure
  <2>1. UNCHANGED <<pushed, pushedChanged, messages>> /\ UNCHANGED appVars
        /\ (feed' = feed \/ feedChanged' = TRUE) /\ (warning' = warning \/ warningChanged' = TRUE)
    BY <1>4 DEF Refreshed, Measure
  <2>2. [feed |-> feed', warning |-> warning'] \in Versions
    <3>1. CASE Refreshed
      BY <1>1, <3>1, DashboardAssumption DEF Refreshed, PipeTypes, Versions
    <3>2. CASE Measure BY <1>1, <3>2 DEF Measure, PipeTypes, Versions
    <3> QED BY <1>4, <3>1, <3>2
  <2>3. PipeTypes'
    <3>1. {feedChanged', warningChanged', pushedChanged'} \subseteq BOOLEAN
      BY <1>1, <1>4 DEF Refreshed, Measure, PipeTypes
    <3>2. warnings' \in 0 .. MaxWarnings
      BY <1>1, <1>4, DashboardAssumption DEF Refreshed, Measure, PipeTypes
    <3> QED BY <1>1, <2>1, <2>2, <3>1, <3>2 DEF PipeTypes
  <2>4. Newest' = Newest
    <3>1. view' = view BY <2>1 DEF appVars
    <3> QED BY <2>1, <3>1 DEF Newest
  <2>5. Passed' BY <1>1, <1>4, <2>1, <2>4 DEF Refreshed, Measure, Passed
  <2>6. UNCHANGED appVars BY <2>1
  <2> QED BY <1>3, <2>3, <2>5, <2>6
<1>5. CASE PushView \/ PushWarning
  <2>1. pushed' = [feed |-> feed, warning |-> warning] /\ pushedChanged' = TRUE
        /\ UNCHANGED <<feed, warning, warnings, messages>> /\ UNCHANGED appVars
    BY <1>5 DEF PushView, PushWarning, Push
  <2>2. PipeTypes' BY <1>1, <1>5, <2>1 DEF PushView, PushWarning, PipeTypes
  <2>3. Passed' BY <1>1, <2>1 DEF Passed, Newest
  <2> QED BY <1>3, <2>1, <2>2, <2>3
<1>6. CASE Forward
  <2>1. /\ messages' = Append(messages, pushed) /\ Len(messages) < MaxMessages /\ pushedChanged' = FALSE
        /\ UNCHANGED <<feed, feedChanged, warning, warningChanged, warnings, pushed>>
        /\ UNCHANGED appVars
    BY <1>6 DEF Forward
  <2>2. messages \in Seq(Versions) /\ pushed \in Versions /\ Len(messages) \in Nat
    BY <1>1 DEF PipeTypes
  <2>3. /\ messages' \in Seq(Versions) /\ messages' # <<>> /\ Len(messages') = Len(messages) + 1
        /\ messages'[Len(messages')] = pushed
    BY <2>1, <2>2, QueueEnds
  <2>4. Len(messages') <= MaxMessages BY <2>1, <2>2, <2>3, DashboardAssumption
  <2>5. PipeTypes' BY <1>1, <2>1, <2>3, <2>4 DEF PipeTypes
  <2>6. Passed' BY <1>1, <2>1, <2>3 DEF Passed, Newest
  <2> QED BY <1>3, <2>1, <2>5, <2>6
<1>7. CASE UpdateView
  <2>1. /\ messages # <<>> /\ messages' = Tail(messages) /\ view' = Head(messages)
        /\ Precalculate(view', activeTab)
        /\ UNCHANGED <<feed, feedChanged, warning, warningChanged, warnings, pushed, pushedChanged,
                       activeTab, mode, scrollLimit, dropdownOpen, commands>>
    BY <1>7 DEF UpdateView
  <2>2. messages \in Seq(Versions) /\ Len(messages) \in Nat /\ page \in Nat
    BY <1>1 DEF PipeTypes, TableTypes
  <2>3. /\ view' \in Versions /\ messages' \in Seq(Versions) /\ Len(messages') = Len(messages) - 1
        /\ messages' = <<>> => messages[Len(messages)] = view'
        /\ messages' # <<>> => messages'[Len(messages')] = messages[Len(messages)]
    BY <2>1, <2>2, QueueEnds
  <2>4. /\ filtered'.warning = view'.warning /\ IsSequence(rows)'
        /\ page' \in Nat /\ page' <= MaxPage(rows')
    BY <2>1, <2>2, <2>3, Precalculated
  <2>5. Len(messages') <= MaxMessages BY <1>1, <2>2, <2>3, DashboardAssumption DEF PipeTypes
  <2>6. PipeTypes' BY <1>1, <2>1, <2>3, <2>5 DEF PipeTypes
  <2>7. AppTypes' BY <1>1, <2>1, <2>3, <2>4 DEF AppTypes
  <2>8. TableTypes' BY <1>1, <2>1, <2>4 DEF TableTypes
  <2>9. Newest' = Newest BY <2>1, <2>3 DEF Newest
  <2>10. Passed' BY <1>1, <2>1, <2>9 DEF Passed
  <2> QED BY <2>4, <2>6, <2>7, <2>8, <2>10 DEF DashInv, OnPage, MaxPage
<1>8. ASSUME NEW tab \in DOMAIN TabSources, SelectTab(tab) PROVE DashInv'
  <2>1. /\ activeTab' = tab /\ Precalculate(view, tab) /\ TrySend
        /\ UNCHANGED pipeVars /\ UNCHANGED <<view, mode, scrollLimit, dropdownOpen>>
    BY <1>8 DEF SelectTab
  <2>2. view \in Versions /\ page \in Nat BY <1>1 DEF AppTypes, TableTypes
  <2>3. /\ filtered'.warning = view.warning /\ IsSequence(rows)'
        /\ page' \in Nat /\ page' <= MaxPage(rows')
    BY <2>1, <2>2, Precalculated
  <2>4. commands' \in 0 .. CmdCap BY <1>1, <2>1, MinOfTwo, DashboardAssumption DEF TrySend, AppTypes
  <2>5. AppTypes' BY <1>1, <2>1, <2>3, <2>4 DEF AppTypes
  <2>6. TableTypes' BY <1>1, <2>1, <2>3 DEF TableTypes
  <2> QED BY <1>1, <2>1, <2>3, <2>5, <2>6, SamePipe DEF DashInv, OnPage, MaxPage
<1>9. CASE ToggleDropdown \/ SendCommand \/ TakeCommand
  <2>1. UNCHANGED pipeVars /\ UNCHANGED <<view, activeTab, filtered, rows, tableVars>>
        /\ dropdownOpen' \in BOOLEAN
    BY <1>1, <1>9 DEF ToggleDropdown, SendCommand, TakeCommand, AppTypes
  <2>2. commands' \in 0 .. CmdCap
    <3>1. CmdCap \in Nat /\ commands \in 0 .. CmdCap BY <1>1, DashboardAssumption DEF AppTypes
    <3>2. CASE ToggleDropdown BY <3>1, <3>2 DEF ToggleDropdown
    <3>3. CASE SendCommand BY <3>1, <3>3, MinOfTwo DEF SendCommand, TrySend
    <3>4. CASE TakeCommand BY <3>1, <3>4 DEF TakeCommand
    <3> QED BY <1>9, <3>2, <3>3, <3>4
  <2>3. AppTypes' BY <1>1, <2>1, <2>2 DEF AppTypes
  <2> QED BY <1>1, <2>1, <2>3, SamePipe, SameTable DEF DashInv
<1>10. CASE TableClick
  <2>1. UNCHANGED pipeVars
        /\ UNCHANGED <<view, activeTab, filtered, rows, dropdownOpen, commands>>
    BY <1>10 DEF TableClick
  <2>2. /\ page \in Nat /\ PageSize \in Nat \ {0} /\ scrollLimit \in Nat \ {0}
        /\ mode \in {"pagination", "scroll"} /\ IsSequence(rows)
        /\ MaxPage(rows) \in Nat /\ Len(rows) \in Nat /\ page <= MaxPage(rows)
    BY <1>1, PageOfRows, DashboardAssumption DEF TableTypes, OnPage
  <2>3. /\ page' \in Nat /\ page' <= MaxPage(rows)
        /\ scrollLimit' \in Nat \ {0} /\ mode' \in {"pagination", "scroll"}
    <3>1. CASE PrevPage BY <2>2, <3>1 DEF PrevPage
    <3>2. CASE NextPage
      <4>1. (page + 1) * PageSize < Len(rows) /\ page' = page + 1 /\ UNCHANGED <<mode, scrollLimit>>
        BY <3>2 DEF NextPage
      <4>2. (page + 1) * PageSize \in Nat /\ page + 1 \in Nat BY <2>2
      <4>3. rows # <<>> BY <2>2, <4>1, <4>2, PageOfRows
      <4>4. page + 1 <= MaxPage(rows) BY <2>2, <4>1, <4>2, <4>3, PageOfRows
      <4> QED BY <2>2, <4>1, <4>2, <4>4
    <3>3. CASE LoadMore BY <2>2, <3>3 DEF LoadMore
    <3>4. CASE ToPagination BY <2>2, <3>4 DEF ToPagination
    <3>5. CASE ToScroll BY <2>2, <3>5 DEF ToScroll
    <3> QED BY <1>10, <3>1, <3>2, <3>3, <3>4, <3>5 DEF TableClick
  <2>4. AppTypes' BY <1>1, <2>1 DEF AppTypes
  <2>5. TableTypes' /\ OnPage' BY <2>1, <2>2, <2>3 DEF TableTypes, OnPage, MaxPage
  <2> QED BY <1>1, <2>1, <2>4, <2>5, SamePipe DEF DashInv
<1> QED BY <1>2, <1>4, <1>5, <1>6, <1>7, <1>8, <1>9, <1>10 DEF DashNext

LEMMA DashInvariant == DashSpec => []DashInv
<1>1. DashInit => DashInv BY InitDash
<1>2. DashInv /\ [DashNext]_dashVars => DashInv' BY StepDash
<1> QED BY <1>1, <1>2, PTL DEF DashSpec

-----------------------------------------------------------------------------
(* The properties *)

\* Type correctness of the dashboard: queues and channels keep to their capacity, and
\* what they carry is a version of the view there has been.
THEOREM DashTypeCorrect == DashSpec => []DashTypeOK
<1>1. DashInv => DashTypeOK
  <2> SUFFICES ASSUME PipeTypes, AppTypes, TableTypes PROVE DashTypeOK
    BY DEF DashInv
  <2>1. Range(messages) \subseteq Versions BY DEF PipeTypes, Range
  <2>2. filtered.warning \in {"none", "memory"} BY DEF AppTypes, Versions
  <2> QED BY <2>1, <2>2 DEF PipeTypes, AppTypes, TableTypes, DashTypeOK, Versions
<1> QED BY <1>1, DashInvariant, PTL

\* Two senders, a channel that keeps the last value only, and a queue: once all of them
\* are through, the window shows the last view and the last warning, however many there were.
THEOREM DashShowsLatest == DashSpec => []ShowsLatest
<1>1. DashInv => ShowsLatest
  BY DEF DashInv, AppTypes, Passed, Newest, ShowsLatest
<1> QED BY <1>1, DashInvariant, PTL

\* However the table shrank or grew under the user, the page it is on exists and has rows
\* as long as there are any.
THEOREM DashPageShown == DashSpec => []PageShown
<1>1. DashInv => PageShown
  <2> SUFFICES ASSUME TableTypes, OnPage PROVE PageShown
    BY DEF DashInv
  <2>1. /\ page \in Nat /\ PageSize \in Nat \ {0} /\ scrollLimit \in Nat \ {0} /\ IsSequence(rows)
        /\ MaxPage(rows) \in Nat /\ TotalPages(rows) = MaxPage(rows) + 1 /\ Len(rows) \in Nat
    BY PageOfRows, DashboardAssumption DEF TableTypes
  <2>2. page + 1 <= TotalPages(rows) BY <2>1 DEF OnPage
  <2>3. ASSUME rows # <<>> PROVE Shown # <<>>
    <3>1. Len(rows) > 0 BY <2>1, <2>3, PageOfRows
    <3>2. CASE mode = "pagination"
      <4>1. page * PageSize < Len(rows) BY <2>1, <2>3, PageOfRows DEF OnPage
      <4>2. page * PageSize \in Nat /\ (page + 1) * PageSize = page * PageSize + PageSize
        BY <2>1, Products
      <4> DEFINE last == Min({(page + 1) * PageSize, Len(rows)})
      <4>3. last = (page + 1) * PageSize \/ last = Len(rows)
        BY <2>1, <4>2, MinOfTwo
      <4>4. page * PageSize + 1 <= last /\ last \in Nat BY <2>1, <4>1, <4>2, <4>3
      <4>5. Shown = SubSeq(rows, page * PageSize + 1, last) BY <3>2 DEF Shown
      <4> HIDE DEF last
      <4>6. page * PageSize + 1 \in Nat /\ 1 <= page * PageSize + 1 BY <4>2
      <4> QED BY <4>4, <4>5, <4>6, SomeRows
    <3>3. CASE mode # "pagination"
      <4> DEFINE last == Min({scrollLimit, Len(rows)})
      <4>1. last = scrollLimit \/ last = Len(rows) BY <2>1, MinOfTwo
      <4>2. 1 <= last /\ last \in Nat BY <2>1, <3>1, <4>1
      <4>3. Shown = SubSeq(rows, 1, last) BY <3>3 DEF Shown
      <4> HIDE DEF last
      <4>4. SubSeq(rows, 1, last) # <<>> BY <4>2, SomeRows
      <4> QED BY <4>3, <4>4
    <3> QED BY <3>2, <3>3
  <2> QED BY <2>2, <2>3 DEF PageShown
<1> QED BY <1>1, DashInvariant, PTL

\* No record dates from an hour to come.
NoneAhead == \A f \in DOMAIN Feeds : \A i \in DOMAIN LogsOfFeed(f) : LogsOfFeed(f)[i].hour <= Now

\* What is on the screen was made of the view and the tab in force.
Screen ==
    /\ filtered.view = FilterView(FeedViews[view.feed], activeTab)
    /\ rows \in RowsOf(filtered.view)

LEMMA ScreenInvariant == DashSpec => []Screen
<1>1. DashInit => Screen
  <2> SUFFICES ASSUME DashInit PROVE Screen
    OBVIOUS
  <2>1. /\ view.feed = 1 /\ activeTab = "all" /\ filtered.view = FeedViews[1]
        /\ rows \in RowsOf(FeedViews[1])
    BY DEF DashInit
  <2>2. FilterView(FeedViews[1], "all") = FeedViews[1] BY DEF FilterView
  <2> QED BY <2>1, <2>2 DEF Screen
<1>2. Screen /\ [DashNext]_dashVars => Screen'
  <2> SUFFICES ASSUME Screen, [DashNext]_dashVars PROVE Screen'
    OBVIOUS
  <2>1. ASSUME UNCHANGED <<view, activeTab, filtered, rows>> PROVE Screen' BY <2>1 DEF Screen
  <2>2. CASE UNCHANGED dashVars BY <2>1, <2>2 DEF dashVars, appVars
  <2>3. CASE Refreshed \/ Measure \/ PushView \/ PushWarning \/ Forward
    BY <2>1, <2>3 DEF Refreshed, Measure, PushView, PushWarning, Forward, appVars
  <2>4. CASE UpdateView
    <3>1. Precalculate(view', activeTab) /\ activeTab' = activeTab BY <2>4 DEF UpdateView
    <3> QED BY <3>1 DEF Precalculate, Screen
  <2>5. ASSUME NEW tab \in DOMAIN TabSources, SelectTab(tab) PROVE Screen'
    <3>1. Precalculate(view, tab) /\ activeTab' = tab /\ view' = view BY <2>5 DEF SelectTab
    <3> QED BY <3>1 DEF Precalculate, Screen
  <2>6. CASE ToggleDropdown \/ SendCommand \/ TakeCommand \/ TableClick
    BY <2>1, <2>6 DEF ToggleDropdown, SendCommand, TakeCommand, TableClick
  <2> QED BY <2>2, <2>3, <2>4, <2>5, <2>6 DEF DashNext
<1> QED BY <1>1, <1>2, PTL DEF DashSpec

\* Whatever came between, an update or a change of tab, each figure on the screen is that of
\* the records of the view and of the tab in force, for feeds of any records from before now
\* and for any titles, and the table has one row for each session.
THEOREM DashTabExact == ASSUME NoneAhead PROVE DashSpec => []TabExact
<1>1. DashInv /\ Screen => TabExact
  <2> SUFFICES ASSUME DashInv, Screen PROVE TabExact
    OBVIOUS
  <2>1. PICK f \in DOMAIN Feeds : f = view.feed BY DEF DashInv, AppTypes, Versions
  <2>2. PICK logs : logs = LogsOfFeed(f) OBVIOUS
  <2>3. PICK v : v = FeedViews[f] OBVIOUS
  <2>4. Shows(v, logs) /\ IsFiniteSet(DOMAIN v.project) BY <2>2, <2>3, FeedShown, FiniteViews
  <2>5. \A i \in DOMAIN logs : logs[i].hour <= Now BY <2>2 DEF NoneAhead
  <2>6. filtered.view = FilterView(v, activeTab) /\ rows \in RowsOf(filtered.view)
    BY <2>1, <2>3 DEF Screen
  <2>7. TabShows(FilterView(v, activeTab), logs, activeTab)
    <3>1. CASE activeTab = "all" BY <2>4, <3>1, AllShown
    <3>2. CASE activeTab # "all" BY <2>4, <2>5, <3>2, TabShown
    <3> QED BY <3>1, <3>2
  <2>8. IsFiniteSet(DOMAIN filtered.view.project) BY <2>4, <2>6, FilteredSessions
  <2>9. OneEach(rows, DOMAIN filtered.view.project) BY <2>6, <2>8, RowsAre
  <2>10. logs = Feeds[view.feed].cold \o Feeds[view.feed].hot BY <2>1, <2>2 DEF LogsOfFeed
  <2>11. TabShows(filtered.view, Feeds[view.feed].cold \o Feeds[view.feed].hot, activeTab)
    BY <2>6, <2>7, <2>10
  <2> QED BY <2>9, <2>11, Zenon DEF OneEach, TabExact
<1> QED BY <1>1, DashInvariant, ScreenInvariant, PTL

-----------------------------------------------------------------------------
(* The widget and the dashboard together *)

\* Neither part can tell that the other is there.
LEMMA DesktopParts == DesktopSpec => WidgetSpec /\ DashSpec
<1>1. DesktopInit => WidgetInit /\ DashInit BY DEF DesktopInit
<1>2. [WidgetStep \/ DashStep]_<<widgetVars, dashVars>>
      => [WidgetNext]_widgetVars /\ [DashNext]_dashVars
  BY DEF WidgetStep, DashStep
<1> QED BY <1>1, <1>2, PTL DEF DesktopSpec, WidgetSpec, DashSpec

\* Type correctness of what the user sees, whichever of the two windows, in whichever
\* order, the events are for.
THEOREM DesktopTypeCorrect == DesktopSpec => []DesktopTypeOK
<1>1. WidgetTypeOK /\ DashTypeOK => DesktopTypeOK BY DEF DesktopTypeOK
<1> QED BY <1>1, DesktopParts, WidgetTypeCorrect, DashTypeCorrect, PTL
=============================================================================
