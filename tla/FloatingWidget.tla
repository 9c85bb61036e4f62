--------------------------- MODULE FloatingWidget ---------------------------
(***************************************************************************)
(* The floating widget of src/main.rs: a badge that snaps to an edge of    *)
(* the monitor, hides there but for a handle, shows itself while the       *)
(* cursor is over it, and expands on a click.                              *)
(*                                                                         *)
(* The event loop is one thread, so each handler is one action: the window *)
(* events, the raw mouse motion of device_event, the menu entry that shows *)
(* and hides the window, and about_to_wait, which looks at the hover       *)
(* timers and moves the animation on.  Timers have no clock here: one that *)
(* is set may be found expired at any later about_to_wait, or at none.     *)
(*                                                                         *)
(* Assumed of the window system: there is a monitor, which holds the       *)
(* expanded widget; a button pressed over the window is released to it;    *)
(* the menu is used with the cursor off the widget.                        *)
(***************************************************************************)
EXTENDS Integers, FiniteSets

CONSTANTS
    MonitorW, MonitorH,   \* the monitor's size; its corner is <<0, 0>>
    Handle, Badge,        \* the short and the long side of a snapped widget
    ExpandedW, ExpandedH,
    SnapDistance,         \* closer than this to an edge a dropped widget snaps
    InitialPos,           \* where the window is created
    Reach                 \* the bound: where a drag may take the window

ASSUME WidgetAssumption ==
    /\ {MonitorW, MonitorH, Handle, Badge, ExpandedW, ExpandedH, SnapDistance} \subseteq Nat
    /\ ExpandedW <= MonitorW /\ ExpandedH <= MonitorH
    /\ Reach \cup {InitialPos} \subseteq Int \X Int

VARIABLES
    floating,    \* floating_window and floating_visible: "none", "shown", "hidden"
    state,       \* widget_state
    previous,    \* previous_state, "none" while not expanded
    pos, size,   \* what the window system has: the window's place and kind of size
    anim,        \* resize_animation, NoAnim or its start, target and target size
    hoverStart,  \* hover_start_time is set
    hoverOff,    \* hover_off_time is set
    over,        \* the cursor is over the window
    mouseDown,   \* is_mouse_down
    dragging,    \* drag_active
    tooltip      \* there is a tooltip window

hoverVars  == <<hoverStart, hoverOff>>
mouseVars  == <<mouseDown, dragging>>
layoutVars == <<state, previous, pos, size, anim>>
widgetVars == <<floating, layoutVars, hoverVars, over, mouseVars, tooltip>>

Snapped == {"left", "right", "top"}
States  == Snapped \cup {"badge", "expanded"}
Sizes   == {"handle", "badge", "expanded"}
NoAnim  == [target |-> <<>>]

WidgetInit ==
    /\ floating = "none" /\ state = "badge" /\ previous = "none"
    /\ pos = InitialPos /\ size = "badge" /\ anim = NoAnim
    /\ hoverStart = FALSE /\ hoverOff = FALSE /\ over = FALSE
    /\ mouseDown = FALSE /\ dragging = FALSE /\ tooltip = FALSE

-----------------------------------------------------------------------------
(* Layouts and the animation towards one *)

\* get_snapped_layout: at the edge, but for the other coordinate where it is now.
SnappedLayout(s, p) ==
    CASE s = "left"  -> [pos |-> <<0, p[2]>>, size |-> "handle"]
      [] s = "right" -> [pos |-> <<MonitorW - Handle, p[2]>>, size |-> "handle"]
      [] s = "top"   -> [pos |-> <<p[1], 0>>, size |-> "handle"]
      [] s = "badge" -> [pos |-> p, size |-> "badge"]

\* get_revealed_layout, of a snapped state.
RevealedLayout(s, p) ==
    CASE s = "left"  -> [pos |-> <<0, p[2]>>, size |-> "badge"]
      [] s = "right" -> [pos |-> <<MonitorW - Badge, p[2]>>, size |-> "badge"]
      [] s = "top"   -> [pos |-> <<p[1], 0>>, size |-> "badge"]

\* clamp_position
Clamp(v, lo, hi) == IF v < lo THEN lo ELSE IF v > hi THEN hi ELSE v
ExpandedLayout(p) ==
    [pos  |-> <<Clamp(p[1], 0, MonitorW - ExpandedW), Clamp(p[2], 0, MonitorH - ExpandedH)>>,
     size |-> "expanded"]

\* start_resize_animation
Towards(layout) == [start |-> pos, target |-> layout.pos, size |-> layout.size]

\* The points of an animation, which goes straight from its start to its target.
Interval(a, b) == IF a <= b THEN a .. b ELSE b .. a
OnTheWay(a) ==
    {p \in Interval(a.start[1], a.target[1]) \X Interval(a.start[2], a.target[2]) :
        \E n \in 1 .. MonitorW + MonitorH : \E t \in 0 .. n : \A i \in {1, 2} :
            p[i] = a.start[i] + ((a.target[i] - a.start[i]) * t) \div n}

\* Where a drop leaves the widget: the edges in the order they are tried.
Distance(a, b) == IF a <= b THEN b - a ELSE a - b
DroppedAt(p) ==
    IF Distance(p[1], 0) < SnapDistance THEN "left"
    ELSE IF Distance(p[1] + Badge, MonitorW) < SnapDistance THEN "right"
    ELSE IF Distance(p[2], 0) < SnapDistance THEN "top"
    ELSE "badge"

-----------------------------------------------------------------------------
(* The handlers *)

\* toggle_floating_window: creates the window, which may fail, or hides or shows it.
Toggle ==
    /\ ~over /\ ~mouseDown
    /\ \/ /\ floating = "none"
          /\ floating' \in {"none", "shown"}
          /\ state' = IF floating' = "shown" THEN "badge" ELSE state
       \/ /\ floating # "none"
          /\ floating' = IF floating = "shown" THEN "hidden" ELSE "shown"
          /\ UNCHANGED state
    /\ UNCHANGED <<previous, pos, size, anim, hoverVars, over, mouseVars, tooltip>>

\* The tooltip's window may fail to be created.
CursorEntered ==
    /\ floating = "shown" /\ ~over
    /\ over' = TRUE
    /\ hoverStart' = TRUE /\ hoverOff' = FALSE
    /\ tooltip' \in IF state = "expanded" THEN {tooltip} ELSE {tooltip, TRUE}
    /\ UNCHANGED <<floating, layoutVars, mouseVars>>

\* A variation of CursorLeft, the timer of the reveal left running: HidesAgain.
CursorLeftKeepsStart ==
    /\ over
    /\ over' = FALSE
    /\ hoverOff' = TRUE
    /\ tooltip' = FALSE
    /\ UNCHANGED <<floating, layoutVars, hoverStart, mouseVars>>

CursorLeft ==
    /\ over
    /\ over' = FALSE
    /\ hoverStart' = FALSE /\ hoverOff' = TRUE
    /\ tooltip' = FALSE
    /\ UNCHANGED <<floating, layoutVars, mouseVars>>

\* A press on the widget; on the expanded one only the close box does something.
Press ==
    /\ over /\ ~mouseDown /\ state # "expanded"
    /\ mouseDown' = TRUE /\ dragging' = FALSE
    /\ hoverStart' = FALSE /\ hoverOff' = FALSE
    /\ UNCHANGED <<floating, layoutVars, over, tooltip>>

\* device_event: more than a few pixels of motion make a press a drag.
Drag ==
    /\ mouseDown
    /\ dragging' = TRUE
    /\ pos' \in Reach
    /\ UNCHANGED <<floating, state, previous, size, anim, hoverVars, over, mouseDown, tooltip>>

Drop ==
    /\ mouseDown /\ dragging
    /\ mouseDown' = FALSE /\ dragging' = FALSE
    /\ state' = DroppedAt(pos)
    /\ anim' = Towards(SnappedLayout(state', pos))
    /\ UNCHANGED <<floating, previous, pos, size, hoverVars, over, tooltip>>

\* A variation of Click, the tooltip left over the expanded widget: DesktopTypeOK.
ClickKeepsTooltip ==
    /\ mouseDown /\ ~dragging
    /\ mouseDown' = FALSE
    /\ previous' = state
    /\ state' = "expanded"
    /\ anim' = Towards(ExpandedLayout(pos))
    /\ UNCHANGED <<floating, pos, size, hoverVars, over, dragging, tooltip>>

\* A release without a drag.
Click ==
    /\ mouseDown /\ ~dragging
    /\ mouseDown' = FALSE
    /\ tooltip' = FALSE
    /\ previous' = state
    /\ state' = "expanded"
    /\ anim' = Towards(ExpandedLayout(pos))
    /\ UNCHANGED <<floating, pos, size, hoverVars, over, dragging>>

\* A variation of Collapse, the state before taken as the layout only: Settled.
CollapseToBadge ==
    /\ state = "expanded"
    /\ state' = previous
    /\ previous' = "none"
    /\ anim' = Towards(SnappedLayout("badge", pos))
    /\ UNCHANGED <<floating, pos, size, hoverVars, over, mouseVars, tooltip>>

\* collapse_widget, when the focus or a press on the close box ends the expansion.
Collapse ==
    /\ state = "expanded"
    /\ state' = previous
    /\ previous' = "none"
    /\ anim' = Towards(SnappedLayout(previous, pos))
    /\ UNCHANGED <<floating, pos, size, hoverVars, over, mouseVars, tooltip>>

\* step_resize_animation: the target once the time is up, a point before it until then.
StepAnimation(a, done) ==
    IF a = NoAnim THEN anim' = a /\ UNCHANGED <<pos, size>>
    ELSE IF done THEN anim' = NoAnim /\ pos' = a.target /\ size' = a.size
    ELSE anim' = a /\ pos' \in OnTheWay(a) /\ UNCHANGED size

\* about_to_wait: an expired hover timer starts an animation, and a running one
\* moves on; one started here has no time behind it yet.
AboutToWait ==
    /\ floating = "shown"
    /\ \/ /\ state \in Snapped /\ hoverStart
          /\ hoverStart' = FALSE
          /\ anim' = Towards(RevealedLayout(state, pos))
          /\ UNCHANGED <<hoverOff, pos, size>>
       \/ /\ state # "expanded" /\ hoverOff
          /\ hoverOff' = FALSE
          /\ anim' = Towards(SnappedLayout(state, pos))
          /\ UNCHANGED <<hoverStart, pos, size>>
       \/ /\ UNCHANGED hoverVars
          /\ \E done \in BOOLEAN : StepAnimation(anim, done)
    /\ UNCHANGED <<floating, state, previous, over, mouseVars, tooltip>>

WidgetNext ==
    \/ Toggle \/ CursorEntered \/ CursorLeft
    \/ Press \/ Drag \/ Drop \/ Click \/ Collapse
    \/ AboutToWait

WidgetSpec == WidgetInit /\ [][WidgetNext]_widgetVars

-----------------------------------------------------------------------------
(* Properties *)

\* Each variable keeps to its values, and they agree: an expanded widget, and no
\* other, has a state to go back to, a drag has a button that is down, and the
\* tooltip is there only over a widget on the screen that is not expanded.
WidgetTypeOK ==
    /\ floating \in {"none", "shown", "hidden"} /\ state \in States
    /\ previous \in Snapped \cup {"badge", "none"}
    /\ pos \in Int \X Int /\ size \in Sizes
    /\ anim = NoAnim \/ (anim.size \in Sizes /\ {anim.start, anim.target} \subseteq Int \X Int)
    /\ {hoverStart, hoverOff, over, mouseDown, dragging, tooltip} \subseteq BOOLEAN
    /\ state = "expanded" <=> previous # "none"
    /\ dragging => mouseDown
    /\ tooltip => over /\ floating = "shown" /\ state # "expanded"

\* However drags, clicks, timers and animations ran into one another, a widget at
\* rest lies where its state says: snapped at its edge as a handle or revealed,
\* a badge in a badge's size, the expanded one whole on the monitor.
Settled ==
    (anim = NoAnim /\ ~mouseDown) =>
        CASE state = "left"  -> size \in {"handle", "badge"} /\ pos[1] = 0
          [] state = "right" -> \/ size = "handle" /\ pos[1] = MonitorW - Handle
                                \/ size = "badge"  /\ pos[1] = MonitorW - Badge
          [] state = "top"   -> size \in {"handle", "badge"} /\ pos[2] = 0
          [] state = "badge" -> size = "badge"
          [] state = "expanded" ->
                /\ size = "expanded"
                /\ pos[1] \in 0 .. MonitorW - ExpandedW
                /\ pos[2] \in 0 .. MonitorH - ExpandedH

\* A snapped widget that is revealed, or on its way to be, with the cursor gone
\* and no button down has its return pending: no order of timers and events
\* leaves it out on the screen.
HidesAgain ==
    (/\ state \in Snapped /\ ~over /\ ~mouseDown
     /\ IF anim = NoAnim THEN size = "badge" ELSE anim.size = "badge")
    => hoverOff
=============================================================================
