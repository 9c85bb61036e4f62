------------------------------- MODULE Desktop -------------------------------
(***************************************************************************)
(* What the user sees: the floating widget and the dashboard.  Both live   *)
(* on one thread and share no state: an event is handled by the one or by  *)
(* the other, and the tasks that feed the dashboard leave the widget alone.*)
(***************************************************************************)
EXTENDS FloatingWidget, Dashboard

DesktopInit == WidgetInit /\ DashInit

WidgetStep == WidgetNext /\ UNCHANGED dashVars
DashStep   == DashNext /\ UNCHANGED widgetVars

DesktopSpec == DesktopInit /\ [][WidgetStep \/ DashStep]_<<widgetVars, dashVars>>

\* Type invariant: each variable of the two keeps to its values.
DesktopTypeOK == WidgetTypeOK /\ DashTypeOK
=============================================================================
