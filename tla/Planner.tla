------------------------------- MODULE Planner -------------------------------
(***************************************************************************)
(* The planner: its graphs and its schedules.  Neither reads the other, so *)
(* graphs are built next to an empty list of tasks, and lists next to an   *)
(* empty graph.                                                            *)
(***************************************************************************)
EXTENDS PlannerGraph, TaskScheduler

vars == <<graphVars, tasks>>

Init == GraphInit /\ SchedulerInit

Next ==
    \/ GraphNext /\ tasks = <<>> /\ UNCHANGED tasks
    \/ SchedulerNext /\ nodes = {} /\ UNCHANGED graphVars

Spec == Init /\ [][Next]_vars
=============================================================================
