------------------------------ MODULE MCPlanner ------------------------------
EXTENDS Planner

\* Task 2 takes no time, task 3 has no weight, tasks 2 and 3 come first.
MCDuration(id) == <<2, 0, 1>>[id]
MCWeight(id) == <<2, 1, 0>>[id]
MCPriority(id) == <<1, 0, 0>>[id]

Symmetry == Permutations(Nodes)
=============================================================================
