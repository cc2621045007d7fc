------------------------------ MODULE TaskLevels ------------------------------
(***************************************************************************)
(* The part of the planner's scheduler (internal/planner/scheduler/        *)
(* scheduler.go) that the pipeline runs: the list of tasks for a NEIR      *)
(* model, and the levels of a list, which may be executed in parallel.  A  *)
(* list may hold a task twice, unknown dependencies and cycles.            *)
(***************************************************************************)
EXTENDS Integers, Sequences, SequencesExt

IDs(ts) == {t.id : t \in ToSet(ts)}

TaskOf(id, deps) == [id |-> id, deps |-> deps]

\* DefaultScheduler.Schedule for a model with so many modules and services.
\* Validation and construction of the model and its modules form a chain;
\* services hang on the last module, and without modules are left out.
ChainTasks(modules) ==
    <<TaskOf(0, {}), TaskOf(1, {0})>> \o [i \in 1..modules |-> TaskOf(i + 1, {i})]

ServiceTasks(modules, services) ==
    [i \in 1..(IF modules = 0 THEN 0 ELSE services) |->
         TaskOf(modules + 1 + i, {modules + 1})]

\* The configuration depends on the last of these; the validation of the output
\* depends on nothing.
Schedule(modules, services) ==
    LET parts == ChainTasks(modules) \o ServiceTasks(modules, services)
        k == Len(parts)
    IN  parts \o IF modules + services = 0 THEN <<TaskOf(k, {})>>
                 ELSE <<TaskOf(k, {k - 1}), TaskOf(k + 1, {})>>

\* nodesFromTasks and buildDAG: one node per ID, with an incoming edge for what
\* any task of this ID depends on, but for dependencies that are not in the
\* list.  What has no incoming edge left is the next level.
Released(ts, rest) ==
    {id \in rest : \A t \in ToSet(ts) : t.id = id => t.deps \cap rest = {}}

\* One round of topologicalLevels; without a level the loop ends, and what is
\* left is dropped.
NextLevel(ts, s) ==
    IF Released(ts, s.rest) = {} THEN s
    ELSE [rest |-> s.rest \ Released(ts, s.rest),
          levels |-> Append(s.levels, Released(ts, s.rest))]

TopologicalLevels(ts) ==
    LET round[i \in 0..Len(ts)] ==
            IF i = 0 THEN [rest |-> IDs(ts), levels |-> <<>>] ELSE NextLevel(ts, round[i - 1])
    IN  round[Len(ts)].levels
-----------------------------------------------------------------------------
\* The levels of any list: no task is on two of them; on an earlier level than
\* a task is all that it depends on and the list holds, and right before it
\* something of it, so that no task waits needlessly; and a task is missing
\* only if it depends on a missing one.
LevelsOrdered(ts) ==
    LET levels == TopologicalLevels(ts)  n == Len(levels)  On == UNION {levels[i] : i \in 1..n} IN
    /\ On \subseteq IDs(ts)
    /\ \A i, j \in 1..n : i # j => levels[i] \cap levels[j] = {}
    /\ \A i \in 1..n, t \in ToSet(ts) : t.id \in levels[i] =>
           \A d \in t.deps \cap IDs(ts) : \E j \in 1..(i - 1) : d \in levels[j]
    /\ \A i \in 2..n, id \in IDs(ts) : id \in levels[i] =>
           \E t \in ToSet(ts) : t.id = id /\ t.deps \cap levels[i - 1] # {}
    /\ \A id \in IDs(ts) \ On : \E t \in ToSet(ts) : t.id = id /\ t.deps \cap (IDs(ts) \ On) # {}

\* The levels of the pipeline's own list put the configuration after every
\* module and service, although it depends on the last one only.
ConfigurationLast(modules, services) ==
    LET ts == Schedule(modules, services)
        levels == TopologicalLevels(ts)
        config == Len(ts) - 2
    IN  modules + services > 0 =>
            \E i \in 1..Len(levels) :
                /\ config \in levels[i]
                /\ \A id \in 0..(config - 1) : \E j \in 1..(i - 1) : id \in levels[j]
=============================================================================
