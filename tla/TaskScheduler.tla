---------------------------- MODULE TaskScheduler ----------------------------
(***************************************************************************)
(* The planner's schedules (internal/planner/scheduler/scheduler.go): lists *)
(* of tasks, from a NEIR model by DefaultScheduler.Schedule or put together *)
(* by a caller, and what is computed from a list: validation, levels of a  *)
(* DAG, a critical path, batches.  A list may hold a task twice, unknown   *)
(* dependencies and cycles.  Task IDs are numbers; orders in which the code *)
(* ranges over a map are parameters.                                       *)
(***************************************************************************)
EXTENDS TaskLevels, Integers, Sequences, SequencesExt, FiniteSets, FiniteSetsExt, TLC, Relation

CONSTANTS TaskIDs,                \* numbers, as sort.Strings orders them
          Duration(_), Weight(_), Priority(_),   \* of the task with this ID
          Capacity,               \* ResourceAwareStrategy.Capacity
          MaxTasks, MaxParts      \* bounds: tasks of a list; modules, services

VARIABLE tasks
Task == [id : TaskIDs, deps : SUBSET TaskIDs]

SchedulerInit == tasks = <<>>

\* A caller puts a list together.
AddTask(t) == Len(tasks) < MaxTasks /\ tasks' = Append(tasks, t)

SchedulerNext == \E t \in Task : AddTask(t)

ListOrder(ts) == [i \in 1..Len(ts) |-> ts[i].id]
Ascending(S) == SetToSortSeq(S, LAMBDA x, y : x < y)
Children(ts, id) == SelectSeq(ts, LAMBDA t : id \in t.deps)
-----------------------------------------------------------------------------
\* dfsCycle, with the colours of the tasks; found stops the search.
RECURSIVE DfsCycle(_, _, _)
DfsCycle(ts, s, id) ==
    LET Follow(t, child) ==
            IF t.found THEN t
            ELSE IF t.colour[child.id] = "gray" THEN [t EXCEPT !.found = TRUE]
            ELSE IF t.colour[child.id] = "white" THEN DfsCycle(ts, t, child.id) ELSE t
        done == FoldLeft(Follow, [s EXCEPT !.colour[id] = "gray"], Children(ts, id))
    IN  IF done.found THEN done ELSE [done EXCEPT !.colour[id] = "black"]

\* ValidateSchedule, starting the search in the order of the map.
ValidateSchedule(ts, order) ==
    LET Search(s, id) == IF s.found \/ s.colour[id] # "white" THEN s ELSE DfsCycle(ts, s, id)
        white == [found |-> FALSE, colour |-> [id \in IDs(ts) |-> "white"]]
    IN  /\ Cardinality(IDs(ts)) = Len(ts)
        /\ \A t \in ToSet(ts) : t.deps \subseteq IDs(ts)
        /\ ~FoldLeft(Search, white, order).found

\* topologicalOrder of a valid list: the tasks that one releases are queued in
\* the order of their IDs.
TopologicalOrder(ts) ==
    LET round[i \in 0..Len(ts)] ==
            IF i = 0 THEN Ascending({t.id : t \in {u \in ToSet(ts) : u.deps = {}}})
            ELSE LET q == round[i - 1]  done == ToSet(SubSeq(q, 1, i)) IN
                 q \o Ascending({t.id : t \in {u \in ToSet(Children(ts, q[i])) : u.deps \subseteq done}})
    IN  round[Len(ts)]

\* The body of CriticalPath: relax the edges, the sources in this order, and go
\* back from the first task of the list with the largest distance.
Longest(ts, order) ==
    LET Relax(id, s, child) ==
            LET candidate == s.dist[id] + Duration(child.id) IN
            IF candidate <= s.dist[child.id] THEN s
            ELSE [s EXCEPT !.dist[child.id] = candidate, !.pred[child.id] = <<id>>]
        RelaxAll(s, id) == FoldLeft(LAMBDA t, child : Relax(id, t, child), s, Children(ts, id))
        s == FoldLeft(RelaxAll, [dist |-> [id \in IDs(ts) |-> Duration(id)],
                                 pred |-> [id \in IDs(ts) |-> <<>>]], order)
        end == CHOOSE i \in 1..Len(ts) : \A j \in 1..Len(ts) :
                   s.dist[ts[i].id] >= s.dist[ts[j].id] + (IF j < i THEN 1 ELSE 0)
        back[i \in 0..Len(ts)] ==
            IF i = 0 THEN <<ts[end].id>> ELSE s.pred[Head(back[i - 1])] \o back[i - 1]
    IN  back[Len(ts)]

CriticalPath_unsorted(ts) == Longest(ts, ListOrder(ts))   \* Mutant: in the order of the list.

CriticalPath(ts) == Longest(ts, TopologicalOrder(ts))

\* Also TaskGroup.TotalDuration and EstimateDuration, of the critical path.
Total(amounts) == FoldLeft(LAMBDA sum, amount : sum + amount, 0, amounts)

\* ResourceAwareStrategy: a task of weight 0 is a batch of its own, the others
\* are added to a batch as long as the capacity allows; negative weights are 0.
ResourceBatches(ts) ==
    LET sorted == SortSeq(ListOrder(ts), LAMBDA x, y :
                      Priority(x) < Priority(y) \/ (Priority(x) = Priority(y) /\ x < y))
        Close(s) == IF s.group = <<>> THEN s
                    ELSE [groups |-> Append(s.groups, s.group), group |-> <<>>, weight |-> 0]
        Add(s, id) ==
            LET w == IF Weight(id) < 0 THEN 0 ELSE Weight(id)
                room == IF s.weight + w > Capacity THEN Close(s) ELSE s
            IN  IF Weight(id) = 0 THEN [Close(s) EXCEPT !.groups = Append(@, <<id>>)]
                ELSE [room EXCEPT !.group = Append(@, id), !.weight = @ + w]
    IN  Close(FoldLeft(Add, [groups |-> <<>>, group |-> <<>>, weight |-> 0], sorted)).groups
-----------------------------------------------------------------------------
DependsOn(ts) ==
    TransitiveClosure([x, y \in IDs(ts) |-> \E t \in ToSet(ts) : t.id = x /\ y \in t.deps], IDs(ts))

\* ValidateSchedule accepts exactly the lists with distinct IDs, known
\* dependencies and no cycle, whatever task the search starts from.
ValidateExact(ts, depends) ==
    \A order \in SetToSeqs(IDs(ts)) :
        ValidateSchedule(ts, order) <=>
            /\ \A i, j \in 1..Len(ts) : ts[i].id = ts[j].id => i = j
            /\ \A t \in ToSet(ts) : t.deps \subseteq IDs(ts)
            /\ \A id \in IDs(ts) : ~depends[id, id]

\* A task is on a later level than what it depends on, and is missing exactly
\* if it depends on a cycle (nothing tells the caller).
LevelsExact(ts, depends) ==
    LET levels == TopologicalLevels(ts)  Level(id) == {i \in 1..Len(levels) : id \in levels[i]} IN
    \A x \in IDs(ts) :
        /\ IF depends[x, x] \/ \E y \in IDs(ts) : depends[x, y] /\ depends[y, y]
           THEN Level(x) = {} ELSE Cardinality(Level(x)) = 1
        /\ \A y \in IDs(ts) : depends[x, y] => \A i \in Level(x), j \in Level(y) : j < i

\* The critical path is a chain of dependencies, and no chain takes longer.
CriticalPathExact(ts) ==
    LET Chain(c) == IsInjective(c) /\ \A i \in 2..Len(c) :
                        \E t \in ToSet(ts) : t.id = c[i] /\ c[i - 1] \in t.deps
        Time(c) == Total([i \in 1..Len(c) |-> Duration(c[i])])
    IN  Chain(CriticalPath(ts)) /\
        \A c \in UNION {[1..k -> IDs(ts)] : k \in 1..Len(ts)} :
            Chain(c) => Time(c) <= Time(CriticalPath(ts))

\* The batches hold every task of the list once, and more than the capacity
\* only if one task alone does.
BatchesExact(ts) ==
    LET batches == ResourceBatches(ts)
        Load(batch) == Total([i \in 1..Len(batch) |-> Weight(batch[i])])
    IN
    /\ \A id \in IDs(ts) :
           Len(SelectSeq(FlattenSeq(batches), LAMBDA x : x = id)) =
           Len(SelectSeq(ts, LAMBDA t : t.id = id))
    /\ \A i \in 1..Len(batches) :
           Len(batches[i]) > 1 => Load(batches[i]) <= Capacity

\* The pipeline's own schedules are valid, and their levels put the
\* configuration last but for the validation of the output.
PipelineScheduleValid ==
    \A modules, services \in 0..MaxParts :
        LET ts == Schedule(modules, services) IN
        ValidateSchedule(ts, ListOrder(ts)) /\ ConfigurationLast(modules, services)

\* What is computed from a list of tasks agrees with its definition, for lists
\* with repeated tasks, unknown dependencies and cycles too; an empty list has
\* neither a path nor batches.
SchedulesExact ==
    /\ PipelineScheduleValid
    /\ tasks # <<>> =>
        LET depends == DependsOn(tasks) IN
        /\ ValidateExact(tasks, depends) /\ BatchesExact(tasks)
        /\ LevelsExact(tasks, depends) /\ LevelsOrdered(tasks)
        /\ ValidateSchedule(tasks, SetToSeq(IDs(tasks))) => CriticalPathExact(tasks)
=============================================================================
