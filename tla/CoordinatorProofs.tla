------------------------- MODULE CoordinatorProofs -------------------------
(***************************************************************************)
(* For any number of tasks and workers, any priorities, retries, channel   *)
(* capacity and any calls of Stop and Drain: no task is lost or answered   *)
(* twice, the metrics settle, only a misused coordinator panics, and the   *)
(* coordinator implements the safety part of TaskService.                  *)
(***************************************************************************)
EXTENDS Coordinator, FiniteSetTheorems, TLAPS

Stages == {"pop", "wait", "popped", "check", "execute", "backoff", "finish", "send", "exited"}
Holding == {"popped", "check", "execute", "backoff", "finish", "send"}

\* The results in a log, whether a task has one, and whether it has only one.
ResultsIn(s) == {s[i] : i \in DOMAIN s}
In(s, t) == \E r \in ResultsIn(s) : r.task = t
Distinct(s) == \A i, j \in DOMAIN s : s[i].task = s[j].task => i = j

Held(t) == \E w \in Workers : task[w] = t
Answered(t) == In(resultCh, t) \/ In(collected, t)

\* The types the arguments need; a worker has a task exactly in mid-loop.
CoordinatorTypeOK ==
    /\ submit \in [Tasks -> {"new", "pushed", "done"}]
    /\ queue \subseteq Tasks /\ dropped \subseteq Tasks
    /\ resultCh \in Seq(Result) /\ collected \in Seq(Result)
    /\ pc \in [Workers -> Stages] /\ task \in [Workers -> Tasks \cup {NoTask}]
    /\ result \in [Workers -> Outcomes]
    /\ closer \in [Closers -> {"idle", "flagged", "waiting", "done"}]
    /\ metrics \in [submitted : Nat, completed : Nat, failed : Nat, retried : Nat]
    /\ \A w \in Workers : task[w] # NoTask <=> pc[w] \in Holding

\* A task is somewhere once it is pushed, and in one place only.
PlaceInv ==
    /\ \A t \in Tasks :
         submit[t] # "new" <=> t \in queue \/ t \in dropped \/ Held(t) \/ Answered(t)
    /\ \A t \in Tasks :
         /\ t \in queue => t \notin dropped /\ ~Held(t) /\ ~Answered(t)
         /\ t \in dropped => ~Held(t) /\ ~Answered(t)
         /\ Held(t) => ~Answered(t)
         /\ In(resultCh, t) => ~In(collected, t)
    /\ \A w, x \in Workers : task[w] = task[x] /\ task[w] # NoTask => w = x
    /\ Distinct(resultCh) /\ Distinct(collected)

\* What the metrics count: finished submissions, and tasks whose executions
\* ended with a result or with their last failure.
Submitted == {t \in Tasks : submit[t] = "done"}
Final == {"ok", "failed"}
Ended(t) == \E w \in Workers : task[w] = t /\ pc[w] \in {"finish", "send"} /\ result[w] \in Final
FinalIn(s, t) == \E r \in ResultsIn(s) : r.task = t /\ r.outcome \in Final
Counted == {t \in Tasks : Ended(t) \/ FinalIn(resultCh, t) \/ FinalIn(collected, t)}

\* Other outcomes, and tasks given up, need a closer or the end of the context.
Excused(outcome) == outcome \notin Final => draining \/ ctxDone

SubmittedInv == IsFiniteSet(Submitted) /\ metrics.submitted = Cardinality(Submitted)
CountedInv ==
    IsFiniteSet(Counted) /\ metrics.completed + metrics.failed = Cardinality(Counted)
ExcuseInv ==
    /\ dropped # {} => draining
    /\ \A w \in Workers : pc[w] \in {"finish", "send"} => Excused(result[w])
    /\ \A r \in ResultsIn(resultCh) \cup ResultsIn(collected) : Excused(r.outcome)

\* Callers that keep the rules: one closer, after the submissions; a closed
\* channel has been closed by it, resultCh after every worker has left.
ClosingInv ==
    ~misused =>
      /\ ~panicked
      /\ Closing => \A t \in Tasks : submit[t] # "pushed"
      /\ \A j, k \in Closers : closer[j] # "idle" /\ closer[k] # "idle" => j = k
      /\ notifyClosed => \E k \in Closers : closer[k] \in {"waiting", "done"}
      /\ resultClosed => /\ \E k \in Closers : closer[k] = "done"
                         /\ \A w \in Workers : pc[w] = "exited"

CoordinatorInv ==
    CoordinatorTypeOK /\ PlaceInv /\ SubmittedInv /\ CountedInv /\ ExcuseInv /\ ClosingInv
-----------------------------------------------------------------------------
\* A result sent is added to the log, which stays free of duplicates when its
\* task has none yet.
LEMMA AppendResult ==
    ASSUME NEW s \in Seq(Result), NEW r \in Result
    PROVE  /\ Append(s, r) \in Seq(Result)
           /\ ResultsIn(Append(s, r)) = ResultsIn(s) \cup {r}
           /\ Distinct(s) /\ ~In(s, r.task) => Distinct(Append(s, r))
<1> DEFINE new == Append(s, r)
<1>1. /\ Len(s) \in Nat /\ DOMAIN s = 1 .. Len(s)
      /\ new \in Seq(Result) /\ DOMAIN new = 1 .. (Len(s) + 1)
      /\ \A i \in 1 .. Len(s) : new[i] = s[i]
      /\ new[Len(s) + 1] = r
    OBVIOUS
<1> HIDE DEF new
<1>2. \A i \in DOMAIN new : i \in DOMAIN s \/ i = Len(s) + 1
    BY <1>1
<1>3. Len(s) + 1 \in DOMAIN new /\ DOMAIN s \subseteq DOMAIN new
    BY <1>1
<1>4. ResultsIn(new) = ResultsIn(s) \cup {r}
    BY <1>1, <1>2, <1>3 DEF ResultsIn
<1>5. ASSUME Distinct(s), ~In(s, r.task) PROVE Distinct(new)
    BY <1>1, <1>2, <1>5 DEF Distinct, In, ResultsIn
<1>6. QED
    BY <1>1, <1>4, <1>5 DEF new

\* Reading takes the first result out of the log.
LEMMA TakeResult ==
    ASSUME NEW s \in Seq(Result), s # <<>>
    PROVE  /\ Head(s) \in Result /\ Tail(s) \in Seq(Result)
           /\ ResultsIn(s) = ResultsIn(Tail(s)) \cup {Head(s)}
           /\ Distinct(s) => Distinct(Tail(s)) /\ ~In(Tail(s), Head(s).task)
<1> DEFINE rest == Tail(s)
<1>1. /\ Len(s) \in Nat \ {0} /\ DOMAIN s = 1 .. Len(s) /\ Head(s) = s[1]
      /\ rest \in Seq(Result) /\ DOMAIN rest = 1 .. (Len(s) - 1)
      /\ \A i \in 1 .. (Len(s) - 1) : rest[i] = s[i + 1]
    OBVIOUS
<1>2. s[1] \in Result
    BY <1>1
<1> HIDE DEF rest
<1>3. \A i \in DOMAIN rest : i + 1 \in DOMAIN s /\ rest[i] = s[i + 1]
    BY <1>1
<1>4. \A i \in DOMAIN s : i = 1 \/ (i - 1 \in DOMAIN rest /\ rest[i - 1] = s[i])
    BY <1>1
<1>5. 1 \in DOMAIN s
    BY <1>1
<1>6. ResultsIn(s) = ResultsIn(rest) \cup {s[1]}
    BY <1>3, <1>4, <1>5 DEF ResultsIn
<1>7. ASSUME Distinct(s) PROVE Distinct(rest) /\ ~In(rest, s[1].task)
  <2>1. \A i, j \in DOMAIN rest : rest[i].task = rest[j].task => i + 1 = j + 1
      BY <1>3, <1>7 DEF Distinct
  <2>2. \A i \in DOMAIN rest : i + 1 # 1
      BY <1>1
  <2>3. Distinct(rest)
      BY <1>1, <2>1 DEF Distinct
  <2>4. \A i \in DOMAIN rest : rest[i].task # s[1].task
      BY <1>3, <1>5, <1>7, <2>2 DEF Distinct
  <2>5. QED
      BY <2>3, <2>4 DEF In, ResultsIn
<1>8. QED
    BY <1>1, <1>2, <1>6, <1>7 DEF rest

\* The empty log has no result.
LEMMA EmptyLog ==
    <<>> \in Seq(Result) /\ ResultsIn(<<>>) = {} /\ Distinct(<<>>) /\ \A t : ~In(<<>>, t)
BY DEF ResultsIn, Distinct, In
-----------------------------------------------------------------------------
\* The steps as their effect on a task's place and on the counts.
Quiet == UNCHANGED <<queue, dropped, task, resultCh, collected>>

\* A counter goes up and the others stay.
LEMMA CountUp ==
    ASSUME CoordinatorTypeOK
    PROVE  /\ Count("submitted") =>
                /\ metrics' \in [submitted : Nat, completed : Nat, failed : Nat, retried : Nat]
                /\ metrics'.submitted = metrics.submitted + 1
                /\ metrics'.completed = metrics.completed /\ metrics'.failed = metrics.failed
           /\ Count("completed") =>
                /\ metrics' \in [submitted : Nat, completed : Nat, failed : Nat, retried : Nat]
                /\ metrics'.submitted = metrics.submitted
                /\ metrics'.completed = metrics.completed + 1 /\ metrics'.failed = metrics.failed
           /\ Count("retried") =>
                /\ metrics' \in [submitted : Nat, completed : Nat, failed : Nat, retried : Nat]
                /\ metrics'.submitted = metrics.submitted
                /\ metrics'.completed = metrics.completed /\ metrics'.failed = metrics.failed
BY DEF CoordinatorTypeOK, Count

\* A failed attempt counts as a retry, the last one also as a failed task.
LEMMA FailureCounted ==
    ASSUME CoordinatorTypeOK, NEW w \in Workers, ExecuteFails(w)
    PROVE  /\ metrics' \in [submitted : Nat, completed : Nat, failed : Nat, retried : Nat]
           /\ metrics'.submitted = metrics.submitted /\ metrics'.completed = metrics.completed
           /\ metrics'.failed = IF attempt[w] < MaxAttempts(task[w])
                                THEN metrics.failed ELSE metrics.failed + 1
<1>1. CASE attempt[w] < MaxAttempts(task[w])
    BY <1>1, CountUp DEF ExecuteFails
<1>2. CASE ~(attempt[w] < MaxAttempts(task[w]))
  <2>1. metrics' = [metrics EXCEPT !.retried = @ + 1, !.failed = @ + 1]
      BY <1>2 DEF ExecuteFails
  <2>2. metrics \in [submitted : Nat, completed : Nat, failed : Nat, retried : Nat]
      BY DEF CoordinatorTypeOK
  <2>3. /\ metrics' \in [submitted : Nat, completed : Nat, failed : Nat, retried : Nat]
        /\ metrics'.submitted = metrics.submitted /\ metrics'.completed = metrics.completed
        /\ metrics'.failed = metrics.failed + 1
    <3> DEFINE a == metrics.retried + 1
               b == metrics.failed + 1
    <3>1. a \in Nat /\ b \in Nat
        BY <2>2
    <3>2. metrics' = [metrics EXCEPT !.retried = a, !.failed = b]
        BY <2>1
    <3> HIDE DEF a
    <3>3. QED
        BY <2>2, <3>1, <3>2
  <2>4. QED
      BY <1>2, <2>3
<1>3. QED
    BY <1>1, <1>2

\* Init is well typed.
LEMMA CoordinatorInitType == Init => CoordinatorTypeOK
BY EmptyLog DEF Init, CoordinatorTypeOK, Stages, Holding, Outcomes

\* A worker that goes on with its task keeps the types.
LEMMA LocalStep ==
    ASSUME CoordinatorTypeOK, NEW w \in Workers, NEW p \in Holding, NEW o \in Outcomes,
           pc[w] \in Holding, pc' = [pc EXCEPT ![w] = p], result' = [result EXCEPT ![w] = o],
           metrics' \in [submitted : Nat, completed : Nat, failed : Nat, retried : Nat],
           UNCHANGED <<submit, queue, dropped, resultCh, collected, closer, task>>
    PROVE  CoordinatorTypeOK'
<1>1. pc' \in [Workers -> Stages] /\ \A x \in Workers : pc'[x] \in Holding <=> pc[x] \in Holding
    BY DEF CoordinatorTypeOK, Stages, Holding
<1>2. result' \in [Workers -> Outcomes]
    BY DEF CoordinatorTypeOK
<1>3. \A x \in Workers : task'[x] # NoTask <=> pc'[x] \in Holding
    BY <1>1 DEF CoordinatorTypeOK
<1>4. QED
    BY <1>1, <1>2, <1>3 DEF CoordinatorTypeOK

\* The steps of a worker keep the types.
LEMMA WorkerType ==
    ASSUME CoordinatorTypeOK, NEW w \in Workers, WorkerStep(w)
    PROVE  CoordinatorTypeOK'
<1>0. /\ \A x \in Workers : result[x] \in Outcomes /\ result = [result EXCEPT ![x] = result[x]]
      /\ metrics \in [submitted : Nat, completed : Nat, failed : Nat, retried : Nat]
      /\ {"ok", "failed", "draining", "cancelled"} \subseteq Outcomes
    BY DEF CoordinatorTypeOK, Outcomes
<1> USE CoordinatorAssumption DEF CoordinatorTypeOK, Moves, Stages, Holding
<1>1. CASE PopTask(w)
    BY <1>1 DEF PopTask, Front
<1>2. CASE FindEmpty(w)
    BY <1>2 DEF FindEmpty
<1>3. CASE Wake(w)
  <2>1. /\ pc[w] \notin Holding /\ \E p \in Stages \ Holding : pc' = [pc EXCEPT ![w] = p]
        /\ UNCHANGED <<submit, queue, dropped, resultCh, collected, closer, task, result, metrics>>
      BY <1>3 DEF Wake
  <2>2. PICK p \in Stages \ Holding : pc' = [pc EXCEPT ![w] = p]
      BY <2>1
  <2>3. pc' \in [Workers -> Stages] /\ \A x \in Workers : pc'[x] \in Holding <=> pc[x] \in Holding
      BY <2>1, <2>2
  <2>4. \A x \in Workers : task'[x] # NoTask <=> pc'[x] \in Holding
      BY <2>1, <2>3
  <2>5. QED
      BY <2>1, <2>3, <2>4
<1>4. CASE Admit(w)
  <2>1. task[w] \in Tasks
      BY <1>4 DEF Admit
  <2>2. CASE draining
    <3>1. /\ pc' = [pc EXCEPT ![w] = "exited"] /\ task' = [task EXCEPT ![w] = NoTask]
          /\ result' = [result EXCEPT ![w] = "ok"] /\ dropped' = dropped \cup {task[w]}
          /\ UNCHANGED <<submit, queue, resultCh, collected, closer, metrics>>
        BY <1>4, <2>2 DEF Admit, Release
    <3>2. \A x \in Workers : task'[x] # NoTask <=> pc'[x] \in Holding
        BY <3>1
    <3>3. QED
        BY <2>1, <3>1, <3>2 DEF Outcomes
  <2>3. CASE ~draining
      BY <1>4, <2>1, <2>3 DEF Admit
  <2>4. QED
      BY <2>2, <2>3
<1>5. CASE CheckDraining(w)
  <2>1. \E p \in Holding, o \in Outcomes :
          pc[w] \in Holding /\ pc' = [pc EXCEPT ![w] = p] /\ result' = [result EXCEPT ![w] = o]
      BY <1>0, <1>5 DEF CheckDraining
  <2>2. UNCHANGED <<submit, queue, dropped, resultCh, collected, closer, task, metrics>>
      BY <1>5 DEF CheckDraining
  <2> HIDE DEF CoordinatorTypeOK, Stages, Holding
  <2>3. QED
      BY <1>0, <2>1, <2>2, LocalStep
<1>6. CASE ExecuteSucceeds(w)
  <2>1. metrics' \in [submitted : Nat, completed : Nat, failed : Nat, retried : Nat]
      BY <1>0, <1>6, CountUp DEF ExecuteSucceeds
  <2>2. \E p \in Holding, o \in Outcomes :
          pc[w] \in Holding /\ pc' = [pc EXCEPT ![w] = p] /\ result' = [result EXCEPT ![w] = o]
      BY <1>0, <1>6 DEF ExecuteSucceeds
  <2>3. UNCHANGED <<submit, queue, dropped, resultCh, collected, closer, task>>
      BY <1>6 DEF ExecuteSucceeds
  <2> HIDE DEF CoordinatorTypeOK, Stages, Holding
  <2>4. QED
      BY <2>1, <2>2, <2>3, LocalStep
<1>7. CASE ExecuteFails(w)
  <2>1. metrics' \in [submitted : Nat, completed : Nat, failed : Nat, retried : Nat]
      BY <1>7, FailureCounted
  <2>2. \E p \in Holding, o \in Outcomes :
          pc[w] \in Holding /\ pc' = [pc EXCEPT ![w] = p] /\ result' = [result EXCEPT ![w] = o]
      BY <1>0, <1>7 DEF ExecuteFails
  <2>3. UNCHANGED <<submit, queue, dropped, resultCh, collected, closer, task>>
      BY <1>7 DEF ExecuteFails
  <2> HIDE DEF CoordinatorTypeOK, Stages, Holding
  <2>4. QED
      BY <2>1, <2>2, <2>3, LocalStep
<1>8. CASE EndBackoff(w)
  <2>1. \E p \in Holding, o \in Outcomes :
          pc[w] \in Holding /\ pc' = [pc EXCEPT ![w] = p] /\ result' = [result EXCEPT ![w] = o]
      BY <1>0, <1>8 DEF EndBackoff
  <2>2. UNCHANGED <<submit, queue, dropped, resultCh, collected, closer, task, metrics>>
      BY <1>8 DEF EndBackoff
  <2> HIDE DEF CoordinatorTypeOK, Stages, Holding
  <2>3. QED
      BY <1>0, <2>1, <2>2, LocalStep
<1>9. CASE FinishTask(w)
  <2>1. \E p \in Holding, o \in Outcomes :
          pc[w] \in Holding /\ pc' = [pc EXCEPT ![w] = p] /\ result' = [result EXCEPT ![w] = o]
      BY <1>0, <1>9 DEF FinishTask
  <2>2. UNCHANGED <<submit, queue, dropped, resultCh, collected, closer, task, metrics>>
      BY <1>9 DEF FinishTask
  <2> HIDE DEF CoordinatorTypeOK, Stages, Holding
  <2>3. QED
      BY <1>0, <2>1, <2>2, LocalStep
<1>10. CASE SendResult(w)
  <2>1. CASE resultClosed
      BY <1>10, <2>1 DEF SendResult, workerVars
  <2>2. CASE ~resultClosed
    <3>1. pc[w] = "send" /\ task[w] \in Tasks /\ result[w] \in Outcomes
        BY <1>10, <2>2 DEF SendResult
    <3> DEFINE r == [task |-> task[w], outcome |-> result[w]]
    <3>2. r \in Result /\ resultCh' = Append(resultCh, r)
        BY <1>10, <2>2, <3>1 DEF Result, SendResult
    <3> HIDE DEF r
    <3>3. resultCh' \in Seq(Result)
        BY <3>2
    <3>4. /\ pc' = [pc EXCEPT ![w] = "pop"] /\ task' = [task EXCEPT ![w] = NoTask]
          /\ result' = [result EXCEPT ![w] = "ok"]
          /\ UNCHANGED <<submit, queue, dropped, collected, closer, metrics>>
        BY <1>10, <2>2 DEF SendResult, Release
    <3>5. \A x \in Workers : task'[x] # NoTask <=> pc'[x] \in Holding
        BY <3>4
    <3>6. /\ pc' \in [Workers -> Stages] /\ task' \in [Workers -> Tasks \cup {NoTask}]
          /\ result' \in [Workers -> Outcomes]
        BY <1>0, <3>4
    <3>7. QED
        BY <3>3, <3>4, <3>5, <3>6
  <2>3. QED
      BY <2>1, <2>2
<1>11. QED
    BY <1>1, <1>2, <1>3, <1>4, <1>5, <1>6, <1>7, <1>8, <1>9, <1>10 DEF WorkerStep

\* So do the callers of the coordinator.
LEMMA CallerType ==
    ASSUME CoordinatorTypeOK,
           \/ Collect \/ CancelContext \/ Finished \/ UNCHANGED vars
           \/ \E t \in Tasks : Submission(t)
           \/ \E k \in Closers : SetDraining(k) \/ Closure(k)
    PROVE  CoordinatorTypeOK'
<1> USE CoordinatorAssumption DEF CoordinatorTypeOK, workerVars
<1>1. CASE Collect
  <2>1. Head(resultCh) \in Result /\ resultCh' \in Seq(Result)
      BY <1>1, TakeResult DEF Collect
  <2>2. collected' \in Seq(Result)
      BY <1>1, <2>1, AppendResult DEF Collect
  <2>3. QED
      BY <1>1, <2>1, <2>2 DEF Collect
<1>2. CASE CancelContext \/ Finished \/ UNCHANGED vars
    BY <1>2 DEF CancelContext, Finished, vars
<1>3. ASSUME NEW t \in Tasks, PushTask(t) PROVE CoordinatorTypeOK'
    BY <1>3 DEF PushTask, Closing
<1>4. ASSUME NEW t \in Tasks, NotifyWorkers(t) PROVE CoordinatorTypeOK'
    BY <1>4, CountUp DEF NotifyWorkers
<1>5. ASSUME NEW k \in Closers, SetDraining(k) PROVE CoordinatorTypeOK'
    BY <1>5 DEF SetDraining, Closing
<1>6. ASSUME NEW k \in Closers, CloseNotify(k) PROVE CoordinatorTypeOK'
    BY <1>6 DEF CloseNotify
<1>7. ASSUME NEW k \in Closers, CloseResults(k) PROVE CoordinatorTypeOK'
    BY <1>7 DEF CloseResults
<1>8. QED
    BY <1>1, <1>2, <1>3, <1>4, <1>5, <1>6, <1>7 DEF Submission, Closure
-----------------------------------------------------------------------------
\* The steps that move a task, by what they change.
Pushes(t) ==
    /\ submit[t] = "new" /\ submit' = [submit EXCEPT ![t] = "pushed"]
    /\ queue' = queue \cup {t} /\ UNCHANGED <<dropped, task, resultCh, collected>>
Takes(w, t) ==
    /\ t \in queue /\ queue' = queue \ {t}
    /\ task[w] = NoTask /\ task' = [task EXCEPT ![w] = t]
    /\ UNCHANGED <<submit, dropped, resultCh, collected>>
Drops(w) ==
    /\ task[w] \in Tasks /\ task' = [task EXCEPT ![w] = NoTask]
    /\ dropped' = dropped \cup {task[w]} /\ draining
    /\ UNCHANGED <<submit, queue, resultCh, collected>>
Answers(w) ==
    /\ task[w] \in Tasks /\ task' = [task EXCEPT ![w] = NoTask]
    /\ [task |-> task[w], outcome |-> result[w]] \in Result
    /\ resultCh' = Append(resultCh, [task |-> task[w], outcome |-> result[w]])
    /\ UNCHANGED <<submit, queue, dropped, collected>>
Reads ==
    /\ resultCh # <<>>
    /\ collected' = Append(collected, Head(resultCh)) /\ resultCh' = Tail(resultCh)
    /\ UNCHANGED <<submit, queue, dropped, task>>
Stays ==
    /\ Quiet /\ \A t \in Tasks : submit'[t] = "new" <=> submit[t] = "new"

\* Every step of the coordinator is one of these.
LEMMA StepKinds ==
    ASSUME CoordinatorTypeOK, [Next]_vars
    PROVE  \/ Stays \/ Reads
           \/ \E t \in Tasks : Pushes(t)
           \/ \E w \in Workers : Drops(w) \/ Answers(w) \/ \E t \in Tasks : Takes(w, t)
<1> USE CoordinatorAssumption DEF CoordinatorTypeOK
<1>1. ASSUME NEW w \in Workers, WorkerStep(w)
      PROVE  Stays \/ Drops(w) \/ Answers(w) \/ \E t \in Tasks : Takes(w, t)
  <2>1. CASE PopTask(w)
      BY <2>1 DEF PopTask, Moves, Front, Takes, Holding
  <2>2. CASE Admit(w)
    <3>1. CASE draining
      <4>1. task[w] \in Tasks
          BY <2>2, <3>1 DEF Admit, Moves, Holding
      <4>2. QED
          BY <2>2, <3>1, <4>1 DEF Admit, Release, Drops
    <3>2. CASE ~draining
        BY <2>2, <3>2 DEF Admit, Stays, Quiet
    <3>3. QED
        BY <3>1, <3>2
  <2>3. CASE SendResult(w)
    <3>1. CASE resultClosed
        BY <2>3, <3>1 DEF SendResult, workerVars, Stays, Quiet
    <3>2. CASE ~resultClosed
      <4>1. task[w] \in Tasks /\ result[w] \in Outcomes
          BY <2>3, <3>2 DEF SendResult, Moves, Holding
      <4>2. QED
          BY <2>3, <3>2, <4>1 DEF SendResult, Release, Answers, Result
    <3>3. QED
        BY <3>1, <3>2
  <2>4. QED
      BY <1>1, <2>1, <2>2, <2>3 DEF WorkerStep, Stays, Quiet, FindEmpty, Wake, CheckDraining,
              ExecuteSucceeds, ExecuteFails, EndBackoff, FinishTask
<1>2. CASE Collect
    BY <1>2 DEF Collect, Reads, workerVars
<1>3. CASE CancelContext \/ Finished \/ UNCHANGED vars
    BY <1>3 DEF CancelContext, Finished, vars, workerVars, Stays, Quiet
<1>4. ASSUME NEW t \in Tasks, Submission(t) PROVE Stays \/ Pushes(t)
  <2>1. CASE PushTask(t)
      BY <2>1 DEF PushTask, Pushes, workerVars
  <2>2. CASE NotifyWorkers(t)
      BY <2>2 DEF NotifyWorkers, Stays, Quiet, workerVars
  <2>3. QED
      BY <1>4, <2>1, <2>2 DEF Submission
<1>5. ASSUME NEW k \in Closers, SetDraining(k) \/ Closure(k) PROVE Stays
    BY <1>5 DEF SetDraining, Closure, CloseNotify, CloseResults, Stays, Quiet, workerVars
<1>6. QED
    BY <1>1, <1>2, <1>3, <1>4, <1>5 DEF Next

\* Init has every task new and nowhere.
LEMMA PlaceInit == Init => PlaceInv
<1> SUFFICES ASSUME Init PROVE PlaceInv
    OBVIOUS
<1>1. \A t \in Tasks : ~Held(t) /\ ~Answered(t)
    BY EmptyLog, CoordinatorAssumption DEF Init, Held, Answered
<1>2. QED
    BY <1>1, EmptyLog DEF Init, PlaceInv

\* A task that is handed over leaves the place it was in.
LEMMA PlaceStep ==
    ASSUME CoordinatorTypeOK, PlaceInv, [Next]_vars
    PROVE  PlaceInv'
<1> USE CoordinatorAssumption
<1>1. CASE Stays
    BY <1>1 DEF Stays, Quiet, PlaceInv, Held, Answered, In, ResultsIn, Distinct
<1>2. ASSUME NEW t \in Tasks, Pushes(t) PROVE PlaceInv'
  <2>1. t \notin queue /\ t \notin dropped /\ ~Held(t) /\ ~Answered(t)
      BY <1>2 DEF Pushes, PlaceInv
  <2>2. /\ \A u : Held(u)' <=> Held(u)
        /\ \A u : Answered(u)' <=> Answered(u)
        /\ \A u : In(resultCh, u)' <=> In(resultCh, u)
        /\ \A u : In(collected, u)' <=> In(collected, u)
        /\ Distinct(resultCh)' <=> Distinct(resultCh)
        /\ Distinct(collected)' <=> Distinct(collected)
      BY <1>2 DEF Pushes, Held, Answered, In, ResultsIn, Distinct
  <2>3. \A u \in Tasks : submit'[u] = IF u = t THEN "pushed" ELSE submit[u]
      BY <1>2 DEF Pushes, CoordinatorTypeOK
  <2>4. QED
      BY <1>2, <2>1, <2>2, <2>3 DEF Pushes, PlaceInv
<1>3. ASSUME NEW w \in Workers, NEW t \in Tasks, Takes(w, t) PROVE PlaceInv'
  <2>1. /\ \A u : Answered(u)' <=> Answered(u)
        /\ \A u : In(resultCh, u)' <=> In(resultCh, u)
        /\ \A u : In(collected, u)' <=> In(collected, u)
        /\ Distinct(resultCh)' <=> Distinct(resultCh)
        /\ Distinct(collected)' <=> Distinct(collected)
      BY <1>3 DEF Takes, Answered, In, ResultsIn, Distinct
  <2>2. \A x \in Workers : task'[x] = IF x = w THEN t ELSE task[x]
      BY <1>3 DEF Takes, CoordinatorTypeOK
  <2>3. \A u \in Tasks : Held(u)' <=> Held(u) \/ u = t
      BY <1>3, <2>2 DEF Takes, Held
  <2>4. t \in queue /\ t \notin dropped /\ ~Held(t) /\ ~Answered(t)
      BY <1>3 DEF Takes, PlaceInv
  <2>5. \A x, y \in Workers : task'[x] = task'[y] /\ task'[x] # NoTask => x = y
      BY <2>2, <2>4 DEF PlaceInv, Held
  <2>6. QED
      BY <1>3, <2>1, <2>3, <2>4, <2>5 DEF Takes, PlaceInv
<1>4. ASSUME NEW w \in Workers, Drops(w) PROVE PlaceInv'
  <2>1. /\ \A u : Answered(u)' <=> Answered(u)
        /\ \A u : In(resultCh, u)' <=> In(resultCh, u)
        /\ \A u : In(collected, u)' <=> In(collected, u)
        /\ Distinct(resultCh)' <=> Distinct(resultCh)
        /\ Distinct(collected)' <=> Distinct(collected)
      BY <1>4 DEF Drops, Answered, In, ResultsIn, Distinct
  <2>2. \A x \in Workers : task'[x] = IF x = w THEN NoTask ELSE task[x]
      BY <1>4 DEF Drops, CoordinatorTypeOK
  <2>3. \A u \in Tasks : Held(u)' <=> Held(u) /\ u # task[w]
      BY <1>4, <2>2 DEF Drops, Held, PlaceInv
  <2>4. Held(task[w]) /\ task[w] \in Tasks
      BY <1>4 DEF Drops, Held
  <2>5. \A x, y \in Workers : task'[x] = task'[y] /\ task'[x] # NoTask => x = y
      BY <2>2 DEF PlaceInv
  <2>6. QED
      BY <1>4, <2>1, <2>3, <2>4, <2>5 DEF Drops, PlaceInv
<1>5. ASSUME NEW w \in Workers, Answers(w) PROVE PlaceInv'
  <2> DEFINE r == [task |-> task[w], outcome |-> result[w]]
  <2>1. r \in Result /\ r.task = task[w] /\ resultCh' = Append(resultCh, r)
      BY <1>5 DEF Answers
  <2> HIDE DEF r
  <2>2. Held(task[w]) /\ task[w] \in Tasks
      BY <1>5 DEF Answers, Held
  <2>3. ~Answered(task[w])
      BY <2>2 DEF PlaceInv
  <2>4. ResultsIn(resultCh') = ResultsIn(resultCh) \cup {r} /\ Distinct(resultCh')
      BY <2>1, <2>3, AppendResult DEF PlaceInv, CoordinatorTypeOK, Answered
  <2>5. /\ \A u : In(resultCh, u)' <=> In(resultCh, u) \/ u = task[w]
        /\ \A u : In(collected, u)' <=> In(collected, u)
        /\ \A u : Answered(u)' <=> Answered(u) \/ u = task[w]
      BY <1>5, <2>1, <2>4 DEF Answers, Answered, In, ResultsIn
  <2>6. \A x \in Workers : task'[x] = IF x = w THEN NoTask ELSE task[x]
      BY <1>5 DEF Answers, CoordinatorTypeOK
  <2>7. \A u \in Tasks : Held(u)' <=> Held(u) /\ u # task[w]
      BY <1>5, <2>6 DEF Answers, Held, PlaceInv
  <2>8. \A x, y \in Workers : task'[x] = task'[y] /\ task'[x] # NoTask => x = y
      BY <2>6 DEF PlaceInv
  <2>9. Distinct(collected)' <=> Distinct(collected)
      BY <1>5 DEF Answers, Distinct
  <2>10. QED
      BY <1>5, <2>2, <2>3, <2>4, <2>5, <2>7, <2>8, <2>9 DEF Answers, PlaceInv, Answered
<1>6. CASE Reads
  <2> DEFINE r == Head(resultCh)
  <2>1. /\ r \in Result /\ resultCh' \in Seq(Result)
        /\ ResultsIn(resultCh) = ResultsIn(resultCh') \cup {r}
        /\ Distinct(resultCh') /\ ~In(resultCh', r.task)
      BY <1>6, TakeResult DEF Reads, PlaceInv, CoordinatorTypeOK
  <2>2. In(resultCh, r.task) /\ r.task \in Tasks
      BY <2>1 DEF In, Result
  <2>3. ~In(collected, r.task)
      BY <2>2 DEF PlaceInv
  <2>4. collected' = Append(collected, r)
      BY <1>6 DEF Reads
  <2> HIDE DEF r
  <2>5. ResultsIn(collected') = ResultsIn(collected) \cup {r} /\ Distinct(collected')
      BY <2>1, <2>3, <2>4, AppendResult DEF PlaceInv, CoordinatorTypeOK
  <2>6. /\ \A u : In(collected', u) <=> In(collected, u) \/ u = r.task
        /\ \A u : In(resultCh, u) <=> In(resultCh', u) \/ u = r.task
      BY <2>1, <2>5 DEF In
  <2>7. /\ \A u : Answered(u)' <=> Answered(u)
        /\ \A u : Held(u)' <=> Held(u)
      BY <1>6, <2>6 DEF Reads, Answered, Held, In, ResultsIn
  <2>8. \A u \in Tasks : In(resultCh', u) => ~In(collected', u)
      BY <2>1, <2>6 DEF PlaceInv
  <2>9. QED
      BY <1>6, <2>1, <2>5, <2>7, <2>8 DEF Reads, PlaceInv
<1>7. QED
    BY <1>1, <1>2, <1>3, <1>4, <1>5, <1>6, StepKinds
-----------------------------------------------------------------------------
\* A log without duplicates has at most one result for a task.
LEMMA OneResult ==
    ASSUME NEW s \in Seq(Result), Distinct(s), NEW t
    PROVE  Cardinality({i \in DOMAIN s : s[i].task = t}) = IF In(s, t) THEN 1 ELSE 0
<1> DEFINE I == {i \in DOMAIN s : s[i].task = t}
<1>1. CASE In(s, t)
  <2>1. PICK i \in DOMAIN s : s[i].task = t
      BY <1>1 DEF In, ResultsIn
  <2>2. I = {i}
      BY <2>1 DEF Distinct
  <2>3. QED
      BY <1>1, <2>2, FS_Singleton
<1>2. CASE ~In(s, t)
  <2>1. I = {}
      BY <1>2 DEF In, ResultsIn
  <2>2. QED
      BY <1>2, <2>1, FS_EmptySet
<1>3. QED
    BY <1>1, <1>2

\* A task is given at most one result.
LEMMA GivenExact ==
    ASSUME CoordinatorTypeOK, PlaceInv, NEW t \in Tasks
    PROVE  Given(t) = IF Answered(t) THEN 1 ELSE 0
<1>1. /\ Cardinality({i \in DOMAIN resultCh : resultCh[i].task = t})
           = IF In(resultCh, t) THEN 1 ELSE 0
      /\ Cardinality({i \in DOMAIN collected : collected[i].task = t})
           = IF In(collected, t) THEN 1 ELSE 0
    BY OneResult DEF CoordinatorTypeOK, PlaceInv
<1>2. In(resultCh, t) => ~In(collected, t)
    BY DEF PlaceInv
<1>3. QED
    BY <1>1, <1>2 DEF Given, Answered

\* The invariant on places is what TaskConserved counts.
LEMMA PlacesExact == CoordinatorTypeOK /\ PlaceInv => TaskConserved
<1> SUFFICES ASSUME CoordinatorTypeOK, PlaceInv, NEW t \in Tasks
             PROVE  Places(t) = IF submit[t] = "new" THEN 0 ELSE 1
    BY DEF TaskConserved
<1>1. Cardinality({w \in Workers : task[w] = t}) = IF Held(t) THEN 1 ELSE 0
  <2>1. CASE Held(t)
    <3>1. PICK w \in Workers : task[w] = t
        BY <2>1 DEF Held
    <3>2. {x \in Workers : task[x] = t} = {w}
        BY <3>1, CoordinatorAssumption DEF PlaceInv
    <3>3. QED
        BY <2>1, <3>2, FS_Singleton
  <2>2. CASE ~Held(t)
    <3>1. {x \in Workers : task[x] = t} = {}
        BY <2>2 DEF Held
    <3>2. QED
        BY <2>2, <3>1, FS_EmptySet
  <2>3. QED
      BY <2>1, <2>2
<1>2. Given(t) = IF Answered(t) THEN 1 ELSE 0
    BY GivenExact
<1>3. /\ submit[t] # "new" <=> t \in queue \/ t \in dropped \/ Held(t) \/ Answered(t)
      /\ t \in queue => t \notin dropped /\ ~Held(t) /\ ~Answered(t)
      /\ t \in dropped => ~Held(t) /\ ~Answered(t)
      /\ Held(t) => ~Answered(t)
    BY DEF PlaceInv
<1>4. QED
    BY <1>1, <1>2, <1>3 DEF Places

\* Types and places hold in every state.
LEMMA PlaceAlways == Spec => [](CoordinatorTypeOK /\ PlaceInv)
<1>1. CoordinatorTypeOK /\ [Next]_vars => CoordinatorTypeOK'
    BY WorkerType, CallerType DEF Next
<1>2. CoordinatorTypeOK /\ PlaceInv /\ [Next]_vars => (CoordinatorTypeOK /\ PlaceInv)'
    BY <1>1, PlaceStep
<1>3. Init => CoordinatorTypeOK /\ PlaceInv
    BY CoordinatorInitType, PlaceInit
<1>4. QED
    BY <1>2, <1>3, PTL DEF Spec

\* A pushed task is queued, run by one worker, answered once or given up, and
\* never two of these (distributed.go).
THEOREM TasksAreConserved == Spec => []TaskConserved
BY PlaceAlways, PlacesExact, PTL
-----------------------------------------------------------------------------
\* Only the end of a submission changes the counter.
LEMMA SubmittedStep ==
    ASSUME CoordinatorTypeOK, SubmittedInv, [Next]_vars
    PROVE  SubmittedInv'
<1>1. ASSUME NEW t \in Tasks, NotifyWorkers(t) PROVE SubmittedInv'
  <2>1. Submitted' = Submitted \cup {t} /\ t \notin Submitted
      BY <1>1 DEF NotifyWorkers, Submitted, CoordinatorTypeOK
  <2>2. metrics'.submitted = metrics.submitted + 1
      BY <1>1, CountUp DEF NotifyWorkers
  <2>3. IsFiniteSet(Submitted') /\ Cardinality(Submitted') = Cardinality(Submitted) + 1
      BY <2>1, FS_AddElement DEF SubmittedInv
  <2>4. QED
      BY <2>2, <2>3 DEF SubmittedInv
<1>2. ASSUME Submitted' = Submitted, metrics'.submitted = metrics.submitted PROVE SubmittedInv'
    BY <1>2 DEF SubmittedInv
<1>3. ASSUME NEW t \in Tasks, PushTask(t) PROVE SubmittedInv'
  <2>1. Submitted' = Submitted /\ metrics' = metrics
      BY <1>3 DEF PushTask, Submitted, CoordinatorTypeOK
  <2>2. QED
      BY <1>2, <2>1
<1>4. ASSUME NEW w \in Workers, WorkerStep(w) PROVE SubmittedInv'
  <2>1. submit' = submit
      BY <1>4 DEF WorkerStep, PopTask, FindEmpty, Wake, Admit, CheckDraining, ExecuteSucceeds,
                  ExecuteFails, EndBackoff, FinishTask, SendResult
  <2>2. metrics'.submitted = metrics.submitted
    <3>1. CASE ExecuteSucceeds(w)
        BY <3>1, CountUp DEF ExecuteSucceeds
    <3>2. CASE ExecuteFails(w)
        BY <3>2, FailureCounted
    <3>3. QED
        BY <1>4, <3>1, <3>2 DEF WorkerStep, PopTask, FindEmpty, Wake, Admit, CheckDraining,
                  EndBackoff, FinishTask, SendResult
  <2>3. Submitted' = Submitted
      BY <2>1 DEF Submitted
  <2>4. QED
      BY <1>2, <2>2, <2>3
<1>5. ASSUME UNCHANGED <<submit, metrics>> PROVE SubmittedInv'
    BY <1>2, <1>5 DEF Submitted
<1>6. QED
    BY <1>1, <1>3, <1>4, <1>5 DEF Next, Submission, Closure, Collect, CancelContext, Finished,
                              vars, SetDraining, CloseNotify, CloseResults

\* A worker that ends an execution counts a task that was not counted.
LEMMA EndsOnce ==
    ASSUME CoordinatorTypeOK, PlaceInv, CountedInv, NEW w \in Workers,
           pc[w] = "execute", pc' = [pc EXCEPT ![w] = "finish"],
           NEW o \in Final, result' = [result EXCEPT ![w] = o],
           UNCHANGED <<task, resultCh, collected>>,
           metrics'.completed + metrics'.failed = metrics.completed + metrics.failed + 1
    PROVE  CountedInv'
<1>1. task[w] \in Tasks /\ Held(task[w])
    BY DEF CoordinatorTypeOK, Holding, Held
<1>2. \A u \in Tasks : Ended(u)' <=> Ended(u) \/ u = task[w]
    BY <1>1, CoordinatorAssumption DEF Ended, CoordinatorTypeOK, PlaceInv
<1>3. ~Ended(task[w])
    BY <1>1, CoordinatorAssumption DEF Ended, PlaceInv
<1>4. ~FinalIn(resultCh, task[w]) /\ ~FinalIn(collected, task[w])
    BY <1>1 DEF FinalIn, PlaceInv, Answered, In
<1>5. Counted' = Counted \cup {task[w]} /\ task[w] \notin Counted
    BY <1>1, <1>2, <1>3, <1>4 DEF Counted, FinalIn, ResultsIn
<1>6. IsFiniteSet(Counted') /\ Cardinality(Counted') = Cardinality(Counted) + 1
    BY <1>5, FS_AddElement DEF CountedInv
<1>7. QED
    BY <1>6 DEF CountedInv

\* No other step changes the set of counted tasks.
LEMMA CountedStep ==
    ASSUME CoordinatorTypeOK, PlaceInv, CountedInv, [Next]_vars
    PROVE  CountedInv'
<1> USE CoordinatorAssumption
<1>1. ASSUME Counted' = Counted, metrics'.completed = metrics.completed,
             metrics'.failed = metrics.failed
      PROVE  CountedInv'
    BY <1>1 DEF CountedInv
<1>2. ASSUME NEW w \in Workers, WorkerStep(w) PROVE CountedInv'
  <2>1. ASSUME UNCHANGED <<resultCh, collected>>,
               metrics'.completed = metrics.completed, metrics'.failed = metrics.failed,
               \A u \in Tasks : Ended(u)' <=> Ended(u)
        PROVE  CountedInv'
    <3>1. Counted' = Counted
        BY <2>1 DEF Counted, FinalIn, ResultsIn
    <3>2. QED
        BY <1>1, <2>1, <3>1
  <2>2. ASSUME pc[w] \notin {"finish", "send"}, pc'[w] \notin {"finish", "send"},
               \A x \in Workers : x # w =>
                  pc'[x] = pc[x] /\ task'[x] = task[x] /\ result'[x] = result[x]
        PROVE  \A u \in Tasks : Ended(u)' <=> Ended(u)
      BY <2>2 DEF Ended
  <2>3. CASE PopTask(w)
    <3>1. /\ pc[w] \notin {"finish", "send"} /\ pc'[w] \notin {"finish", "send"}
          /\ \A x \in Workers : x # w =>
                  pc'[x] = pc[x] /\ task'[x] = task[x] /\ result'[x] = result[x]
        BY <2>3 DEF PopTask, Moves, CoordinatorTypeOK
    <3>2. QED
        BY <2>1, <2>2, <2>3, <3>1 DEF PopTask
  <2>4. CASE FindEmpty(w)
    <3>1. /\ pc[w] \notin {"finish", "send"} /\ pc'[w] \notin {"finish", "send"}
          /\ \A x \in Workers : x # w =>
                  pc'[x] = pc[x] /\ task'[x] = task[x] /\ result'[x] = result[x]
        BY <2>4 DEF FindEmpty, Moves, CoordinatorTypeOK
    <3>2. QED
        BY <2>1, <2>2, <2>4, <3>1 DEF FindEmpty
  <2>5. CASE Wake(w)
    <3>1. /\ pc[w] \notin {"finish", "send"} /\ pc'[w] \notin {"finish", "send"}
          /\ \A x \in Workers : x # w =>
                  pc'[x] = pc[x] /\ task'[x] = task[x] /\ result'[x] = result[x]
        BY <2>5 DEF Wake, Moves, CoordinatorTypeOK
    <3>2. QED
        BY <2>1, <2>2, <2>5, <3>1 DEF Wake
  <2>6. CASE Admit(w)
    <3>1. /\ pc[w] \notin {"finish", "send"} /\ pc'[w] \notin {"finish", "send"}
          /\ \A x \in Workers : x # w =>
                  pc'[x] = pc[x] /\ task'[x] = task[x] /\ result'[x] = result[x]
        BY <2>6 DEF Admit, Moves, Release, CoordinatorTypeOK
    <3>2. QED
        BY <2>1, <2>2, <2>6, <3>1 DEF Admit
  <2>7. CASE CheckDraining(w)
    <3>1. \A u \in Tasks : Ended(u)' <=> Ended(u)
        BY <2>7 DEF CheckDraining, Moves, CoordinatorTypeOK, Ended, Final
    <3>2. QED
        BY <2>1, <2>7, <3>1 DEF CheckDraining
  <2>8. CASE ExecuteSucceeds(w)
    <3>1. metrics'.completed + metrics'.failed = metrics.completed + metrics.failed + 1
        BY <2>8, CountUp DEF ExecuteSucceeds, CoordinatorTypeOK
    <3>2. QED
        BY <2>8, <3>1, EndsOnce DEF ExecuteSucceeds, Moves, Final
  <2>9. CASE ExecuteFails(w)
    <3>1. CASE attempt[w] < MaxAttempts(task[w])
      <4>1. metrics'.completed = metrics.completed /\ metrics'.failed = metrics.failed
          BY <2>9, <3>1, FailureCounted
      <4>2. \A u \in Tasks : Ended(u)' <=> Ended(u)
          BY <2>9, <3>1 DEF ExecuteFails, Moves, CoordinatorTypeOK, Ended
      <4>3. QED
          BY <2>1, <2>9, <4>1, <4>2 DEF ExecuteFails
    <3>2. CASE ~(attempt[w] < MaxAttempts(task[w]))
      <4>1. metrics'.completed + metrics'.failed = metrics.completed + metrics.failed + 1
          BY <2>9, <3>2, FailureCounted DEF CoordinatorTypeOK
      <4>2. QED
          BY <2>9, <3>2, <4>1, EndsOnce DEF ExecuteFails, Moves, Final
    <3>3. QED
        BY <3>1, <3>2
  <2>10. CASE EndBackoff(w)
    <3>1. \A u \in Tasks : Ended(u)' <=> Ended(u)
        BY <2>10 DEF EndBackoff, Moves, CoordinatorTypeOK, Ended, Final
    <3>2. QED
        BY <2>1, <2>10, <3>1 DEF EndBackoff
  <2>11. CASE FinishTask(w)
    <3>1. \A u \in Tasks : Ended(u)' <=> Ended(u)
        BY <2>11 DEF FinishTask, Moves, CoordinatorTypeOK, Ended
    <3>2. QED
        BY <2>1, <2>11, <3>1 DEF FinishTask
  <2>12. CASE SendResult(w)
    <3>1. CASE resultClosed
        BY <2>1, <2>12, <3>1 DEF SendResult, workerVars, Ended
    <3>2. CASE ~resultClosed
      <4> DEFINE r == [task |-> task[w], outcome |-> result[w]]
      <4>1. /\ pc[w] = "send" /\ task[w] \in Tasks /\ r \in Result
            /\ r.task = task[w] /\ r.outcome = result[w]
            /\ resultCh' = Append(resultCh, r) /\ collected' = collected
            /\ metrics' = metrics
          BY <2>12, <3>2 DEF SendResult, Moves, CoordinatorTypeOK, Holding, Result
      <4> HIDE DEF r
      <4>2. ResultsIn(resultCh') = ResultsIn(resultCh) \cup {r}
          BY <4>1, AppendResult DEF CoordinatorTypeOK
      <4>3. \A u \in Tasks : FinalIn(resultCh', u) <=>
                FinalIn(resultCh, u) \/ (u = task[w] /\ result[w] \in Final)
          BY <4>1, <4>2 DEF FinalIn
      <4>4. \A u \in Tasks : Ended(u)' <=> Ended(u) /\ u # task[w]
        <5>1. \A x \in Workers : x # w =>
                pc'[x] = pc[x] /\ task'[x] = task[x] /\ result'[x] = result[x]
            BY <2>12, <3>2 DEF SendResult, Moves, Release, CoordinatorTypeOK
        <5>2. task'[w] = NoTask
            BY <2>12, <3>2 DEF SendResult, Release, CoordinatorTypeOK
        <5>3. QED
            BY <4>1, <5>1, <5>2 DEF PlaceInv, Ended
      <4>5. Ended(task[w]) <=> result[w] \in Final
          BY <4>1 DEF Ended, PlaceInv
      <4>6. Counted' = Counted
          BY <4>1, <4>3, <4>4, <4>5 DEF Counted, FinalIn, ResultsIn
      <4>7. QED
          BY <1>1, <4>1, <4>6
    <3>3. QED
        BY <3>1, <3>2
  <2>13. QED
      BY <1>2, <2>3, <2>4, <2>5, <2>6, <2>7, <2>8, <2>9, <2>10, <2>11, <2>12 DEF WorkerStep
<1>3. CASE Collect
  <2> DEFINE r == Head(resultCh)
  <2>1. /\ r \in Result /\ ResultsIn(resultCh) = ResultsIn(resultCh') \cup {r}
        /\ collected' = Append(collected, r)
      BY <1>3, TakeResult DEF Collect, CoordinatorTypeOK
  <2> HIDE DEF r
  <2>2. ResultsIn(collected') = ResultsIn(collected) \cup {r}
      BY <2>1, AppendResult DEF CoordinatorTypeOK
  <2>3. \A u : Ended(u)' <=> Ended(u)
      BY <1>3 DEF Collect, workerVars, Ended
  <2>4. \A u : FinalIn(resultCh', u) \/ FinalIn(collected', u)
                 <=> FinalIn(resultCh, u) \/ FinalIn(collected, u)
      BY <2>1, <2>2 DEF FinalIn
  <2>5. Counted' = Counted
      BY <2>3, <2>4 DEF Counted
  <2>6. QED
      BY <1>1, <1>3, <2>5 DEF Collect
<1>4. ASSUME NEW t \in Tasks, NotifyWorkers(t) PROVE CountedInv'
  <2>1. Counted' = Counted
      BY <1>4 DEF NotifyWorkers, workerVars, Counted, Ended, FinalIn, ResultsIn
  <2>2. metrics'.completed = metrics.completed /\ metrics'.failed = metrics.failed
      BY <1>4, CountUp DEF NotifyWorkers
  <2>3. QED
      BY <1>1, <2>1, <2>2
<1>5. ASSUME UNCHANGED <<workerVars, resultCh, collected, metrics>> PROVE CountedInv'
  <2>1. Counted' = Counted
      BY <1>5 DEF workerVars, Counted, Ended, FinalIn, ResultsIn
  <2>2. QED
      BY <1>1, <1>5, <2>1
<1>6. QED
    BY <1>2, <1>3, <1>4, <1>5 DEF Next, Submission, PushTask, Closure, CancelContext, Finished,
                              vars, SetDraining, CloseNotify, CloseResults

\* A worker gives an outcome other than ok or failed, and drops a task, only
\* when it has seen the draining flag or the end of the context.
LEMMA ExcuseStep ==
    ASSUME CoordinatorTypeOK, ExcuseInv, [Next]_vars
    PROVE  ExcuseInv'
<1> USE CoordinatorAssumption
<1>1. (draining => draining') /\ (ctxDone => ctxDone')
  <2>1. ASSUME NEW w \in Workers, WorkerStep(w) PROVE UNCHANGED <<draining, ctxDone>>
      BY <2>1 DEF WorkerStep, PopTask, FindEmpty, Wake, Admit, CheckDraining, ExecuteSucceeds,
                  ExecuteFails, EndBackoff, FinishTask, SendResult
  <2>2. ASSUME NEW t \in Tasks, Submission(t) PROVE UNCHANGED <<draining, ctxDone>>
      BY <2>2 DEF Submission, PushTask, NotifyWorkers
  <2>3. ASSUME NEW k \in Closers, SetDraining(k) \/ Closure(k)
        PROVE  (draining' = TRUE \/ draining' = draining) /\ ctxDone' = ctxDone
      BY <2>3 DEF SetDraining, Closure, CloseNotify, CloseResults
  <2> DEFINE Monotone == (draining => draining') /\ (ctxDone => ctxDone')
  <2>4. ASSUME NEW w \in Workers, WorkerStep(w) PROVE Monotone
      BY <2>1, <2>4
  <2>5. ASSUME NEW t \in Tasks, Submission(t) PROVE Monotone
      BY <2>2, <2>5
  <2>6. ASSUME NEW k \in Closers, SetDraining(k) \/ Closure(k) PROVE Monotone
      BY <2>3, <2>6
  <2>7. CASE CancelContext
      BY <2>7 DEF CancelContext
  <2>8. CASE Collect \/ Finished \/ UNCHANGED vars
    <3>1. UNCHANGED <<draining, ctxDone>>
        BY <2>8 DEF Collect, Finished, vars
    <3>2. QED
        BY <3>1
  <2> HIDE DEF Monotone
  <2>9. Monotone
      BY <2>7, <2>4, <2>5, <2>6, <2>8 DEF Next, Monotone
  <2>10. QED
      BY <2>9 DEF Monotone
<1>2. \A o : Excused(o) => Excused(o)'
    BY <1>1 DEF Excused
<1>3. ASSUME UNCHANGED <<resultCh, collected>>, dropped' # {} => draining',
             \A w \in Workers : pc'[w] \in {"finish", "send"} => Excused(result[w])'
      PROVE  ExcuseInv'
    BY <1>2, <1>3 DEF ExcuseInv, ResultsIn, Excused
<1>4. ASSUME NEW w \in Workers, WorkerStep(w) PROVE ExcuseInv'
  <2>1. CASE PopTask(w) \/ FindEmpty(w) \/ Wake(w)
    <3>1. \A x \in Workers : pc'[x] \in {"finish", "send"} => pc'[x] = pc[x] /\ result'[x] = result[x]
        BY <2>1 DEF PopTask, FindEmpty, Wake, Moves, CoordinatorTypeOK
    <3>2. UNCHANGED <<dropped, resultCh, collected>>
        BY <2>1 DEF PopTask, FindEmpty, Wake
    <3>3. QED
        BY <1>1, <1>3, <3>1, <3>2 DEF ExcuseInv, Excused
  <2>2. CASE Admit(w)
    <3>1. \A x \in Workers : pc'[x] \in {"finish", "send"} => pc'[x] = pc[x] /\ result'[x] = result[x]
        BY <2>2 DEF Admit, Release, Moves, CoordinatorTypeOK
    <3>2. UNCHANGED <<draining, ctxDone, resultCh, collected>> /\ (dropped' # dropped => draining)
        BY <2>2 DEF Admit
    <3>3. QED
        BY <1>3, <3>1, <3>2 DEF ExcuseInv, Excused
  <2>3. CASE CheckDraining(w)
    <3>1. UNCHANGED <<draining, ctxDone, dropped, resultCh, collected>>
        BY <2>3 DEF CheckDraining
    <3>2. \A x \in Workers : pc'[x] \in {"finish", "send"} =>
            draining \/ (pc'[x] = pc[x] /\ result'[x] = result[x])
        BY <2>3 DEF CheckDraining, Moves, CoordinatorTypeOK
    <3>3. QED
        BY <1>3, <3>1, <3>2 DEF ExcuseInv, Excused
  <2>4. CASE ExecuteSucceeds(w) \/ ExecuteFails(w)
    <3>1. UNCHANGED <<draining, ctxDone, dropped, resultCh, collected>>
        BY <2>4 DEF ExecuteSucceeds, ExecuteFails
    <3>2. \A x \in Workers : pc'[x] \in {"finish", "send"} =>
            result'[x] \in Final \/ (pc'[x] = pc[x] /\ result'[x] = result[x])
        BY <2>4 DEF ExecuteSucceeds, ExecuteFails, Moves, CoordinatorTypeOK, Final
    <3>3. QED
        BY <1>3, <3>1, <3>2 DEF ExcuseInv, Excused
  <2>5. CASE EndBackoff(w)
    <3>1. UNCHANGED <<draining, ctxDone, dropped, resultCh, collected>>
        BY <2>5 DEF EndBackoff
    <3>2. \A x \in Workers : pc'[x] \in {"finish", "send"} =>
            ctxDone \/ (pc'[x] = pc[x] /\ result'[x] = result[x])
        BY <2>5 DEF EndBackoff, Moves, CoordinatorTypeOK
    <3>3. QED
        BY <1>3, <3>1, <3>2 DEF ExcuseInv, Excused
  <2>6. CASE FinishTask(w)
    <3>1. UNCHANGED <<draining, ctxDone, dropped, resultCh, collected, result>>
        BY <2>6 DEF FinishTask
    <3>2. \A x \in Workers : pc'[x] \in {"finish", "send"} => pc[x] \in {"finish", "send"}
        BY <2>6 DEF FinishTask, Moves, CoordinatorTypeOK
    <3>3. QED
        BY <1>3, <3>1, <3>2 DEF ExcuseInv, Excused
  <2>7. CASE SendResult(w)
    <3>1. CASE resultClosed
        BY <1>3, <2>7, <3>1 DEF SendResult, workerVars, ExcuseInv, Excused
    <3>2. CASE ~resultClosed
      <4> DEFINE r == [task |-> task[w], outcome |-> result[w]]
      <4>1. /\ pc[w] = "send" /\ r \in Result /\ r.outcome = result[w]
            /\ resultCh' = Append(resultCh, r)
            /\ UNCHANGED <<collected, draining, ctxDone, dropped>>
          BY <2>7, <3>2 DEF SendResult, Moves, CoordinatorTypeOK, Holding, Result
      <4> HIDE DEF r
      <4>2. ResultsIn(resultCh') = ResultsIn(resultCh) \cup {r} /\ Excused(r.outcome)
          BY <4>1, AppendResult DEF CoordinatorTypeOK, ExcuseInv
      <4>3. \A x \in Workers : pc'[x] \in {"finish", "send"} => pc'[x] = pc[x] /\ result'[x] = result[x]
          BY <2>7, <3>2 DEF SendResult, Moves, Release, CoordinatorTypeOK
      <4>4. QED
          BY <4>1, <4>2, <4>3 DEF ExcuseInv, Excused, ResultsIn
    <3>3. QED
        BY <3>1, <3>2
  <2>8. QED
      BY <1>4, <2>1, <2>2, <2>3, <2>4, <2>5, <2>6, <2>7 DEF WorkerStep
<1>5. CASE Collect
  <2> DEFINE r == Head(resultCh)
  <2>1. /\ r \in Result /\ ResultsIn(resultCh) = ResultsIn(resultCh') \cup {r}
        /\ collected' = Append(collected, r)
      BY <1>5, TakeResult DEF Collect, CoordinatorTypeOK
  <2> HIDE DEF r
  <2>2. ResultsIn(collected') = ResultsIn(collected) \cup {r}
      BY <2>1, AppendResult DEF CoordinatorTypeOK
  <2>3. UNCHANGED <<dropped, draining, ctxDone, pc, result>>
      BY <1>5 DEF Collect, workerVars
  <2>4. QED
      BY <2>1, <2>2, <2>3 DEF ExcuseInv, Excused
<1>6. ASSUME UNCHANGED <<workerVars, resultCh, collected, dropped>> PROVE ExcuseInv'
    BY <1>1, <1>3, <1>6 DEF ExcuseInv, workerVars, Excused
<1>7. QED
    BY <1>4, <1>5, <1>6 DEF Next, Submission, PushTask, NotifyWorkers, Closure, CancelContext,
                            Finished, vars, SetDraining, CloseNotify, CloseResults

\* The accounts hold in every state.
LEMMA MetricsAlways == Spec => [](SubmittedInv /\ CountedInv /\ ExcuseInv)
<1>1. Init => SubmittedInv /\ CountedInv /\ ExcuseInv
  <2> SUFFICES ASSUME Init PROVE SubmittedInv /\ CountedInv /\ ExcuseInv
      OBVIOUS
  <2>1. Submitted = {} /\ metrics.submitted = 0
      BY DEF Init, Submitted
  <2>2. Counted = {} /\ metrics.completed = 0 /\ metrics.failed = 0
      BY EmptyLog DEF Init, Counted, Ended, FinalIn
  <2>3. ExcuseInv
      BY EmptyLog DEF Init, ExcuseInv
  <2>4. QED
      BY <2>1, <2>2, <2>3, FS_EmptySet DEF SubmittedInv, CountedInv
<1>2. /\ CoordinatorTypeOK /\ PlaceInv /\ SubmittedInv /\ CountedInv /\ ExcuseInv
      /\ [Next]_vars
      => (SubmittedInv /\ CountedInv /\ ExcuseInv)'
    BY SubmittedStep, CountedStep, ExcuseStep
<1>3. QED
    BY <1>1, <1>2, PlaceAlways, PTL DEF Spec

\* Quiet and not closing, the coordinator has counted every submitted task
\* once, as completed or as failed (GetMetrics).
THEOREM MetricsAreExact == Spec => []MetricsSettle
<1>1. CoordinatorTypeOK /\ PlaceInv /\ SubmittedInv /\ CountedInv /\ ExcuseInv => MetricsSettle
  <2> SUFFICES ASSUME CoordinatorTypeOK, PlaceInv, SubmittedInv, CountedInv, ExcuseInv,
                      \A t \in Tasks : submit[t] # "pushed", queue = {},
                      \A w \in Workers : pc[w] = "wait", ~ctxDone, ~draining
               PROVE  metrics.submitted = metrics.completed + metrics.failed
      BY DEF MetricsSettle
  <2>1. \A t \in Tasks : ~Held(t) /\ t \notin dropped
      BY CoordinatorAssumption DEF CoordinatorTypeOK, Holding, Held, ExcuseInv
  <2>2. \A t \in Tasks : submit[t] = "done" <=> Answered(t)
      BY <2>1 DEF PlaceInv, CoordinatorTypeOK
  <2>3. \A t \in Tasks : Answered(t) <=> FinalIn(resultCh, t) \/ FinalIn(collected, t)
      BY DEF Answered, In, FinalIn, ExcuseInv, Excused
  <2>4. \A t \in Tasks : ~Ended(t)
      BY <2>1 DEF Ended, Held
  <2>5. Submitted = Counted
      BY <2>2, <2>3, <2>4 DEF Submitted, Counted
  <2>6. QED
      BY <2>5 DEF SubmittedInv, CountedInv
<1>2. QED
    BY <1>1, PlaceAlways, MetricsAlways, PTL
-----------------------------------------------------------------------------
\* Init has no closer at work.
LEMMA ClosingInit == Init => ClosingInv
BY DEF Init, ClosingInv, Closing

\* The steps of a worker: one that still has a result to deliver has not left,
\* so resultCh is open.
LEMMA ClosingWorker ==
    ASSUME CoordinatorTypeOK, ClosingInv, NEW w \in Workers, WorkerStep(w)
    PROVE  ClosingInv'
<1>1. UNCHANGED <<misused, submit, closer, notifyClosed, resultClosed>>
    BY DEF WorkerStep, PopTask, FindEmpty, Wake, Admit, CheckDraining, ExecuteSucceeds,
           ExecuteFails, EndBackoff, FinishTask, SendResult
<1>2. pc[w] # "exited"
    BY DEF WorkerStep, PopTask, FindEmpty, Wake, Admit, CheckDraining, ExecuteSucceeds,
           ExecuteFails, EndBackoff, FinishTask, SendResult, Moves
<1>3. CASE misused
    BY <1>1, <1>3 DEF ClosingInv
<1>4. CASE ~misused
  <2>1. ~resultClosed
      BY <1>2, <1>4 DEF ClosingInv
  <2>2. panicked' = panicked
      BY <2>1 DEF WorkerStep, PopTask, FindEmpty, Wake, Admit, CheckDraining, ExecuteSucceeds,
             ExecuteFails, EndBackoff, FinishTask, SendResult
  <2>3. QED
      BY <1>1, <1>4, <2>1, <2>2 DEF ClosingInv, Closing
<1>5. QED
    BY <1>3, <1>4

\* The steps of submitters and closers that keep the rules find the channel
\* they use open.
LEMMA ClosingCaller ==
    ASSUME CoordinatorTypeOK, ClosingInv,
           \/ \E t \in Tasks : Submission(t)
           \/ \E k \in Closers : SetDraining(k) \/ Closure(k)
    PROVE  ClosingInv'
<1>1. ASSUME NEW t \in Tasks, PushTask(t) PROVE ClosingInv'
  <2>1. CASE misused \/ Closing
      BY <1>1, <2>1 DEF PushTask, ClosingInv
  <2>2. CASE ~misused /\ ~Closing
    <3>1. \A k \in Closers : closer[k] = "idle"
        BY <2>2 DEF Closing
    <3>2. ~Closing' /\ UNCHANGED <<closer, notifyClosed, resultClosed, panicked>>
        BY <1>1, <2>2 DEF PushTask, Closing
    <3>3. QED
        BY <2>2, <3>1, <3>2 DEF ClosingInv
  <2>3. QED
      BY <2>1, <2>2
<1>2. ASSUME NEW t \in Tasks, NotifyWorkers(t) PROVE ClosingInv'
  <2>1. UNCHANGED <<misused, closer, notifyClosed, resultClosed, pc>>
      BY <1>2 DEF NotifyWorkers, workerVars
  <2>2. CASE misused
      BY <2>1, <2>2 DEF ClosingInv
  <2>3. CASE ~misused
    <3>1. ~Closing
        BY <1>2, <2>3 DEF ClosingInv, NotifyWorkers
    <3>2. ~notifyClosed
        BY <2>3, <3>1 DEF ClosingInv, Closing
    <3>3. panicked' = panicked
        BY <1>2, <3>2 DEF NotifyWorkers
    <3>4. ~Closing'
        BY <2>1, <3>1 DEF Closing
    <3>5. QED
        BY <2>1, <2>3, <3>3, <3>4 DEF ClosingInv
  <2>4. QED
      BY <2>2, <2>3
<1>3. ASSUME NEW k \in Closers, SetDraining(k) PROVE ClosingInv'
  <2>1. CASE misused \/ Closing \/ \E t \in Tasks : submit[t] = "pushed"
      BY <1>3, <2>1 DEF SetDraining, ClosingInv
  <2>2. CASE ~(misused \/ Closing \/ \E t \in Tasks : submit[t] = "pushed")
    <3>1. ~misused /\ (\A j \in Closers : closer[j] = "idle")
          /\ \A t \in Tasks : submit[t] # "pushed"
        BY <2>2 DEF Closing
    <3>2. ~notifyClosed /\ ~resultClosed /\ ~panicked
        BY <3>1 DEF ClosingInv
    <3>3. UNCHANGED <<submit, notifyClosed, resultClosed, panicked>>
        BY <1>3 DEF SetDraining
    <3>4. \A j \in Closers : j # k => closer'[j] = "idle"
        BY <1>3, <3>1 DEF SetDraining, CoordinatorTypeOK
    <3>5. QED
        BY <3>1, <3>2, <3>3, <3>4 DEF ClosingInv
  <2>3. QED
      BY <2>1, <2>2
<1>4. ASSUME NEW k \in Closers, CloseNotify(k) PROVE ClosingInv'
  <2>1. UNCHANGED <<misused, submit, resultClosed, pc>> /\ closer[k] = "flagged"
        /\ closer' = [closer EXCEPT ![k] = "waiting"] /\ panicked' = notifyClosed
      BY <1>4 DEF CloseNotify, workerVars
  <2>2. CASE misused
      BY <2>1, <2>2 DEF ClosingInv
  <2>3. CASE ~misused
    <3>1. \A j \in Closers : j # k => closer[j] = "idle"
        BY <2>1, <2>3 DEF ClosingInv
    <3>2. ~notifyClosed /\ ~resultClosed /\ Closing
        BY <2>1, <2>3, <3>1 DEF ClosingInv, Closing
    <3>3. /\ \A j \in Closers : j # k => closer'[j] = "idle"
          /\ closer'[k] = "waiting"
        BY <2>1, <3>1 DEF CoordinatorTypeOK
    <3>4. QED
        BY <2>1, <2>3, <3>2, <3>3 DEF ClosingInv
  <2>4. QED
      BY <2>2, <2>3
<1>5. ASSUME NEW k \in Closers, CloseResults(k) PROVE ClosingInv'
  <2>1. UNCHANGED <<misused, submit, notifyClosed, pc>> /\ closer[k] = "waiting"
        /\ closer' = [closer EXCEPT ![k] = "done"] /\ panicked' = resultClosed
        /\ \A w \in Workers : pc[w] = "exited"
      BY <1>5 DEF CloseResults, workerVars
  <2>2. CASE misused
      BY <2>1, <2>2 DEF ClosingInv
  <2>3. CASE ~misused
    <3>1. \A j \in Closers : j # k => closer[j] = "idle"
        BY <2>1, <2>3 DEF ClosingInv
    <3>2. ~resultClosed /\ Closing
        BY <2>1, <2>3, <3>1 DEF ClosingInv, Closing
    <3>3. /\ \A j \in Closers : j # k => closer'[j] = "idle"
          /\ closer'[k] = "done"
        BY <2>1, <3>1 DEF CoordinatorTypeOK
    <3>4. QED
        BY <2>1, <2>3, <3>2, <3>3 DEF ClosingInv
  <2>4. QED
      BY <2>2, <2>3
<1>6. QED
    BY <1>1, <1>2, <1>3, <1>4, <1>5 DEF Submission, Closure

\* Only Stop or Drain called twice or amid submissions, or a submission after
\* them, sends on or closes a closed channel (pushTask, Stop, Drain).
THEOREM OnlyMisusePanics == Spec => []NoPanic
<1>1. CoordinatorTypeOK /\ ClosingInv /\ [Next]_vars => ClosingInv'
  <2> SUFFICES ASSUME CoordinatorTypeOK, ClosingInv, [Next]_vars PROVE ClosingInv'
      OBVIOUS
  <2>1. CASE Collect \/ CancelContext \/ Finished \/ UNCHANGED vars
    <3>1. UNCHANGED <<misused, panicked, submit, closer, notifyClosed, resultClosed, pc>>
        BY <2>1 DEF Collect, CancelContext, Finished, vars, workerVars
    <3>2. QED
        BY <3>1 DEF ClosingInv, Closing
  <2>2. QED
      BY <2>1, ClosingWorker, ClosingCaller DEF Next
<1>2. ClosingInv => NoPanic
    BY DEF ClosingInv, NoPanic
<1>3. QED
    BY <1>1, <1>2, ClosingInit, PlaceAlways, PTL DEF Spec
-----------------------------------------------------------------------------
\* The refinement mapping: the answers, the pending tasks and the closing flag
\* of TaskService.
MappedAnswers == [t \in Tasks |-> Given(t)]
MappedPending == queue \cup ({task[w] : w \in Workers} \ {NoTask})
MappedClosing == draining \/ ctxDone

\* The mapping in terms of the places of a task.
MappingInv ==
    /\ MappedAnswers \in [Tasks -> {0, 1}] /\ MappedPending \subseteq Tasks
    /\ \A t \in Tasks : MappedAnswers[t] = 1 <=> Answered(t)
    /\ \A t \in Tasks : t \in MappedPending <=> t \in queue \/ Held(t)

\* A task is answered or pending as its place says.
LEMMA MappingExact == CoordinatorTypeOK /\ PlaceInv => MappingInv
<1> SUFFICES ASSUME CoordinatorTypeOK, PlaceInv PROVE MappingInv
    OBVIOUS
<1>1. \A t \in Tasks : Given(t) = IF Answered(t) THEN 1 ELSE 0
    BY GivenExact
<1>2. MappedAnswers \in [Tasks -> {0, 1}] /\ \A t \in Tasks : MappedAnswers[t] = 1 <=> Answered(t)
    BY <1>1 DEF MappedAnswers
<1>3. MappedPending \subseteq Tasks /\ \A t \in Tasks : t \in MappedPending <=> t \in queue \/ Held(t)
    BY CoordinatorAssumption DEF MappedPending, Held, CoordinatorTypeOK
<1>4. QED
    BY <1>2, <1>3 DEF MappingInv

\* Only SetDraining and the end of the context change the flag, and they move
\* no task.
LEMMA ClosingChange ==
    ASSUME CoordinatorTypeOK, [Next]_vars
    PROVE  MappedClosing' = MappedClosing \/ (Stays /\ MappedClosing' = TRUE)
<1>1. ASSUME NEW w \in Workers, WorkerStep(w) PROVE UNCHANGED <<draining, ctxDone>>
    BY <1>1 DEF WorkerStep, PopTask, FindEmpty, Wake, Admit, CheckDraining, ExecuteSucceeds,
                ExecuteFails, EndBackoff, FinishTask, SendResult
<1>2. ASSUME NEW t \in Tasks, Submission(t) PROVE UNCHANGED <<draining, ctxDone>>
    BY <1>2 DEF Submission, PushTask, NotifyWorkers
<1>3. ASSUME NEW k \in Closers, Closure(k) PROVE UNCHANGED <<draining, ctxDone>>
    BY <1>3 DEF Closure, CloseNotify, CloseResults
<1>4. CASE Collect \/ Finished \/ UNCHANGED vars
  <2>1. UNCHANGED <<draining, ctxDone>>
      BY <1>4 DEF Collect, Finished, vars
  <2>2. QED
      BY <2>1 DEF MappedClosing
<1>5. ASSUME NEW k \in Closers, SetDraining(k) PROVE Stays /\ MappedClosing' = TRUE
    BY <1>5 DEF SetDraining, Stays, Quiet, workerVars, MappedClosing
<1>6. CASE CancelContext
    BY <1>6 DEF CancelContext, Stays, Quiet, workerVars, MappedClosing
<1>7. ASSUME UNCHANGED <<draining, ctxDone>> PROVE MappedClosing' = MappedClosing
    BY <1>7 DEF MappedClosing
<1>8. QED
    BY <1>1, <1>2, <1>3, <1>4, <1>5, <1>6, <1>7 DEF Next

\* Every step of the coordinator is a step of TaskService or leaves it alone.
LEMMA ServiceStep ==
    ASSUME CoordinatorTypeOK, PlaceInv, MappingInv, [Next]_vars, MappingInv'
    PROVE  [Service!Next]_(Service!vars)
<1> DEFINE A == MappedAnswers
           P == MappedPending
           C == MappedClosing
<1>0. /\ A \in [Tasks -> {0, 1}] /\ P \subseteq Tasks
      /\ \A t \in Tasks : A[t] = 1 <=> Answered(t)
      /\ \A t \in Tasks : t \in P <=> t \in queue \/ Held(t)
    BY DEF MappingInv
<1>a. /\ A' \in [Tasks -> {0, 1}] /\ P' \subseteq Tasks
      /\ \A t \in Tasks : A'[t] = 1 <=> Answered(t)'
      /\ \A t \in Tasks : t \in P' <=> t \in queue' \/ Held(t)'
    BY DEF MappingInv
<1>b. /\ Service!Close <=> ~C /\ C' = TRUE /\ A' = A /\ P' = P
      /\ \A t \in Tasks : /\ Service!Submit(t) <=> t \notin P /\ A[t] = 0 /\ P' = P \cup {t}
                                                   /\ A' = A /\ C' = C
                          /\ Service!Answer(t) <=> t \in P /\ A' = [A EXCEPT ![t] = @ + 1]
                                                   /\ P' = P \ {t} /\ C' = C
                          /\ Service!GiveUp(t) <=> t \in P /\ C /\ P' = P \ {t}
                                                   /\ A' = A /\ C' = C
      /\ A' = A /\ P' = P /\ C' = C => UNCHANGED Service!vars
    BY DEF Service!Close, Service!Submit, Service!Answer, Service!GiveUp, Service!vars,
           MappedAnswers, MappedPending, MappedClosing
<1> HIDE DEF A, P, C
<1>1. CASE Stays
  <2>1. A' = A /\ P' = P
      BY <1>1 DEF Stays, Quiet, A, P, MappedAnswers, MappedPending, Given
  <2>2. C' = C \/ C' = TRUE
      BY ClosingChange DEF C
  <2>3. C \in BOOLEAN
      BY DEF C, MappedClosing
  <2>4. QED
      BY <1>b, <2>1, <2>2, <2>3 DEF Service!Next
<1>2. ASSUME ~Stays PROVE C' = C
    BY <1>2, ClosingChange DEF C
<1>3. ASSUME NEW t \in Tasks, Pushes(t), ~Stays PROVE Service!Submit(t)
  <2>1. ~Answered(t) /\ ~Held(t) /\ t \notin queue
      BY <1>3 DEF Pushes, PlaceInv
  <2>2. A' = A /\ P' = P \cup {t}
      BY <1>3 DEF Pushes, A, P, MappedAnswers, MappedPending, Given
  <2>3. QED
      BY <1>0, <1>b, <1>2, <1>3, <2>1, <2>2
<1>4. ASSUME NEW w \in Workers, NEW t \in Tasks, Takes(w, t), ~Stays
      PROVE  UNCHANGED Service!vars
  <2>1. A' = A
      BY <1>4 DEF Takes, A, MappedAnswers, Given
  <2>2. \A u \in Tasks : Held(u)' <=> Held(u) \/ u = t
      BY <1>4, CoordinatorAssumption DEF Takes, Held, CoordinatorTypeOK
  <2>3. P' = P
      BY <1>0, <1>a, <1>4, <2>2 DEF Takes
  <2>4. QED
      BY <1>b, <1>2, <1>4, <2>1, <2>3
<1>5. ASSUME NEW w \in Workers, Drops(w), ~Stays PROVE \E t \in Tasks : Service!GiveUp(t)
  <2>0. PICK t \in Tasks : t = task[w]
      BY <1>5 DEF Drops
  <2>1. A' = A /\ C /\ task[w] \in Tasks /\ Held(task[w])
      BY <1>5 DEF Drops, A, C, MappedAnswers, MappedClosing, Given, Held
  <2>2. \A u \in Tasks : Held(u)' <=> Held(u) /\ u # task[w]
      BY <1>5, CoordinatorAssumption DEF Drops, Held, PlaceInv, CoordinatorTypeOK
  <2>3. task[w] \notin queue
      BY <2>1 DEF PlaceInv
  <2>4. P' = P \ {task[w]}
      BY <1>0, <1>a, <1>5, <2>2, <2>3 DEF Drops
  <2>5. Service!GiveUp(t)
      BY <1>0, <1>b, <1>2, <1>5, <2>0, <2>1, <2>4
  <2>6. QED
      BY <2>5
<1>6. ASSUME NEW w \in Workers, Answers(w), ~Stays PROVE \E t \in Tasks : Service!Answer(t)
  <2>0. PICK t \in Tasks : t = task[w]
      BY <1>6 DEF Answers
  <2> DEFINE r == [task |-> task[w], outcome |-> result[w]]
  <2>1. /\ r \in Result /\ r.task = task[w] /\ resultCh' = Append(resultCh, r)
        /\ collected' = collected /\ task[w] \in Tasks /\ Held(task[w])
      BY <1>6 DEF Answers, Held
  <2> HIDE DEF r
  <2>2. ResultsIn(resultCh') = ResultsIn(resultCh) \cup {r}
      BY <2>1, AppendResult DEF CoordinatorTypeOK
  <2>3. \A u \in Tasks : Answered(u)' <=> Answered(u) \/ u = task[w]
      BY <2>1, <2>2 DEF Answered, In, ResultsIn
  <2>4. \A u \in Tasks : Held(u)' <=> Held(u) /\ u # task[w]
      BY <1>6, CoordinatorAssumption DEF Answers, Held, PlaceInv, CoordinatorTypeOK
  <2>5. ~Answered(task[w]) /\ task[w] \notin queue
      BY <2>1 DEF PlaceInv
  <2>6. P' = P \ {task[w]}
      BY <1>0, <1>a, <1>6, <2>4, <2>5 DEF Answers
  <2>7. A' = [A EXCEPT ![task[w]] = @ + 1]
    <3>1. A[task[w]] = 0
        BY <1>0, <2>1, <2>5
    <3>2. \A u \in Tasks : A'[u] = IF u = task[w] THEN 1 ELSE A[u]
        BY <1>0, <1>a, <2>3
    <3>3. QED
        BY <1>0, <1>a, <2>1, <3>1, <3>2
  <2>8. Service!Answer(t)
      BY <1>0, <1>b, <1>2, <1>6, <2>0, <2>1, <2>6, <2>7
  <2>9. QED
      BY <2>8
<1>7. ASSUME Reads, ~Stays PROVE UNCHANGED Service!vars
  <2> DEFINE r == Head(resultCh)
  <2>1. /\ r \in Result /\ ResultsIn(resultCh) = ResultsIn(resultCh') \cup {r}
        /\ collected' = Append(collected, r)
      BY <1>7, TakeResult DEF Reads, CoordinatorTypeOK
  <2> HIDE DEF r
  <2>2. ResultsIn(collected') = ResultsIn(collected) \cup {r}
      BY <2>1, AppendResult DEF CoordinatorTypeOK
  <2>3. \A u \in Tasks : Answered(u)' <=> Answered(u)
      BY <2>1, <2>2 DEF Answered, In, ResultsIn
  <2>4. A' = A
      BY <1>0, <1>a, <2>3
  <2>5. P' = P
      BY <1>7 DEF Reads, P, MappedPending
  <2>6. QED
      BY <1>b, <1>2, <1>7, <2>4, <2>5
<1>8. QED
    BY <1>1, <1>3, <1>4, <1>5, <1>6, <1>7, StepKinds DEF Service!Next

\* The coordinator implements the safety part of TaskService: a task gets at
\* most one result, only after it was submitted, and is given up only while
\* the service closes.
THEOREM ImplementsServiceSafety == Spec => Service!Safety
<1>1. Init => Service!Init
  <2> SUFFICES ASSUME Init PROVE Service!Init
      OBVIOUS
  <2>1. CoordinatorTypeOK /\ PlaceInv
      BY CoordinatorInitType, PlaceInit
  <2>2. \A t \in Tasks : ~Answered(t) /\ ~Held(t)
      BY EmptyLog, CoordinatorAssumption DEF Init, Answered, Held
  <2>3. MappedAnswers = [t \in Tasks |-> 0] /\ MappedPending = {} /\ MappedClosing = FALSE
    <3>1. \A t \in Tasks : Given(t) = 0
        BY <2>1, <2>2, GivenExact
    <3>2. MappedPending = {}
        BY <2>1, <2>2, MappingExact DEF Init, MappingInv
    <3>3. QED
        BY <3>1, <3>2 DEF Init, MappedAnswers, MappedClosing
  <2>4. QED
      BY <2>3 DEF Service!Init, MappedAnswers, MappedPending, MappedClosing
<1>2. CoordinatorTypeOK /\ PlaceInv /\ MappingInv /\ MappingInv' /\ [Next]_vars
      => [Service!Next]_(Service!vars)
    BY ServiceStep
<1>3. QED
    BY <1>1, <1>2, PlaceAlways, MappingExact, PTL DEF Spec, Service!Safety
=============================================================================
