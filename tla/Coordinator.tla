---------------------------- MODULE Coordinator ----------------------------
(***************************************************************************)
(* The task coordinator (internal/distributed/distributed.go): pushTask,   *)
(* the worker loops with popTask and executeWithRetry, Stop and Drain, and *)
(* the reader of Results.                                                  *)
(*                                                                         *)
(* A worker holds the coordinator's mutex only while it takes a task or    *)
(* reads the draining flag, so each of these is a step of its own.  The    *)
(* notify channel carries no data and is a token count; a send to it never *)
(* blocks.  A send on, or a second close of, a closed channel panics and   *)
(* ends the process.                                                       *)
(***************************************************************************)
EXTENDS Integers, Sequences, FiniteSets

CONSTANTS Tasks, Workers, NoTask,
          Priority,      \* task -> priority it is pushed with (Submit: 0)
          MaxRetry,      \* task -> Task.MaxRetry, negative ones are pushed as 0
          QueueSize,     \* capacity of notify and resultCh
          Closers        \* which of Stop and Drain may be called

ASSUME CoordinatorAssumption ==
    /\ NoTask \notin Tasks
    /\ Priority \in [Tasks -> Int] /\ MaxRetry \in [Tasks -> Int]
    /\ QueueSize \in Nat \ {0}
    /\ Closers \subseteq {"Stop", "Drain"}

VARIABLES submit,     \* per task: new, pushed (before the notification), done
          queue,      \* Coordinator.queue, ordered by Priority
          notify, notifyClosed,
          resultCh, resultClosed,
          draining, inflight,        \* the flag and the counter of drainWg
          ctxDone,
          pc, task, attempt, result, \* per worker
          closer,     \* per closer: idle, flagged, waiting, done
          metrics,
          collected,  \* the results read from Results, in order
          dropped,    \* tasks a worker took and gave up without a result
          misused,    \* Stop or Drain was called a second time or in the
                      \* middle of a submission, or a task submitted after it
          panicked

workerVars == <<pc, task, attempt, result>>
vars == <<submit, queue, notify, notifyClosed, resultCh, resultClosed, draining, inflight,
          ctxDone, workerVars, closer, metrics, collected, dropped, misused, panicked>>

Outcomes == {"ok", "failed", "draining", "cancelled"}
Result == [task : Tasks, outcome : Outcomes]

\* maxAttempts of executeWithRetry, with pushTask's correction of MaxRetry.
MaxAttempts(t) == IF MaxRetry[t] < 0 THEN 1 ELSE MaxRetry[t] + 1

Init ==
    /\ submit = [t \in Tasks |-> "new"]
    /\ queue = {} /\ notify = 0 /\ notifyClosed = FALSE
    /\ resultCh = <<>> /\ resultClosed = FALSE
    /\ draining = FALSE /\ inflight = 0 /\ ctxDone = FALSE
    /\ pc = [w \in Workers |-> "pop"] /\ task = [w \in Workers |-> NoTask]
    /\ attempt = [w \in Workers |-> 0] /\ result = [w \in Workers |-> "ok"]
    /\ closer = [k \in Closers |-> "idle"]
    /\ metrics = [submitted |-> 0, completed |-> 0, failed |-> 0, retried |-> 0]
    /\ collected = <<>> /\ dropped = {} /\ misused = FALSE /\ panicked = FALSE

Moves(w, from, to) == pc[w] = from /\ pc' = [pc EXCEPT ![w] = to]
Release(w) ==    \* the locals of the worker's loop body go out of scope
    /\ task' = [task EXCEPT ![w] = NoTask]
    /\ attempt' = [attempt EXCEPT ![w] = 0] /\ result' = [result EXCEPT ![w] = "ok"]
Count(name) == metrics' = [metrics EXCEPT ![name] = @ + 1]
Closing == \E k \in Closers : closer[k] # "idle"
-----------------------------------------------------------------------------
\* pushTask, under the lock.
PushTask(t) ==
    /\ submit[t] = "new"
    /\ queue' = queue \cup {t}
    /\ submit' = [submit EXCEPT ![t] = "pushed"]
    /\ misused' = (misused \/ Closing)
    /\ UNCHANGED <<notify, notifyClosed, resultCh, resultClosed, draining, inflight,
                   ctxDone, workerVars, closer, metrics, collected, dropped, panicked>>

\* The rest of pushTask: the counter, and the non-blocking notification.
NotifyWorkers(t) ==
    /\ submit[t] = "pushed"
    /\ submit' = [submit EXCEPT ![t] = "done"]
    /\ Count("submitted")
    /\ IF notifyClosed
       THEN panicked' = TRUE /\ UNCHANGED notify
       ELSE /\ notify' = IF notify < QueueSize THEN notify + 1 ELSE notify
            /\ UNCHANGED panicked
    /\ UNCHANGED <<queue, notifyClosed, resultCh, resultClosed, draining, inflight,
                   ctxDone, workerVars, closer, collected, dropped, misused>>
-----------------------------------------------------------------------------
Front == {t \in queue : \A u \in queue : Priority[t] >= Priority[u]}

\* Mutant: the task is handed out and stays on the heap.
PopTask_keeps(w) ==
    /\ \E t \in Front : task' = [task EXCEPT ![w] = t]
    /\ Moves(w, "pop", "popped")
    /\ UNCHANGED <<submit, queue, notify, notifyClosed, resultCh, resultClosed, draining,
                   inflight, ctxDone, attempt, result, closer, metrics, collected,
                   dropped, misused, panicked>>

\* popTask takes a task of the highest priority (the heap breaks ties).
PopTask(w) ==
    /\ \E t \in Front : /\ task' = [task EXCEPT ![w] = t]
                        /\ queue' = queue \ {t}
    /\ Moves(w, "pop", "popped")
    /\ UNCHANGED <<submit, notify, notifyClosed, resultCh, resultClosed, draining, inflight,
                   ctxDone, attempt, result, closer, metrics, collected, dropped,
                   misused, panicked>>

\* popTask finds the queue empty: the worker leaves, or will wait.
FindEmpty(w) ==
    /\ queue = {}
    /\ Moves(w, "pop", IF draining THEN "exited" ELSE "wait")
    /\ UNCHANGED <<submit, queue, notify, notifyClosed, resultCh, resultClosed, draining,
                   inflight, ctxDone, task, attempt, result, closer, metrics, collected,
                   dropped, misused, panicked>>

\* The select of popTask: a token, a closed channel, or the end of the context.
Wake(w) ==
    /\ \/ notify > 0 /\ notify' = notify - 1 /\ Moves(w, "wait", "pop")
       \/ notify = 0 /\ notifyClosed /\ UNCHANGED notify /\ Moves(w, "wait", "pop")
       \/ ctxDone /\ UNCHANGED notify /\ Moves(w, "wait", "exited")
    /\ UNCHANGED <<submit, queue, notifyClosed, resultCh, resultClosed, draining, inflight,
                   ctxDone, task, attempt, result, closer, metrics, collected, dropped,
                   misused, panicked>>

\* workerLoop reads the flag a second time: the task is given up without a
\* result when a closer came in between.
Admit(w) ==
    /\ IF draining
       THEN /\ Moves(w, "popped", "exited")
            /\ dropped' = dropped \cup {task[w]}
            /\ Release(w)
            /\ UNCHANGED inflight
       ELSE /\ Moves(w, "popped", "check")
            /\ inflight' = inflight + 1
            /\ attempt' = [attempt EXCEPT ![w] = 1]
            /\ UNCHANGED <<dropped, task, result>>
    /\ UNCHANGED <<submit, queue, notify, notifyClosed, resultCh, resultClosed, draining,
                   ctxDone, closer, metrics, collected, misused, panicked>>

\* An attempt starts with a look at the flag; draining ends the task.
CheckDraining(w) ==
    /\ IF draining
       THEN Moves(w, "check", "finish") /\ result' = [result EXCEPT ![w] = "draining"]
       ELSE Moves(w, "check", "execute") /\ UNCHANGED result
    /\ UNCHANGED <<submit, queue, notify, notifyClosed, resultCh, resultClosed, draining,
                   inflight, ctxDone, task, attempt, closer, metrics, collected, dropped,
                   misused, panicked>>

\* Worker.Execute returns a result.
ExecuteSucceeds(w) ==
    /\ Moves(w, "execute", "finish")
    /\ result' = [result EXCEPT ![w] = "ok"]
    /\ Count("completed")
    /\ UNCHANGED <<submit, queue, notify, notifyClosed, resultCh, resultClosed, draining,
                   inflight, ctxDone, task, attempt, closer, collected, dropped, misused,
                   panicked>>

\* Mutant: the last failure is not counted as a failed task.
ExecuteFails_uncounted(w) ==
    /\ pc[w] = "execute"
    /\ IF attempt[w] < MaxAttempts(task[w])
       THEN Moves(w, "execute", "backoff") /\ UNCHANGED result
       ELSE Moves(w, "execute", "finish") /\ result' = [result EXCEPT ![w] = "failed"]
    /\ Count("retried")
    /\ UNCHANGED <<submit, queue, notify, notifyClosed, resultCh, resultClosed, draining,
                   inflight, ctxDone, task, attempt, closer, collected, dropped, misused,
                   panicked>>

\* Worker.Execute returns an error: every failed attempt counts as a retry,
\* the last one also as a failed task.
ExecuteFails(w) ==
    /\ pc[w] = "execute"
    /\ IF attempt[w] < MaxAttempts(task[w])
       THEN /\ Moves(w, "execute", "backoff")
            /\ Count("retried") /\ UNCHANGED result
       ELSE /\ Moves(w, "execute", "finish")
            /\ result' = [result EXCEPT ![w] = "failed"]
            /\ metrics' = [metrics EXCEPT !.retried = @ + 1, !.failed = @ + 1]
    /\ UNCHANGED <<submit, queue, notify, notifyClosed, resultCh, resultClosed, draining,
                   inflight, ctxDone, task, attempt, closer, collected, dropped, misused,
                   panicked>>

\* The backoff ends: the timer fires, or the context has ended.
EndBackoff(w) ==
    /\ \/ Moves(w, "backoff", "check") /\ attempt' = [attempt EXCEPT ![w] = @ + 1]
          /\ UNCHANGED result
       \/ ctxDone /\ Moves(w, "backoff", "finish")
          /\ result' = [result EXCEPT ![w] = "cancelled"] /\ UNCHANGED attempt
    /\ UNCHANGED <<submit, queue, notify, notifyClosed, resultCh, resultClosed, draining,
                   inflight, ctxDone, task, closer, metrics, collected, dropped, misused,
                   panicked>>

\* executeWithRetry has returned: drainWg.Done.
FinishTask(w) ==
    /\ Moves(w, "finish", "send")
    /\ inflight' = inflight - 1
    /\ UNCHANGED <<submit, queue, notify, notifyClosed, resultCh, resultClosed, draining,
                   ctxDone, task, attempt, result, closer, metrics, collected, dropped,
                   misused, panicked>>

\* Mutant: the worker waits for a token before it looks at the queue again.
SendResult_waits(w) ==
    /\ ~resultClosed /\ Len(resultCh) < QueueSize
    /\ resultCh' = Append(resultCh, [task |-> task[w], outcome |-> result[w]])
    /\ Moves(w, "send", "wait") /\ Release(w)
    /\ UNCHANGED <<submit, queue, notify, notifyClosed, resultClosed, draining, inflight,
                   ctxDone, closer, metrics, collected, dropped, misused, panicked>>

\* The blocking send of the result.
SendResult(w) ==
    /\ \/ /\ ~resultClosed /\ Len(resultCh) < QueueSize
          /\ resultCh' = Append(resultCh, [task |-> task[w], outcome |-> result[w]])
          /\ Moves(w, "send", "pop") /\ Release(w)
          /\ UNCHANGED panicked
       \/ /\ resultClosed /\ pc[w] = "send"
          /\ panicked' = TRUE /\ UNCHANGED <<resultCh, workerVars>>
    /\ UNCHANGED <<submit, queue, notify, notifyClosed, resultClosed, draining, inflight,
                   ctxDone, closer, metrics, collected, dropped, misused>>

WorkerStep(w) ==
    \/ PopTask(w) \/ FindEmpty(w) \/ Wake(w) \/ Admit(w) \/ CheckDraining(w)
    \/ ExecuteSucceeds(w) \/ ExecuteFails(w) \/ EndBackoff(w) \/ FinishTask(w)
    \/ SendResult(w)
-----------------------------------------------------------------------------
\* Stop or Drain is called and sets the flag, under the lock.
SetDraining(k) ==
    /\ closer[k] = "idle"
    /\ misused' = (misused \/ Closing \/ \E t \in Tasks : submit[t] = "pushed")
    /\ draining' = TRUE
    /\ closer' = [closer EXCEPT ![k] = "flagged"]
    /\ UNCHANGED <<submit, queue, notify, notifyClosed, resultCh, resultClosed, inflight,
                   ctxDone, workerVars, metrics, collected, dropped, panicked>>

\* Mutant: notify is left open.
CloseNotify_open(k) ==
    /\ closer[k] = "flagged"
    /\ closer' = [closer EXCEPT ![k] = "waiting"]
    /\ UNCHANGED <<submit, queue, notify, notifyClosed, resultCh, resultClosed, draining,
                   inflight, ctxDone, workerVars, metrics, collected, dropped, misused,
                   panicked>>

CloseNotify(k) ==
    /\ closer[k] = "flagged"
    /\ closer' = [closer EXCEPT ![k] = "waiting"]
    /\ notifyClosed' = TRUE /\ panicked' = notifyClosed
    /\ UNCHANGED <<submit, queue, notify, resultCh, resultClosed, draining, inflight,
                   ctxDone, workerVars, metrics, collected, dropped, misused>>

\* Mutant: Drain waits for drainWg only.
CloseResults_noWait(k) ==
    /\ closer[k] = "waiting" /\ inflight = 0
    /\ closer' = [closer EXCEPT ![k] = "done"]
    /\ resultClosed' = TRUE /\ panicked' = resultClosed
    /\ UNCHANGED <<submit, queue, notify, notifyClosed, resultCh, draining, inflight,
                   ctxDone, workerVars, metrics, collected, dropped, misused>>

\* Drain waits for drainWg, both wait for every worker, and close resultCh.
CloseResults(k) ==
    /\ closer[k] = "waiting"
    /\ k = "Drain" => inflight = 0
    /\ \A w \in Workers : pc[w] = "exited"
    /\ closer' = [closer EXCEPT ![k] = "done"]
    /\ resultClosed' = TRUE /\ panicked' = resultClosed
    /\ UNCHANGED <<submit, queue, notify, notifyClosed, resultCh, draining, inflight,
                   ctxDone, workerVars, metrics, collected, dropped, misused>>

\* The caller ranges over Results.
Collect ==
    /\ resultCh # <<>>
    /\ collected' = Append(collected, Head(resultCh)) /\ resultCh' = Tail(resultCh)
    /\ UNCHANGED <<submit, queue, notify, notifyClosed, resultClosed, draining, inflight,
                   ctxDone, workerVars, closer, metrics, dropped, misused, panicked>>

\* The context given to Start is cancelled or times out.
CancelContext ==
    /\ ~ctxDone /\ ctxDone' = TRUE
    /\ UNCHANGED <<submit, queue, notify, notifyClosed, resultCh, resultClosed, draining,
                   inflight, workerVars, closer, metrics, collected, dropped, misused,
                   panicked>>

\* Nothing is left to do once every closer returned and the caller is done.
Finished ==
    /\ \/ panicked
       \/ /\ \A w \in Workers : pc[w] = "exited"
          /\ \A k \in Closers : closer[k] = "done"
    /\ UNCHANGED vars

Submission(t) == PushTask(t) \/ NotifyWorkers(t)
Closure(k) == CloseNotify(k) \/ CloseResults(k)

Next ==
    \/ Finished
    \/ /\ ~panicked
       /\ \/ Collect \/ CancelContext
          \/ \E t \in Tasks : Submission(t)
          \/ \E w \in Workers : WorkerStep(w)
          \/ \E k \in Closers : SetDraining(k) \/ Closure(k)

\* The Go scheduler runs every goroutine, Execute returns, and the caller
\* reads Results; nobody has to submit or to call Stop.
Fairness ==
    /\ \A w \in Workers : WF_vars(~panicked /\ WorkerStep(w))
    /\ \A k \in Closers : WF_vars(~panicked /\ Closure(k))
    /\ \A t \in Tasks : WF_vars(~panicked /\ NotifyWorkers(t))
    /\ WF_vars(~panicked /\ Collect)

Spec == Init /\ [][Next]_vars /\ Fairness
-----------------------------------------------------------------------------
TypeOK ==
    /\ submit \in [Tasks -> {"new", "pushed", "done"}] /\ queue \subseteq Tasks
    /\ notify \in 0..QueueSize /\ notifyClosed \in BOOLEAN
    /\ resultCh \in Seq(Result) /\ Len(resultCh) <= QueueSize /\ resultClosed \in BOOLEAN
    /\ draining \in BOOLEAN /\ inflight \in Nat /\ ctxDone \in BOOLEAN
    /\ pc \in [Workers -> {"pop", "wait", "popped", "check", "execute", "backoff",
                           "finish", "send", "exited"}]
    /\ task \in [Workers -> Tasks \cup {NoTask}]
    /\ \A w \in Workers : /\ result[w] \in Outcomes
                          /\ task[w] # NoTask => attempt[w] \in 0..MaxAttempts(task[w])
    /\ closer \in [Closers -> {"idle", "flagged", "waiting", "done"}]
    /\ metrics \in [{"submitted", "completed", "failed", "retried"} -> Nat]
    /\ collected \in Seq(Result) /\ dropped \subseteq Tasks
    /\ misused \in BOOLEAN /\ panicked \in BOOLEAN

\* The results given for a task, read or not.
Given(t) ==
    Cardinality({i \in DOMAIN resultCh : resultCh[i].task = t})
    + Cardinality({i \in DOMAIN collected : collected[i].task = t})

\* How often a task is queued, held by a worker, answered or given up.
Places(t) ==
    (IF t \in queue THEN 1 ELSE 0) + (IF t \in dropped THEN 1 ELSE 0)
    + Cardinality({w \in Workers : task[w] = t})
    + Given(t)

\* Each pushed task is in exactly one place: two workers never run the same
\* task, it never gets two results, and it does not disappear from the
\* accounts, whatever the workers, closers and submitters do.
TaskConserved ==
    \A t \in Tasks : Places(t) = IF submit[t] = "new" THEN 0 ELSE 1

\* Only callers that stop twice or submit after stopping make the process
\* panic: a worker that still has a result to deliver keeps Stop and Drain
\* from closing resultCh, and those that submit before they stop
\* (build_cmd.go, distributed_cmd.go) never hit a closed channel.
NoPanic == panicked => misused

\* With all submissions counted and every worker waiting for more, the
\* metrics account for each submitted task exactly once, however attempts
\* failed and were retried (a task ended by draining or by the context is
\* counted neither as completed nor as failed).
MetricsSettle ==
    /\ \A t \in Tasks : submit[t] # "pushed"
    /\ queue = {} /\ \A w \in Workers : pc[w] = "wait"
    /\ ~ctxDone /\ ~draining
    => metrics.submitted = metrics.completed + metrics.failed

\* The coordinator implements the service of module TaskService: results are
\* given once and only for pending tasks, a task is given up only while
\* closing, and before that every pushed task is answered (no wake-up is
\* lost, also when notify is full).
Service == INSTANCE TaskService
           WITH answers <- [t \in Tasks |-> Given(t)],
                pending <- queue \cup ({task[w] : w \in Workers} \ {NoTask}),
                closing <- draining \/ ctxDone

ImplementsTaskService == Service!Spec

\* Stop and Drain return once they are called, as long as Results is read and
\* the caller does not make the process panic.
ShutdownCompletes ==
    \A k \in Closers : closer[k] = "flagged" ~> (closer[k] = "done" \/ panicked)

\* "Drain() blocks until in-flight tasks complete, ensuring no work is lost
\* during shutdown" (docs/adr/006-distributed-task-execution.md): when Drain
\* has returned, no task was taken from the queue and given up.
DrainLosesNothing == "Drain" \in Closers /\ closer["Drain"] = "done" => dropped = {}
=============================================================================
