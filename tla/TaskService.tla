---------------------------- MODULE TaskService ----------------------------
(***************************************************************************)
(* What the task coordinator promises its callers, without queue, workers  *)
(* or channels: a submitted task gets exactly one result, unless the       *)
(* service closes; once it is closing, a task may be given up instead.     *)
(***************************************************************************)
EXTENDS Integers

CONSTANT Tasks
VARIABLES answers,    \* results given per task
          pending,    \* tasks submitted, neither answered nor given up
          closing     \* Stop or Drain was called, or the context ended

vars == <<answers, pending, closing>>

Init == answers = [t \in Tasks |-> 0] /\ pending = {} /\ closing = FALSE

Submit(t) ==
    /\ t \notin pending /\ answers[t] = 0
    /\ pending' = pending \cup {t} /\ UNCHANGED <<answers, closing>>

Answer(t) ==
    /\ t \in pending
    /\ answers' = [answers EXCEPT ![t] = @ + 1]
    /\ pending' = pending \ {t} /\ UNCHANGED closing

GiveUp(t) ==
    /\ t \in pending /\ closing
    /\ pending' = pending \ {t} /\ UNCHANGED <<answers, closing>>

Close == ~closing /\ closing' = TRUE /\ UNCHANGED <<answers, pending>>

Next == Close \/ \E t \in Tasks : Submit(t) \/ Answer(t) \/ GiveUp(t)

\* The promise without its liveness: nothing is answered twice, and nothing is
\* given up before the service closes.
Safety == Init /\ [][Next]_vars

Spec == Safety /\ \A t \in Tasks : WF_vars(~closing /\ Answer(t))
=============================================================================
