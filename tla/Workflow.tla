------------------------------ MODULE Workflow ------------------------------
(***************************************************************************)
(* The workflow engine (internal/workflow/workflow.go): the state machine  *)
(* of a workflow, the three ways to execute it, Cancel, the end of the     *)
(* caller's context, and step time-outs.                                   *)
(*                                                                         *)
(* A plan is a sequence of groups of steps, a step being one occurrence of *)
(* an action in it.  ExecuteWithContext and ExecuteWithRetry take one step *)
(* at a time (ExecuteWithContext is the case of no retries),               *)
(* ExecuteParallelGroup runs the steps of a group side by side.  An action *)
(* runs in its own time: between its start and its end Cancel, the context *)
(* and other calls may come in, and an action that timed out goes on       *)
(* running unattended.                                                     *)
(***************************************************************************)
EXTENDS Integers, Sequences, FiniteSets

CONSTANTS Steps, Calls,  \* the calls of an Execute method on the workflow
          Mode,          \* call -> "steps" or "groups"
          Plan,          \* mode -> sequence of sets of steps
          MaxRetries,    \* call -> RetryConfig.MaxRetries (0: ExecuteWithContext),
                         \* an int that nothing keeps from being negative
          Timed          \* the steps with a Timeout

ASSUME WorkflowAssumption ==
    /\ Mode \in [Calls -> {"steps", "groups"}] /\ MaxRetries \in [Calls -> Int]
    /\ \A k \in {"steps", "groups"} : Plan[k] \in Seq(SUBSET Steps)
    /\ \A i \in DOMAIN Plan["steps"] : \E s \in Steps : Plan["steps"][i] = {s}
    /\ \A k \in {"steps", "groups"} : \A i, j \in DOMAIN Plan[k] :
         i # j => Plan[k][i] \cap Plan[k][j] = {}
    /\ Timed \subseteq Steps

States == {"pending", "running", "completed", "failed", "canceled"}
Terminal == {"completed", "failed", "canceled"}

VARIABLES machine,    \* StateMachine.current
          call,       \* call -> pc, position, attempt, failed (of the group), result
          actions,    \* the actions running now
          ctxDone,    \* the context of the calls has ended
          \* History:
          cancelled,  \* Cancel took effect
          timedOut,   \* steps with an attempt that timed out
          succeeded,  \* step -> actions that returned nil in time
          effects     \* step -> actions that returned nil, late ones too

vars == <<machine, call, actions, ctxDone, cancelled, timedOut, succeeded, effects>>

Action == [by : Calls, step : Steps, attempt : Nat, awaited : BOOLEAN]
NotCalled == [pc |-> "idle", at |-> 0, attempt |-> 0, failed |-> FALSE, result |-> "none"]

Init ==
    /\ machine = "pending" /\ call = [c \in Calls |-> NotCalled]
    /\ actions = {} /\ ctxDone = FALSE /\ cancelled = FALSE /\ timedOut = {}
    /\ succeeded = [s \in Steps |-> 0] /\ effects = [s \in Steps |-> 0]
-----------------------------------------------------------------------------
\* Mutant: a finished workflow can be started again.
Transitions_again ==
    {<<s, "start", "running">> : s \in {"pending", "completed", "failed"}}
    \cup {<<"running", "next", "running">>, <<"running", "complete", "completed">>,
          <<"running", "error", "failed">>, <<"running", "cancel", "canceled">>}

\* Mutant: an error is also taken from a cancelled workflow.
Transitions_late ==
    {<<"pending", "start", "running">>,
     <<"running", "next", "running">>, <<"running", "complete", "completed">>,
     <<"running", "error", "failed">>, <<"canceled", "error", "failed">>,
     <<"running", "cancel", "canceled">>}

\* The transitions NewWorkflow adds; a workflow without steps cannot start.
Transitions ==
    {<<"running", "error", "failed">>, <<"running", "cancel", "canceled">>}
    \cup (IF Plan["steps"] = <<>> THEN {}
          ELSE {<<"pending", "start", "running">>, <<"running", "next", "running">>,
                <<"running", "complete", "completed">>})

CanTransition(event) == \E t \in Transitions : t[1] = machine /\ t[2] = event

\* Trigger: without a transition the event is refused and nothing changes.
Trigger(event) ==
    machine' = IF CanTransition(event)
               THEN (CHOOSE t \in Transitions : t[1] = machine /\ t[2] = event)[3]
               ELSE machine

Groups(c) == Plan[Mode[c]]
Group(c) == Groups(c)[call[c].at]
Mine(c) == {a \in actions : a.by = c /\ a.awaited}
Return(c, result) == call' = [call EXCEPT ![c].pc = "returned", ![c].result = result]
Begin(c, S, n) ==
    actions' = actions \cup [by : {c}, step : S, attempt : {n}, awaited : {TRUE}]

\* An Execute method is called.
Start(c) ==
    /\ call[c].pc = "idle" /\ Trigger("start")
    /\ IF CanTransition("start")
       THEN call' = [call EXCEPT ![c].pc = "loop", ![c].at = 1]
       ELSE Return(c, "refused")
    /\ UNCHANGED <<actions, ctxDone, cancelled, timedOut, succeeded, effects>>

\* The loop over the attempts of a step, which a negative MaxRetries leaves
\* before the first one, without an error.
Attempts(c) == Mode[c] = "steps" => MaxRetries[c] >= 0

\* On to the next group.
Advance(c) == Trigger("next") /\ call' = [call EXCEPT ![c].pc = "loop", ![c].at = @ + 1]

\* The head of the loop: the context is looked at, then a group is begun, or
\* passed if it has nothing to run.
NextGroup(c) ==
    /\ call[c].pc = "loop" /\ call[c].at <= Len(Groups(c))
    /\ CASE ctxDone -> Trigger("cancel") /\ Return(c, "ctx") /\ UNCHANGED actions
         [] ~ctxDone /\ (Group(c) = {} \/ ~Attempts(c)) -> Advance(c) /\ UNCHANGED actions
         [] OTHER ->
            /\ call' = [call EXCEPT ![c].pc = "act", ![c].attempt = 0, ![c].failed = FALSE]
            /\ Begin(c, Group(c), 0) /\ UNCHANGED machine
    /\ UNCHANGED <<ctxDone, cancelled, timedOut, succeeded, effects>>

\* Mutant: the loop ends without the event.
Finish_silent(c) ==
    /\ call[c].pc = "loop" /\ call[c].at > Len(Groups(c)) /\ Return(c, "ok")
    /\ UNCHANGED <<machine, actions, ctxDone, cancelled, timedOut, succeeded, effects>>

Finish(c) ==
    /\ call[c].pc = "loop" /\ call[c].at > Len(Groups(c))
    /\ Trigger("complete") /\ Return(c, "ok")
    /\ UNCHANGED <<actions, ctxDone, cancelled, timedOut, succeeded, effects>>
-----------------------------------------------------------------------------
\* An attempt of the current step has failed: a back-off, or the end.
AttemptFailed(c) ==
    IF call[c].attempt < MaxRetries[c] /\ Mode[c] = "steps"
    THEN call' = [call EXCEPT ![c].pc = "backoff"] /\ UNCHANGED machine
    ELSE Trigger("error") /\ Return(c, "failed")

\* Mutant: a failed step of a group is forgotten when a later one succeeds.
GroupDone_last(c, ok) ==
    IF ok THEN Advance(c) ELSE AttemptFailed(c)

\* Mutant: a step that succeeded is attempted again while retries are left.
GroupDone_noBreak(c, ok) ==
    IF ok /\ ~call[c].failed /\ call[c].attempt = MaxRetries[c]
    THEN Advance(c) ELSE AttemptFailed(c)

\* The last awaited action of the group has returned.
GroupDone(c, ok) ==
    IF ok /\ ~call[c].failed
    THEN Advance(c) ELSE AttemptFailed(c)

\* An awaited action returns; with more of the group to come, its error is kept.
ActionReturns(a, ok) ==
    /\ a.awaited /\ actions' = actions \ {a}
    /\ IF Mine(a.by) = {a} THEN GroupDone(a.by, ok)
       ELSE call' = [call EXCEPT ![a.by].failed = @ \/ ~ok] /\ UNCHANGED machine
    /\ succeeded' = IF ok THEN [succeeded EXCEPT ![a.step] = @ + 1] ELSE succeeded
    /\ effects' = IF ok THEN [effects EXCEPT ![a.step] = @ + 1] ELSE effects
    /\ UNCHANGED <<ctxDone, cancelled, timedOut>>

\* executeStepWithTimeout gives up, after the Timeout or with the context; the
\* goroutine of the action goes on.
StepTimesOut(a) ==
    /\ a.awaited /\ a.step \in Timed /\ Mode[a.by] = "steps"
    /\ actions' = (actions \ {a}) \cup {[a EXCEPT !.awaited = FALSE]}
    /\ AttemptFailed(a.by)
    /\ timedOut' = timedOut \cup {a.step}
    /\ UNCHANGED <<ctxDone, cancelled, succeeded, effects>>

LateReturn(a, ok) ==
    /\ ~a.awaited /\ actions' = actions \ {a}
    /\ effects' = IF ok THEN [effects EXCEPT ![a.step] = @ + 1] ELSE effects
    /\ UNCHANGED <<machine, call, ctxDone, cancelled, timedOut, succeeded>>

\* The back-off ends: with the timer, or with the context, which leaves the
\* machine as it is.
Retry(c) ==
    /\ call[c].pc = "backoff"
    /\ call' = [call EXCEPT ![c].pc = "act", ![c].attempt = @ + 1]
    /\ Begin(c, Group(c), call[c].attempt + 1)
    /\ UNCHANGED <<machine, ctxDone, cancelled, timedOut, succeeded, effects>>

AbandonRetry(c) ==
    /\ call[c].pc = "backoff" /\ ctxDone /\ Return(c, "abandoned")
    /\ UNCHANGED <<machine, actions, ctxDone, cancelled, timedOut, succeeded, effects>>

\* Cancel only moves the machine; the loop does not look at it.
Cancel ==
    /\ CanTransition("cancel") /\ Trigger("cancel") /\ cancelled' = TRUE
    /\ UNCHANGED <<call, actions, ctxDone, timedOut, succeeded, effects>>

CancelContext ==
    /\ ~ctxDone /\ ctxDone' = TRUE
    /\ UNCHANGED <<machine, call, actions, cancelled, timedOut, succeeded, effects>>

Progress(c) == NextGroup(c) \/ Finish(c) \/ Retry(c) \/ AbandonRetry(c)
Running == \E a \in actions : \/ \E ok \in BOOLEAN : ActionReturns(a, ok) \/ LateReturn(a, ok)
                              \/ StepTimesOut(a)

Next ==
    \/ \E c \in Calls : Start(c) \/ Progress(c)
    \/ Running \/ Cancel \/ CancelContext

\* The scheduler runs every goroutine and actions return.
Spec == Init /\ [][Next]_vars /\ WF_vars(Running) /\ \A c \in Calls : WF_vars(Progress(c))
-----------------------------------------------------------------------------
TypeOK ==
    /\ machine \in States /\ actions \subseteq Action /\ IsFiniteSet(actions)
    /\ ctxDone \in BOOLEAN /\ cancelled \in BOOLEAN /\ timedOut \subseteq Timed
    /\ \A c \in Calls :
        /\ call[c].pc \in {"idle", "loop", "act", "backoff", "returned"}
        /\ call[c].attempt \in 0..(IF MaxRetries[c] > 0 THEN MaxRetries[c] ELSE 0)
        /\ call[c].result \in {"none", "ok", "failed", "ctx", "abandoned", "refused"}
        /\ call[c].pc = "act" <=> Mine(c) # {}
    /\ succeeded \in [Steps -> Nat] /\ effects \in [Steps -> Nat]

Admitted == {c \in Calls : call[c].pc # "idle" /\ call[c].result # "refused"}

\* However many calls race, the machine admits one: what is awaited at any
\* time belongs to one call and one group of its plan, and an action outside
\* of that, overlapping it, is one whose step has timed out.
OneExecution ==
    /\ Cardinality(Admitted) <= 1
    /\ \A a \in actions :
        IF a.awaited THEN a.step \in Group(a.by) ELSE a.step \in timedOut

\* The answer of a call agrees with what was executed and with the machine:
\* nil means every step of the plan succeeded once, or, from ExecuteWithRetry
\* with a negative MaxRetries, that none was run; the machine shows the same
\* outcome unless Cancel came in between, which the loop does not notice.
Outcome == [ok |-> "completed", failed |-> "failed", ctx |-> "canceled",
            abandoned |-> "running"]
ResultAgrees ==
    \A c \in Admitted :
        /\ call[c].result \in DOMAIN Outcome =>
               machine = IF cancelled THEN "canceled" ELSE Outcome[call[c].result]
        /\ call[c].result = "ok" =>
               \A i \in DOMAIN Groups(c) : \A s \in Groups(c)[i] :
                   succeeded[s] = IF Attempts(c) THEN 1 ELSE 0
        /\ call[c].result = "none" =>
               machine = IF cancelled THEN "canceled" ELSE "running"

\* The action of a step takes effect twice only if an attempt of it timed out
\* and returned after all, next to its retry.
EffectOnce == \A s \in Steps : effects[s] > 1 => s \in timedOut

\* What the machine has reached it keeps: the triggers of a loop that goes on
\* after Cancel, and further calls, do not move it.
TerminalIsFinal == [][(machine \in Terminal) => machine' = machine]_vars

\* An admitted call returns, and the machine then rests in a terminal state,
\* unless the context ended a back-off.
ExecutionEnds ==
    \A c \in Calls :
        call[c].pc = "loop" ~> /\ call[c].pc = "returned"
                               /\ (machine \in Terminal \/ call[c].result = "abandoned")
=============================================================================
