--------------------------- MODULE WorkflowProofs ---------------------------
(***************************************************************************)
(* For any plan, any number of calls and any retries: the workflow admits  *)
(* one execution, the answer of a call agrees with the machine and with    *)
(* what was executed, a step takes effect once unless it timed out, and a  *)
(* terminal state is final.                                                *)
(***************************************************************************)
EXTENDS Workflow, FiniteSetTheorems, TLAPS

Stages == {"idle", "loop", "act", "backoff", "returned"}
Results == {"none", "ok", "failed", "ctx", "abandoned", "refused"}
Call == [pc : Stages, at : Nat, attempt : Nat, failed : BOOLEAN, result : Results]

WorkflowTypeOK ==
    /\ machine \in States /\ call \in [Calls -> Call] /\ actions \subseteq Action
    /\ succeeded \in [Steps -> Nat] /\ effects \in [Steps -> Nat]

\* One call is admitted, and it is the one that has left "pending" behind.
AdmitInv ==
    /\ \A c, d \in Admitted : c = d
    /\ machine = "pending" <=> Admitted = {}
    /\ machine = "pending" => ~cancelled
    /\ machine # "pending" => Plan["steps"] # <<>>
    /\ \A c \in Calls : call[c].pc # "returned" <=> call[c].result = "none"

\* Where an admitted call stands in its plan.
PositionInv ==
    /\ \A c \in Calls : call[c].pc \in {"loop", "act", "backoff"} => call[c].at \in Nat \ {0}
    /\ \A c \in Calls : call[c].pc \in {"act", "backoff"} => call[c].at \in DOMAIN Groups(c)
    /\ \A c \in Calls : call[c].pc \in {"act", "backoff"} => Attempts(c)
    /\ \A c \in Calls : call[c].pc = "backoff" => Mode[c] = "steps"
    /\ \A c \in Calls : call[c].failed => Mode[c] = "groups"

\* What runs belongs to the group the call stands at, or was given up.
ActionInv ==
    \A a \in actions :
        /\ a.awaited => /\ call[a.by].pc = "act" /\ a.step \in Group(a.by)
                        /\ a.attempt = call[a.by].attempt
        /\ ~a.awaited => a.step \in timedOut
        /\ a.by \in Admitted

\* A step succeeds in its group and in no other: the groups passed are done, as
\* far as the call runs any, the groups to come untouched.
Due(c) == IF Attempts(c) THEN 1 ELSE 0
Awaits(c, s) == \E a \in actions : a.by = c /\ a.awaited /\ a.step = s
StepDone(c, i, s) ==
    /\ call[c].pc # "returned" /\ i < call[c].at => succeeded[s] = Due(c)
    /\ call[c].pc # "returned" /\ i > call[c].at => succeeded[s] = 0
    /\ call[c].pc \in {"loop", "backoff"} /\ i = call[c].at => succeeded[s] = 0
    /\ call[c].pc = "act" /\ i = call[c].at /\ Awaits(c, s) => succeeded[s] = 0
    /\ call[c].pc = "act" /\ i = call[c].at /\ ~Awaits(c, s) /\ ~call[c].failed => succeeded[s] = 1
    /\ call[c].result = "ok" => succeeded[s] = Due(c)
SuccessInv ==
    /\ \A s \in Steps : succeeded[s] <= 1
    /\ machine = "pending" => \A s \in Steps : succeeded[s] = 0
    /\ \A s \in Steps : s \notin timedOut => effects[s] = succeeded[s]
    /\ \A c \in Admitted : \A i \in DOMAIN Groups(c) : \A s \in Groups(c)[i] : StepDone(c, i, s)

\* The machine shows the outcome of the admitted call, or its cancellation.
Shows(c) == IF call[c].result = "none" THEN "running" ELSE Outcome[call[c].result]
MachineInv == \A c \in Admitted : machine = IF cancelled THEN "canceled" ELSE Shows(c)

WorkflowInv ==
    WorkflowTypeOK /\ AdmitInv /\ PositionInv /\ ActionInv /\ SuccessInv /\ MachineInv

-----------------------------------------------------------------------------
\* Where the events lead from each state of the machine.
LEMMA TriggerSteps ==
    ASSUME machine \in States
    PROVE  /\ CanTransition("start") <=> machine = "pending" /\ Plan["steps"] # <<>>
           /\ CanTransition("start") /\ Trigger("start") => machine' = "running"
           /\ ~CanTransition("start") /\ Trigger("start") => machine' = machine
           /\ Trigger("next") => machine' = machine
           /\ Trigger("error") => machine' = IF machine = "running" THEN "failed" ELSE machine
           /\ CanTransition("cancel") <=> machine = "running"
           /\ Trigger("cancel") => machine' = IF machine = "running" THEN "canceled" ELSE machine
           /\ Plan["steps"] # <<>> /\ Trigger("complete") =>
                machine' = IF machine = "running" THEN "completed" ELSE machine
<1>1. ASSUME NEW t \in Transitions
      PROVE  \/ t = <<"running", "error", "failed">> \/ t = <<"running", "cancel", "canceled">>
             \/ Plan["steps"] # <<>> /\ \/ t = <<"pending", "start", "running">>
                                        \/ t = <<"running", "next", "running">>
                                        \/ t = <<"running", "complete", "completed">>
    BY DEF Transitions
<1>2. /\ <<"running", "error", "failed">> \in Transitions
      /\ <<"running", "cancel", "canceled">> \in Transitions
      /\ Plan["steps"] # <<>> => /\ <<"pending", "start", "running">> \in Transitions
                                 /\ <<"running", "next", "running">> \in Transitions
                                 /\ <<"running", "complete", "completed">> \in Transitions
    BY DEF Transitions
<1>3. ASSUME NEW event, NEW from, NEW to, <<from, event, to>> \in Transitions, machine = from,
             \A t \in Transitions : t[1] = machine /\ t[2] = event => t[3] = to
      PROVE  CanTransition(event) /\ (Trigger(event) => machine' = to)
  <2>1. \E t \in Transitions : t[1] = machine /\ t[2] = event
      BY <1>3
  <2>2. (CHOOSE t \in Transitions : t[1] = machine /\ t[2] = event)[3] = to
      BY <1>3, <2>1
  <2>3. QED
      BY <2>1, <2>2 DEF CanTransition, Trigger
<1>4. ASSUME NEW event, \A t \in Transitions : ~(t[1] = machine /\ t[2] = event)
      PROVE  ~CanTransition(event) /\ (Trigger(event) => machine' = machine)
    BY <1>4 DEF CanTransition, Trigger
<1>5. CASE machine = "running"
  <2>1. CanTransition("error") /\ (Trigger("error") => machine' = "failed")
      BY <1>1, <1>2, <1>3, <1>5
  <2>2. CanTransition("cancel") /\ (Trigger("cancel") => machine' = "canceled")
      BY <1>1, <1>2, <1>3, <1>5
  <2>3. Plan["steps"] # <<>> => (Trigger("next") => machine' = "running")
      BY <1>1, <1>2, <1>3, <1>5
  <2>4. Plan["steps"] # <<>> => (Trigger("complete") => machine' = "completed")
      BY <1>1, <1>2, <1>3, <1>5
  <2>5. Plan["steps"] = <<>> => (Trigger("next") => machine' = machine)
      BY <1>1, <1>4, <1>5
  <2>6. ~CanTransition("start") /\ (Trigger("start") => machine' = machine)
      BY <1>1, <1>4, <1>5
  <2>7. QED
      BY <1>5, <2>1, <2>2, <2>3, <2>4, <2>5, <2>6
<1>6. CASE machine # "running"
  <2>1. ~CanTransition("error") /\ (Trigger("error") => machine' = machine)
      BY <1>1, <1>4, <1>6
  <2>2. ~CanTransition("cancel") /\ (Trigger("cancel") => machine' = machine)
      BY <1>1, <1>4, <1>6
  <2>3. Trigger("next") => machine' = machine
      BY <1>1, <1>4, <1>6
  <2>4. Trigger("complete") => machine' = machine
      BY <1>1, <1>4, <1>6
  <2>5. CASE machine = "pending" /\ Plan["steps"] # <<>>
    <3>1. CanTransition("start") /\ (Trigger("start") => machine' = "running")
        BY <1>1, <1>2, <1>3, <2>5
    <3>2. QED
        BY <1>6, <2>1, <2>2, <2>3, <2>4, <2>5, <3>1
  <2>6. CASE ~(machine = "pending" /\ Plan["steps"] # <<>>)
    <3>1. ~CanTransition("start") /\ (Trigger("start") => machine' = machine)
        BY <1>1, <1>4, <1>6, <2>6
    <3>2. QED
        BY <1>6, <2>1, <2>2, <2>3, <2>4, <2>6, <3>1
  <2>7. QED
      BY <2>5, <2>6
<1>7. QED
    BY <1>5, <1>6

\* No event moves a machine that is in a terminal state.
LEMMA TerminalStays ==
    ASSUME machine \in Terminal, NEW event, Trigger(event)
    PROVE  machine' = machine
<1>1. \A t \in Transitions : t[1] # machine
    BY DEF Transitions, Terminal
<1>2. QED
    BY <1>1 DEF Trigger, CanTransition

\* What the machine has reached it keeps (StateMachine.Trigger refuses).
THEOREM TerminalStatesAreFinal == Spec => TerminalIsFinal
<1>1. ASSUME [Next]_vars, machine \in Terminal PROVE machine' = machine
  <2>1. ASSUME NEW c \in Calls, Start(c) \/ Progress(c) PROVE machine' = machine
      BY <1>1, <2>1, TerminalStays DEF Start, Progress, NextGroup, Advance, Finish, Retry, AbandonRetry
  <2>2. ASSUME NEW c, AttemptFailed(c) PROVE machine' = machine
      BY <1>1, <2>2, TerminalStays DEF AttemptFailed
  <2>3. ASSUME NEW a \in actions, NEW ok \in BOOLEAN, ActionReturns(a, ok) \/ LateReturn(a, ok)
        PROVE  machine' = machine
      BY <1>1, <2>2, <2>3, TerminalStays DEF ActionReturns, LateReturn, GroupDone, Advance
  <2>4. ASSUME NEW a \in actions, StepTimesOut(a) PROVE machine' = machine
      BY <2>2, <2>4 DEF StepTimesOut
  <2>5. CASE Cancel \/ CancelContext \/ UNCHANGED vars
      BY <1>1, <2>5, TerminalStays DEF Cancel, CancelContext, vars
  <2>6. QED
      BY <1>1, <2>1, <2>3, <2>4, <2>5 DEF Next, Running
<1>2. QED
    BY <1>1, PTL DEF Spec, TerminalIsFinal

-----------------------------------------------------------------------------
\* The call c moves; the others stay.
CallMoves(c, pc, at, attempt, failed, result) ==
    /\ call' \in [Calls -> Call] /\ \A d \in Calls \ {c} : call'[d] = call[d]
    /\ call'[c].pc = pc /\ call'[c].at = at /\ call'[c].attempt = attempt
    /\ call'[c].failed = failed /\ call'[c].result = result

\* The updates of a call's record, field by field.
LEMMA CallSteps ==
    ASSUME call \in [Calls -> Call], NEW c \in Calls
    PROVE  /\ \A r \in Results : Return(c, r) =>
                CallMoves(c, "returned", call[c].at, call[c].attempt, call[c].failed, r)
           /\ call' = [call EXCEPT ![c].pc = "loop", ![c].at = 1] =>
                CallMoves(c, "loop", 1, call[c].attempt, call[c].failed, call[c].result)
           /\ call' = [call EXCEPT ![c].pc = "loop", ![c].at = @ + 1] =>
                CallMoves(c, "loop", call[c].at + 1, call[c].attempt, call[c].failed, call[c].result)
           /\ call' = [call EXCEPT ![c].pc = "act", ![c].attempt = 0, ![c].failed = FALSE] =>
                CallMoves(c, "act", call[c].at, 0, FALSE, call[c].result)
           /\ call' = [call EXCEPT ![c].pc = "act", ![c].attempt = @ + 1] =>
                CallMoves(c, "act", call[c].at, call[c].attempt + 1, call[c].failed,
                          call[c].result)
           /\ call' = [call EXCEPT ![c].pc = "backoff"] =>
                CallMoves(c, "backoff", call[c].at, call[c].attempt, call[c].failed, call[c].result)
           /\ \A ok \in BOOLEAN : call' = [call EXCEPT ![c].failed = @ \/ ~ok] =>
                CallMoves(c, call[c].pc, call[c].at, call[c].attempt, call[c].failed \/ ~ok,
                          call[c].result)
<1>0. call[c] \in Call
    OBVIOUS
<1>1. ASSUME NEW r \in Results, Return(c, r)
      PROVE  CallMoves(c, "returned", call[c].at, call[c].attempt, call[c].failed, r)
  <2> DEFINE new == [call[c] EXCEPT !.pc = "returned", !.result = r]
  <2>1. call' = [call EXCEPT ![c] = new]
      BY <1>1 DEF Return
  <2>2. /\ new \in Call /\ new.pc = "returned" /\ new.at = call[c].at
        /\ new.attempt = call[c].attempt /\ new.result = r
        /\ new.failed = call[c].failed
      BY <1>0 DEF Call, Stages
  <2> HIDE DEF new
  <2>3. QED
      BY <2>1, <2>2 DEF CallMoves
<1>2. ASSUME call' = [call EXCEPT ![c].pc = "loop", ![c].at = 1]
      PROVE  CallMoves(c, "loop", 1, call[c].attempt, call[c].failed, call[c].result)
  <2> DEFINE new == [call[c] EXCEPT !.pc = "loop", !.at = 1]
  <2>1. call' = [call EXCEPT ![c] = new]
      BY <1>2
  <2>2. /\ new \in Call /\ new.pc = "loop" /\ new.at = 1
        /\ new.attempt = call[c].attempt /\ new.result = call[c].result
        /\ new.failed = call[c].failed
      BY <1>0 DEF Call, Stages
  <2> HIDE DEF new
  <2>3. QED
      BY <2>1, <2>2 DEF CallMoves
<1>3. ASSUME call' = [call EXCEPT ![c].pc = "loop", ![c].at = @ + 1]
      PROVE  CallMoves(c, "loop", call[c].at + 1, call[c].attempt, call[c].failed, call[c].result)
  <2> DEFINE n == call[c].at + 1
             new == [call[c] EXCEPT !.pc = "loop", !.at = n]
  <2>1. call' = [call EXCEPT ![c] = new] /\ n \in Nat
      BY <1>0, <1>3 DEF Call
  <2> HIDE DEF n
  <2>2. /\ new \in Call /\ new.pc = "loop" /\ new.at = n
        /\ new.attempt = call[c].attempt /\ new.result = call[c].result
        /\ new.failed = call[c].failed
      BY <1>0, <2>1 DEF Call, Stages
  <2> HIDE DEF new
  <2>3. QED
      BY <2>1, <2>2 DEF CallMoves, n
<1>4. ASSUME call' = [call EXCEPT ![c].pc = "act", ![c].attempt = 0, ![c].failed = FALSE]
      PROVE  CallMoves(c, "act", call[c].at, 0, FALSE, call[c].result)
  <2> DEFINE new == [call[c] EXCEPT !.pc = "act", !.attempt = 0, !.failed = FALSE]
  <2>1. call' = [call EXCEPT ![c] = new]
      BY <1>4
  <2>2. /\ new \in Call /\ new.pc = "act" /\ new.at = call[c].at
        /\ new.attempt = 0 /\ new.result = call[c].result
        /\ new.failed = FALSE
      BY <1>0 DEF Call, Stages
  <2> HIDE DEF new
  <2>3. QED
      BY <2>1, <2>2 DEF CallMoves
<1>5. ASSUME call' = [call EXCEPT ![c].pc = "act", ![c].attempt = @ + 1]
      PROVE  CallMoves(c, "act", call[c].at, call[c].attempt + 1, call[c].failed,
                          call[c].result)
  <2> DEFINE n == call[c].attempt + 1
             new == [call[c] EXCEPT !.pc = "act", !.attempt = n]
  <2>1. call' = [call EXCEPT ![c] = new] /\ n \in Nat
      BY <1>0, <1>5 DEF Call
  <2> HIDE DEF n
  <2>2. /\ new \in Call /\ new.pc = "act" /\ new.at = call[c].at
        /\ new.attempt = n /\ new.result = call[c].result
        /\ new.failed = call[c].failed
      BY <1>0, <2>1 DEF Call, Stages
  <2> HIDE DEF new
  <2>3. QED
      BY <2>1, <2>2 DEF CallMoves, n
<1>6. ASSUME call' = [call EXCEPT ![c].pc = "backoff"]
      PROVE  CallMoves(c, "backoff", call[c].at, call[c].attempt, call[c].failed, call[c].result)
  <2> DEFINE new == [call[c] EXCEPT !.pc = "backoff"]
  <2>1. call' = [call EXCEPT ![c] = new]
      BY <1>6
  <2>2. /\ new \in Call /\ new.pc = "backoff" /\ new.at = call[c].at
        /\ new.attempt = call[c].attempt /\ new.result = call[c].result
        /\ new.failed = call[c].failed
      BY <1>0 DEF Call, Stages
  <2> HIDE DEF new
  <2>3. QED
      BY <2>1, <2>2 DEF CallMoves
<1>7. ASSUME NEW ok \in BOOLEAN, call' = [call EXCEPT ![c].failed = @ \/ ~ok]
      PROVE  CallMoves(c, call[c].pc, call[c].at, call[c].attempt, call[c].failed \/ ~ok,
                       call[c].result)
  <2> DEFINE f == call[c].failed \/ ~ok
             new == [call[c] EXCEPT !.failed = f]
  <2>1. call' = [call EXCEPT ![c] = new] /\ f \in BOOLEAN
      BY <1>7
  <2> HIDE DEF f
  <2>2. /\ new \in Call /\ new.pc = call[c].pc /\ new.at = call[c].at /\ new.failed = f
        /\ new.attempt = call[c].attempt /\ new.result = call[c].result
      BY <1>0, <2>1 DEF Call
  <2> HIDE DEF new
  <2>3. QED
      BY <2>1, <2>2 DEF CallMoves, f
<1>8. QED
    BY <1>1, <1>2, <1>3, <1>4, <1>5, <1>6, <1>7

\* What the machine has to show for a result.
LEMMA Outcomes ==
    /\ DOMAIN Outcome = {"ok", "failed", "ctx", "abandoned"}
    /\ Outcome["ok"] = "completed" /\ Outcome["failed"] = "failed"
    /\ Outcome["ctx"] = "canceled" /\ Outcome["abandoned"] = "running"
BY DEF Outcome

\* What running actions must be while the call is at its stage.
ActionsFit(c, pc, at, attempt) ==
    \A a \in actions' :
        /\ a \in Action /\ a.by = c
        /\ a.awaited => pc = "act" /\ a.step \in Groups(c)[at] /\ a.attempt = attempt
        /\ ~a.awaited => a.step \in timedOut'
CountsFit ==
    /\ succeeded' \in [Steps -> Nat] /\ effects' \in [Steps -> Nat]
    /\ \A s \in Steps : succeeded'[s] <= 1
    /\ \A s \in Steps : s \notin timedOut' => effects'[s] = succeeded'[s]

\* All that runs belongs to the call that was admitted.
LEMMA Owner ==
    ASSUME WorkflowInv, NEW c \in Admitted
    PROVE  /\ c \in Calls /\ call[c] \in Call /\ \A a \in actions : a \in Action /\ a.by = c
           /\ machine # "pending" /\ Plan["steps"] # <<>>
           /\ machine = IF cancelled THEN "canceled" ELSE Shows(c)
BY DEF WorkflowInv, WorkflowTypeOK, AdmitInv, ActionInv, MachineInv, Admitted

\* A step of the admitted call keeps the invariant if it keeps what the
\* invariant says of that call.
LEMMA OwnStep ==
    ASSUME WorkflowInv, NEW c \in Admitted,
           NEW pc, NEW at, NEW attempt, NEW failed, NEW result,
           CallMoves(c, pc, at, attempt, failed, result),
           pc # "idle", result # "refused", pc # "returned" <=> result = "none",
           pc \in {"loop", "act", "backoff"} => at \in Nat \ {0},
           pc \in {"act", "backoff"} => at \in DOMAIN Groups(c),
           pc \in {"act", "backoff"} => Attempts(c),
           pc = "backoff" => Mode[c] = "steps", failed => Mode[c] = "groups",
           machine' \in States \ {"pending"},
           machine' = IF cancelled' THEN "canceled"
                      ELSE IF result = "none" THEN "running" ELSE Outcome[result],
           ActionsFit(c, pc, at, attempt), CountsFit,
           \A i \in DOMAIN Groups(c) : \A s \in Groups(c)[i] : StepDone(c, i, s)'
    PROVE  WorkflowInv'
<1>0. c \in Calls /\ \A a \in actions : a \in Action /\ a.by = c
    BY Owner
<1>1. WorkflowTypeOK'
    BY DEF CallMoves, CountsFit, ActionsFit, WorkflowTypeOK
<1>2. \A d \in Calls : d \in Admitted' <=> d = c
  <2>1. \A d \in Calls : d \in Admitted <=> d = c
      BY DEF WorkflowInv, AdmitInv
  <2>2. \A d \in Calls \ {c} : d \in Admitted' <=> d \in Admitted
      BY DEF CallMoves, Admitted
  <2>3. c \in Admitted'
      BY <1>0 DEF CallMoves, Admitted
  <2>4. QED
      BY <1>0, <2>1, <2>2, <2>3
<1>3. Admitted' \subseteq Calls
    BY DEF Admitted
<1>4. AdmitInv'
  <2>1. Plan["steps"] # <<>>
      BY Owner
  <2>2. \A d \in Calls : call'[d].pc # "returned" <=> call'[d].result = "none"
      BY <1>0 DEF CallMoves, WorkflowInv, AdmitInv
  <2>3. QED
      BY <1>0, <1>2, <1>3, <2>1, <2>2 DEF AdmitInv
<1>5. PositionInv'
    BY <1>0 DEF CallMoves, WorkflowInv, PositionInv, Groups, Attempts
<1>6. ActionInv'
    BY <1>0, <1>2, <1>3 DEF ActionsFit, CallMoves, ActionInv, Group, Groups
<1>7. SuccessInv'
    BY <1>2, <1>3 DEF CountsFit, SuccessInv, Groups
<1>8. MachineInv'
  <2>1. Shows(c)' = IF result = "none" THEN "running" ELSE Outcome[result]
      BY <1>0 DEF CallMoves, Shows, Outcome
  <2>2. QED
      BY <1>2, <1>3, <2>1 DEF MachineInv
<1>9. QED
    BY <1>1, <1>4, <1>5, <1>6, <1>7, <1>8 DEF WorkflowInv

\* What the invariant says of a call that is under way.
LEMMA UnderWay ==
    ASSUME WorkflowInv, NEW c \in Calls, call[c].pc \in {"loop", "act", "backoff"}
    PROVE  /\ c \in Admitted /\ call[c] \in Call /\ call[c].result = "none"
           /\ machine = IF cancelled THEN "canceled" ELSE "running"
           /\ call[c].at \in Nat \ {0} /\ Groups(c) \in Seq(SUBSET Steps)
           /\ \A i \in DOMAIN Groups(c) : \A s \in Groups(c)[i] : s \in Steps /\ StepDone(c, i, s)
           /\ \A i, j \in DOMAIN Groups(c) : i # j => Groups(c)[i] \cap Groups(c)[j] = {}
           /\ \A a \in actions : /\ a \in Action /\ a.by = c /\ (~a.awaited => a.step \in timedOut)
                                 /\ a.awaited => /\ call[c].pc = "act" /\ a.attempt = call[c].attempt
                                                 /\ a.step \in Groups(c)[call[c].at]
           /\ call[c].failed => Mode[c] = "groups"
           /\ call[c].pc \in {"act", "backoff"} => Attempts(c)
           /\ succeeded \in [Steps -> Nat] /\ effects \in [Steps -> Nat]
           /\ \A s \in Steps : succeeded[s] <= 1 /\ (s \notin timedOut => effects[s] = succeeded[s])
<1> USE WorkflowAssumption
<1>1. call[c] \in Call /\ call[c].result = "none"
    BY DEF WorkflowInv, WorkflowTypeOK, AdmitInv
<1>2. c \in Admitted
    BY <1>1 DEF Admitted
<1>3. machine = IF cancelled THEN "canceled" ELSE "running"
    BY <1>1, <1>2 DEF WorkflowInv, MachineInv, Shows
<1>4. /\ call[c].at \in Nat \ {0} /\ (call[c].failed => Mode[c] = "groups")
      /\ call[c].pc \in {"act", "backoff"} => Attempts(c)
    BY DEF WorkflowInv, PositionInv
<1>5. Groups(c) \in Seq(SUBSET Steps)
  <2>1. Mode[c] \in {"steps", "groups"}
      OBVIOUS
  <2>2. Plan[Mode[c]] \in Seq(SUBSET Steps)
      BY <2>1
  <2>3. QED
      BY <2>2 DEF Groups
<1>6. \A i \in DOMAIN Groups(c) : \A s \in Groups(c)[i] : s \in Steps /\ StepDone(c, i, s)
    BY <1>2, <1>5 DEF WorkflowInv, SuccessInv
<1>7. \A i, j \in DOMAIN Groups(c) : i # j => Groups(c)[i] \cap Groups(c)[j] = {}
  <2>1. Mode[c] \in {"steps", "groups"}
      OBVIOUS
  <2>2. QED
      BY <2>1 DEF Groups
<1>8. \A a \in actions : a \in Action /\ a.by = c
    BY <1>2, Owner
<1>9. \A a \in actions : /\ ~a.awaited => a.step \in timedOut
                         /\ a.awaited => /\ call[c].pc = "act" /\ a.attempt = call[c].attempt
                                         /\ a.step \in Groups(c)[call[c].at]
    BY <1>8 DEF WorkflowInv, ActionInv, Group
<1>10. /\ succeeded \in [Steps -> Nat] /\ effects \in [Steps -> Nat]
       /\ \A s \in Steps : succeeded[s] <= 1 /\ (s \notin timedOut => effects[s] = succeeded[s])
    BY DEF WorkflowInv, WorkflowTypeOK, SuccessInv
<1>11. QED
    BY <1>1, <1>2, <1>3, <1>4, <1>5, <1>6, <1>7, <1>8, <1>9, <1>10

\* The counters, when no action returns.
LEMMA SameCounts ==
    ASSUME WorkflowInv, UNCHANGED <<timedOut, succeeded, effects>>
    PROVE  CountsFit
BY DEF WorkflowInv, WorkflowTypeOK, SuccessInv, CountsFit

\* A call that returns, with the machine showing its result.
LEMMA ReturnStep ==
    ASSUME WorkflowInv, NEW c \in Calls, call[c].pc \in {"loop", "backoff"},
           NEW r \in {"ok", "ctx", "abandoned"}, Return(c, r),
           machine' = IF cancelled THEN "canceled" ELSE Outcome[r],
           r = "ok" => call[c].at > Len(Groups(c)),
           UNCHANGED <<actions, cancelled, timedOut, succeeded, effects>>
    PROVE  WorkflowInv'
<1>1. CallMoves(c, "returned", call[c].at, call[c].attempt, call[c].failed, r)
    BY CallSteps DEF WorkflowInv, WorkflowTypeOK, Results
<1>2. c \in Admitted
    BY UnderWay
<1>3. machine' \in States \ {"pending"}
    BY Outcomes DEF States
<1>4. ActionsFit(c, "returned", call[c].at, call[c].attempt)
  <2>1. \A a \in actions : /\ a \in Action /\ a.by = c /\ (~a.awaited => a.step \in timedOut)
                           /\ ~a.awaited
      BY UnderWay
  <2>2. QED
      BY <2>1 DEF ActionsFit
<1>5. \A i \in DOMAIN Groups(c) : \A s \in Groups(c)[i] : StepDone(c, i, s)'
  <2> SUFFICES ASSUME NEW i \in DOMAIN Groups(c), NEW s \in Groups(c)[i] PROVE StepDone(c, i, s)'
      OBVIOUS
  <2>1. StepDone(c, i, s) /\ Groups(c) \in Seq(SUBSET Steps) /\ call[c].at \in Nat
      BY UnderWay
  <2>2. r = "ok" => i < call[c].at
      BY <2>1
  <2>3. r = "ok" => succeeded[s] = Due(c)
      BY <2>1, <2>2 DEF StepDone
  <2>4. QED
      BY <1>1, <2>3 DEF CallMoves, StepDone
<1>6. call[c].failed => Mode[c] = "groups"
    BY UnderWay
<1>7. CountsFit
    BY SameCounts
<1>8. QED
    BY <1>1, <1>2, <1>3, <1>4, <1>5, <1>6, <1>7, OwnStep

\* The actions of a group are begun.
LEMMA BeginStep ==
    ASSUME WorkflowInv, NEW c \in Calls, call[c].pc \in {"loop", "backoff"},
           call[c].at \in DOMAIN Groups(c), Attempts(c), NEW n \in Nat, NEW f, f => Mode[c] = "groups",
           CallMoves(c, "act", call[c].at, n, f, call[c].result), Begin(c, Group(c), n),
           UNCHANGED <<machine, cancelled, timedOut, succeeded, effects>>
    PROVE  WorkflowInv'
<1> DEFINE G == Groups(c)[call[c].at]
           new == [by : {c}, step : G, attempt : {n}, awaited : {TRUE}]
<1>0. G \subseteq Steps
    BY UnderWay
<1>1. c \in Admitted /\ call[c].result = "none" /\ call[c].at \in Nat \ {0}
    BY UnderWay
<1>2. machine' = IF cancelled THEN "canceled" ELSE "running"
    BY UnderWay
<1>3. actions' = actions \cup new
    BY DEF Begin, Group
<1>4. \A a \in new : /\ a \in Action /\ a.by = c /\ a.awaited /\ a.step \in G /\ a.attempt = n
    BY <1>0 DEF Action
<1>5. \A s \in G : \E a \in new : a.by = c /\ a.awaited /\ a.step = s
  <2> SUFFICES ASSUME NEW s \in G PROVE \E a \in new : a.by = c /\ a.awaited /\ a.step = s
      OBVIOUS
  <2>1. [by |-> c, step |-> s, attempt |-> n, awaited |-> TRUE] \in new
      OBVIOUS
  <2>2. QED
      BY <2>1
<1> HIDE DEF new
<1>6. ActionsFit(c, "act", call[c].at, n)
  <2>1. \A a \in actions : /\ a \in Action /\ a.by = c /\ (~a.awaited => a.step \in timedOut)
                           /\ ~a.awaited
      BY UnderWay
  <2>2. QED
      BY <1>3, <1>4, <2>1 DEF ActionsFit
<1>7. \A s \in G : Awaits(c, s)'
    BY <1>3, <1>5 DEF Awaits
<1>8. \A i \in DOMAIN Groups(c) : \A s \in Groups(c)[i] : StepDone(c, i, s)'
  <2> SUFFICES ASSUME NEW i \in DOMAIN Groups(c), NEW s \in Groups(c)[i] PROVE StepDone(c, i, s)'
      OBVIOUS
  <2>1. StepDone(c, i, s)
      BY UnderWay
  <2>2. i = call[c].at => Awaits(c, s)'
      BY <1>7
  <2>3. QED
      BY <1>1, <2>1, <2>2 DEF CallMoves, StepDone
<1>9. CountsFit
    BY SameCounts
<1>10. machine' \in States \ {"pending"}
    BY <1>2 DEF States
<1>11. QED
    BY <1>1, <1>2, <1>6, <1>8, <1>9, <1>10, OwnStep

\* A group that is empty, or whose step is not attempted, is passed.
LEMMA SkipStep ==
    ASSUME WorkflowInv, NEW c \in Calls, call[c].pc = "loop",
           Group(c) = {} \/ ~Attempts(c),
           CallMoves(c, "loop", call[c].at + 1, call[c].attempt, call[c].failed, call[c].result),
           UNCHANGED <<machine, actions, cancelled, timedOut, succeeded, effects>>
    PROVE  WorkflowInv'
<1>1. /\ c \in Admitted /\ call[c].result = "none" /\ call[c].at \in Nat \ {0}
      /\ machine = IF cancelled THEN "canceled" ELSE "running"
      /\ call[c].failed => Mode[c] = "groups"
      /\ Groups(c) \in Seq(SUBSET Steps)
    BY UnderWay
<1>2. machine' \in States \ {"pending"} /\ call[c].at + 1 \in Nat \ {0}
    BY <1>1 DEF States
<1>3. ActionsFit(c, "loop", call[c].at + 1, call[c].attempt)
  <2>1. \A a \in actions : /\ a \in Action /\ a.by = c /\ (~a.awaited => a.step \in timedOut)
                           /\ ~a.awaited
      BY UnderWay
  <2>2. QED
      BY <2>1 DEF ActionsFit
<1>4. ASSUME NEW i \in DOMAIN Groups(c), NEW s \in Groups(c)[i] PROVE StepDone(c, i, s)'
  <2>1. StepDone(c, i, s) /\ i \in Nat
      BY <1>1, UnderWay
  <2>2. CASE i = call[c].at
    <3>1. ~Attempts(c)
        BY <2>2 DEF Group
    <3>2. succeeded[s] = Due(c)
        BY <2>1, <2>2, <3>1 DEF StepDone, Due
    <3>3. QED
        BY <1>1, <2>1, <2>2, <3>2 DEF CallMoves, StepDone
  <2>3. CASE i # call[c].at
    <3>1. i < call[c].at => succeeded[s] = Due(c)
        BY <2>1 DEF StepDone
    <3>2. i > call[c].at => succeeded[s] = 0
        BY <2>1 DEF StepDone
    <3>3. QED
        BY <1>1, <2>1, <2>3, <3>1, <3>2 DEF CallMoves, StepDone
  <2>4. QED
      BY <2>2, <2>3
<1>5. CountsFit
    BY SameCounts
<1>6. QED
    BY <1>1, <1>2, <1>3, <1>4, <1>5, OwnStep

\* The loop of a call and its back-off.
LEMMA ProgressStep ==
    ASSUME WorkflowInv, NEW c \in Calls, Progress(c)
    PROVE  WorkflowInv'
<1>0. call \in [Calls -> Call] /\ machine \in States
    BY DEF WorkflowInv, WorkflowTypeOK
<1>1. ASSUME NextGroup(c) PROVE WorkflowInv'
  <2>1. /\ call[c].pc = "loop" /\ call[c].at <= Len(Groups(c))
        /\ UNCHANGED <<cancelled, timedOut, succeeded, effects>>
      BY <1>1 DEF NextGroup
  <2>2. machine = IF cancelled THEN "canceled" ELSE "running"
      BY <2>1, UnderWay
  <2>3. CASE ctxDone
    <3>1. Trigger("cancel") /\ Return(c, "ctx") /\ UNCHANGED actions
        BY <1>1, <2>3 DEF NextGroup
    <3>2. machine' = "canceled"
        BY <1>0, <2>2, <3>1, TriggerSteps
    <3>3. QED
        BY <2>1, <3>1, <3>2, ReturnStep, Outcomes
  <2>4. CASE ~ctxDone /\ (Group(c) = {} \/ ~Attempts(c))
    <3>1. Advance(c) /\ UNCHANGED actions
        BY <1>1, <2>4 DEF NextGroup
    <3>2. machine' = machine
        BY <1>0, <3>1, TriggerSteps DEF Advance
    <3>3. CallMoves(c, "loop", call[c].at + 1, call[c].attempt, call[c].failed, call[c].result)
        BY <1>0, <3>1, CallSteps DEF Advance
    <3>4. QED
        BY <2>1, <2>4, <3>1, <3>2, <3>3, SkipStep
  <2>5. CASE ~ctxDone /\ Group(c) # {} /\ Attempts(c)
    <3>1. /\ call' = [call EXCEPT ![c].pc = "act", ![c].attempt = 0, ![c].failed = FALSE]
          /\ Begin(c, Group(c), 0) /\ UNCHANGED machine
        BY <1>1, <2>5 DEF NextGroup
    <3>2. CallMoves(c, "act", call[c].at, 0, FALSE, call[c].result)
        BY <1>0, <3>1, CallSteps
    <3>3. call[c].at \in DOMAIN Groups(c)
        BY <2>1, UnderWay
    <3>4. QED
        BY <2>1, <2>5, <3>1, <3>2, <3>3, BeginStep
  <2>6. QED
      BY <2>3, <2>4, <2>5
<1>2. ASSUME Finish(c) PROVE WorkflowInv'
  <2>1. /\ call[c].pc = "loop" /\ call[c].at > Len(Groups(c)) /\ Trigger("complete")
        /\ Return(c, "ok") /\ UNCHANGED <<actions, cancelled, timedOut, succeeded, effects>>
      BY <1>2 DEF Finish
  <2>2. machine = IF cancelled THEN "canceled" ELSE "running"
      BY <2>1, UnderWay
  <2>3. Plan["steps"] # <<>>
      BY <2>1, UnderWay, Owner
  <2>4. machine' = IF cancelled THEN "canceled" ELSE "completed"
      BY <1>0, <2>1, <2>2, <2>3, TriggerSteps
  <2>5. QED
      BY <2>1, <2>4, ReturnStep, Outcomes
<1>3. ASSUME Retry(c) PROVE WorkflowInv'
  <2>1. /\ call[c].pc = "backoff" /\ Begin(c, Group(c), call[c].attempt + 1)
        /\ UNCHANGED <<machine, cancelled, timedOut, succeeded, effects>>
        /\ CallMoves(c, "act", call[c].at, call[c].attempt + 1, call[c].failed, call[c].result)
      BY <1>0, <1>3, CallSteps DEF Retry
  <2>2. /\ call[c].attempt \in Nat /\ (call[c].failed => Mode[c] = "groups")
        /\ Attempts(c)
      BY <2>1, UnderWay DEF Call
  <2>3. call[c].at \in DOMAIN Groups(c)
      BY <2>1 DEF WorkflowInv, PositionInv
  <2>4. call[c].attempt + 1 \in Nat
      BY <2>2
  <2>5. QED
      BY <2>1, <2>2, <2>3, <2>4, BeginStep
<1>4. ASSUME AbandonRetry(c) PROVE WorkflowInv'
  <2>1. /\ call[c].pc = "backoff" /\ Return(c, "abandoned")
        /\ UNCHANGED <<machine, actions, cancelled, timedOut, succeeded, effects>>
      BY <1>4 DEF AbandonRetry
  <2>2. machine = IF cancelled THEN "canceled" ELSE "running"
      BY <2>1, UnderWay
  <2>3. QED
      BY <2>1, <2>2, ReturnStep, Outcomes
<1>5. QED
    BY <1>1, <1>2, <1>3, <1>4 DEF Progress

\* The group of a call that takes one step at a time has one step, and an
\* awaited action is known by its step.
LEMMA AwaitedAlone ==
    ASSUME WorkflowInv, NEW a \in actions, a.awaited
    PROVE  /\ a.by \in Calls /\ call[a.by].pc = "act" /\ call[a.by].at \in DOMAIN Groups(a.by)
           /\ a.step \in Groups(a.by)[call[a.by].at] /\ a.step \in Steps
           /\ \A b \in actions : b.awaited /\ b.step = a.step => b = a
           /\ Mode[a.by] = "steps" => /\ Groups(a.by)[call[a.by].at] = {a.step}
                                      /\ \A b \in actions : b.awaited => b = a
<1> DEFINE c == a.by
<1>1. a \in Action /\ c \in Calls /\ call[c].pc = "act" /\ a.step \in Steps
    BY DEF WorkflowInv, WorkflowTypeOK, ActionInv, Action
<1>2. call[c].at \in DOMAIN Groups(c)
    BY <1>1 DEF WorkflowInv, PositionInv
<1> HIDE DEF c
<1>3. \A b \in actions : /\ b \in Action /\ b.by = c
                         /\ b.awaited => b.attempt = call[c].attempt /\ b.step \in Groups(c)[call[c].at]
    BY <1>1, UnderWay
<1>4. ASSUME NEW b \in actions, b.awaited, b.step = a.step PROVE b = a
  <2>1. b \in Action /\ b.by = a.by /\ b.attempt = a.attempt
      BY <1>3, <1>4 DEF c
  <2>2. b.awaited = a.awaited
      BY <1>1, <1>4, <2>1 DEF Action
  <2>3. QED
      BY <1>1, <1>4, <2>1, <2>2 DEF Action
<1>5. ASSUME Mode[c] = "steps" PROVE Groups(c)[call[c].at] = {a.step}
  <2>1. PICK s \in Steps : Plan["steps"][call[c].at] = {s}
      BY <1>2, <1>5, WorkflowAssumption DEF Groups
  <2>2. Groups(c)[call[c].at] = {s}
      BY <1>5, <2>1 DEF Groups
  <2>3. QED
      BY <1>3, <2>2
<1>6. Mode[c] = "steps" => \A b \in actions : b.awaited => b = a
    BY <1>3, <1>4, <1>5
<1>7. QED
    BY <1>1, <1>2, <1>3, <1>4, <1>5, <1>6 DEF c

\* An attempt that failed leads to a back-off or to the end of the call.
LEMMA FailStep ==
    ASSUME WorkflowInv, NEW c \in Calls, call[c].pc = "act", AttemptFailed(c), UNCHANGED cancelled,
           \A a \in actions' : a \in Action /\ a.by = c /\ ~a.awaited /\ a.step \in timedOut',
           CountsFit,
           Mode[c] = "steps" =>
             /\ \A s \in Groups(c)[call[c].at] : succeeded'[s] = 0
             /\ \A s \in Steps : succeeded'[s] = succeeded[s]
    PROVE  WorkflowInv'
<1>0. call \in [Calls -> Call] /\ machine \in States /\ call[c] \in Call
    BY DEF WorkflowInv, WorkflowTypeOK
<1>1. /\ c \in Admitted /\ call[c].result = "none" /\ call[c].at \in Nat \ {0}
      /\ (call[c].failed => Mode[c] = "groups") /\ Attempts(c)
      /\ machine = IF cancelled THEN "canceled" ELSE "running"
    BY UnderWay
<1>2. call[c].at \in DOMAIN Groups(c)
    BY DEF WorkflowInv, PositionInv
<1>3. \A pc, at, n : ActionsFit(c, pc, at, n)
    BY DEF ActionsFit
<1>4. CASE call[c].attempt < MaxRetries[c] /\ Mode[c] = "steps"
  <2>1. /\ UNCHANGED machine
        /\ CallMoves(c, "backoff", call[c].at, call[c].attempt, call[c].failed, call[c].result)
      BY <1>0, <1>4, CallSteps DEF AttemptFailed
  <2>2. ASSUME NEW i \in DOMAIN Groups(c), NEW s \in Groups(c)[i] PROVE StepDone(c, i, s)'
    <3>1. StepDone(c, i, s) /\ s \in Steps
        BY UnderWay
    <3>2. QED
        BY <1>1, <1>4, <2>1, <3>1 DEF CallMoves, StepDone
  <2>3. machine' \in States \ {"pending"}
      BY <1>1, <2>1 DEF States
  <2>4. QED
      BY <1>1, <1>2, <1>3, <1>4, <2>1, <2>2, <2>3, OwnStep
<1>5. CASE ~(call[c].attempt < MaxRetries[c] /\ Mode[c] = "steps")
  <2>1. Trigger("error") /\ Return(c, "failed")
      BY <1>5 DEF AttemptFailed
  <2>2. CallMoves(c, "returned", call[c].at, call[c].attempt, call[c].failed, "failed")
      BY <1>0, <2>1, CallSteps DEF Results
  <2>3. machine' = IF cancelled THEN "canceled" ELSE "failed"
      BY <1>0, <1>1, <2>1, TriggerSteps
  <2>4. ASSUME NEW i \in DOMAIN Groups(c), NEW s \in Groups(c)[i] PROVE StepDone(c, i, s)'
      BY <2>2 DEF CallMoves, StepDone
  <2>5. machine' \in States \ {"pending"}
      BY <2>3 DEF States
  <2>6. machine' = IF cancelled' THEN "canceled" ELSE Outcome["failed"]
      BY <2>3, Outcomes
  <2>7. QED
      BY <1>1, <1>3, <2>2, <2>4, <2>5, <2>6, OwnStep
<1>6. QED
    BY <1>4, <1>5

\* An awaited action returns.
LEMMA ReturnsStep ==
    ASSUME WorkflowInv, NEW a \in actions, NEW ok \in BOOLEAN, ActionReturns(a, ok)
    PROVE  WorkflowInv'
<1>0. PICK c \in Calls : c = a.by /\ a.awaited
    BY AwaitedAlone DEF ActionReturns
<1>1. /\ call[c].pc = "act" /\ call[c].at \in DOMAIN Groups(c) /\ a.step \in Groups(c)[call[c].at]
      /\ a.step \in Steps /\ \A b \in actions : b.awaited /\ b.step = a.step => b = a
      /\ Mode[c] = "steps" => /\ Groups(c)[call[c].at] = {a.step}
                              /\ \A b \in actions : b.awaited => b = a
    BY <1>0, AwaitedAlone
<1>2. /\ c \in Admitted /\ call[c].result = "none" /\ call[c].at \in Nat \ {0}
      /\ (call[c].failed => Mode[c] = "groups") /\ Groups(c) \in Seq(SUBSET Steps)
      /\ Attempts(c) /\ Due(c) = 1
      /\ machine = IF cancelled THEN "canceled" ELSE "running"
      /\ \A b \in actions : b \in Action /\ b.by = c /\ (~b.awaited => b.step \in timedOut)
    BY <1>1, UnderWay DEF Due
<1>3. /\ call \in [Calls -> Call] /\ machine \in States /\ call[c] \in Call
    BY DEF WorkflowInv, WorkflowTypeOK
<1>4. /\ actions' = actions \ {a} /\ UNCHANGED <<cancelled, timedOut>>
      /\ succeeded' = IF ok THEN [succeeded EXCEPT ![a.step] = @ + 1] ELSE succeeded
      /\ effects' = IF ok THEN [effects EXCEPT ![a.step] = @ + 1] ELSE effects
    BY DEF ActionReturns
<1>5. succeeded[a.step] = 0
  <2>1. Awaits(c, a.step)
      BY <1>0 DEF Awaits
  <2>2. StepDone(c, call[c].at, a.step)
      BY <1>1, UnderWay
  <2>3. QED
      BY <1>1, <2>1, <2>2 DEF StepDone
<1>6. /\ succeeded'[a.step] = IF ok THEN 1 ELSE 0
      /\ \A s \in Steps \ {a.step} : succeeded'[s] = succeeded[s]
  <2>1. succeeded \in [Steps -> Nat]
      BY DEF WorkflowInv, WorkflowTypeOK
  <2>2. QED
      BY <1>1, <1>4, <1>5, <2>1
<1>7. CountsFit
  <2>1. /\ succeeded \in [Steps -> Nat] /\ effects \in [Steps -> Nat]
        /\ \A s \in Steps : succeeded[s] <= 1 /\ (s \notin timedOut => effects[s] = succeeded[s])
      BY DEF WorkflowInv, WorkflowTypeOK, SuccessInv
  <2>2. CASE ok
      BY <1>1, <1>4, <1>5, <2>1, <2>2 DEF CountsFit
  <2>3. CASE ~ok
      BY <1>4, <2>1, <2>3 DEF CountsFit
  <2>4. QED
      BY <2>2, <2>3
<1>8. \A i \in DOMAIN Groups(c) \ {call[c].at} : \A s \in Groups(c)[i] :
        s # a.step /\ succeeded'[s] = succeeded[s]
  <2>1. \A i, j \in DOMAIN Groups(c) : i # j => Groups(c)[i] \cap Groups(c)[j] = {}
      BY <1>1, UnderWay
  <2>2. QED
      BY <1>1, <1>2, <1>6, <2>1
<1>9. CASE Mine(c) = {a}
  <2>1. GroupDone(c, ok)
      BY <1>0, <1>9 DEF ActionReturns
  <2>2. \A b \in actions' : b \in Action /\ b.by = c /\ ~b.awaited /\ b.step \in timedOut'
      BY <1>2, <1>4, <1>9 DEF Mine
  <2>3. CASE ok /\ ~call[c].failed
    <3>1. Trigger("next") /\ call' = [call EXCEPT ![c].pc = "loop", ![c].at = @ + 1]
        BY <2>1, <2>3 DEF GroupDone, Advance
    <3>2. machine' = machine
        BY <1>3, <3>1, TriggerSteps
    <3>3. CallMoves(c, "loop", call[c].at + 1, call[c].attempt, call[c].failed, call[c].result)
        BY <1>3, <3>1, CallSteps
    <3>4. ASSUME NEW i \in DOMAIN Groups(c), NEW s \in Groups(c)[i] PROVE StepDone(c, i, s)'
      <4>1. StepDone(c, i, s) /\ s \in Steps
          BY <1>1, UnderWay
      <4>2. i \in Nat
          BY <1>2
      <4>3. CASE i = call[c].at
        <5>1. s # a.step => ~Awaits(c, s)
            BY <1>9 DEF Awaits, Mine
        <5>2. s # a.step => succeeded[s] = 1
            BY <1>1, <2>3, <4>1, <4>3, <5>1 DEF StepDone
        <5>3. succeeded'[s] = 1
            BY <1>6, <2>3, <4>1, <5>2
        <5>4. QED
            BY <1>2, <3>3, <4>3, <5>3 DEF CallMoves, StepDone
      <4>4. CASE i # call[c].at
        <5>1. succeeded'[s] = succeeded[s]
            BY <1>8, <4>4
        <5>2. i < call[c].at => succeeded[s] = 1
            BY <1>1, <1>2, <4>1 DEF StepDone
        <5>3. i > call[c].at => succeeded[s] = 0
            BY <1>1, <4>1 DEF StepDone
        <5>4. QED
            BY <1>2, <3>3, <4>2, <4>4, <5>1, <5>2, <5>3 DEF CallMoves, StepDone
      <4>5. QED
          BY <4>3, <4>4
    <3>5. ActionsFit(c, "loop", call[c].at + 1, call[c].attempt)
        BY <2>2 DEF ActionsFit
    <3>6. machine' \in States \ {"pending"} /\ call[c].at + 1 \in Nat \ {0}
        BY <1>2, <3>2 DEF States
    <3>7. QED
        BY <1>2, <1>4, <1>7, <3>2, <3>3, <3>4, <3>5, <3>6, OwnStep
  <2>4. CASE ~(ok /\ ~call[c].failed)
    <3>1. AttemptFailed(c)
        BY <2>1, <2>4 DEF GroupDone
    <3>2. ASSUME Mode[c] = "steps"
          PROVE  /\ \A s \in Groups(c)[call[c].at] : succeeded'[s] = 0
                 /\ \A s \in Steps : succeeded'[s] = succeeded[s]
      <4>1. ~ok
          BY <1>2, <2>4, <3>2
      <4>2. QED
          BY <1>1, <1>4, <1>5, <3>2, <4>1
    <3>3. QED
        BY <1>1, <1>4, <1>7, <2>2, <3>1, <3>2, FailStep
  <2>5. QED
      BY <2>3, <2>4
<1>10. CASE Mine(c) # {a}
  <2>1. /\ call' = [call EXCEPT ![c].failed = @ \/ ~ok] /\ UNCHANGED machine
      BY <1>0, <1>10 DEF ActionReturns
  <2>2. CallMoves(c, "act", call[c].at, call[c].attempt, call[c].failed \/ ~ok, call[c].result)
      BY <1>1, <1>3, <2>1, CallSteps
  <2>3. Mode[c] = "groups"
    <3>1. a \in Mine(c)
        BY <1>0 DEF Mine
    <3>2. PICK b \in Mine(c) : b # a
        BY <1>10, <3>1
    <3>3. Mode[c] # "steps"
        BY <1>1, <3>2 DEF Mine
    <3>4. QED
        BY <3>3, WorkflowAssumption
  <2>4. ActionsFit(c, "act", call[c].at, call[c].attempt)
    <3>1. \A b \in actions : b.awaited => b.step \in Groups(c)[call[c].at] /\ b.attempt = call[c].attempt
        BY <1>1, UnderWay
    <3>2. QED
        BY <1>2, <1>4, <3>1 DEF ActionsFit
  <2>5. /\ ~Awaits(c, a.step)'
        /\ \A s \in Steps \ {a.step} : Awaits(c, s)' <=> Awaits(c, s)
      BY <1>1, <1>4 DEF Awaits
  <2>6. ASSUME NEW i \in DOMAIN Groups(c), NEW s \in Groups(c)[i] PROVE StepDone(c, i, s)'
    <3>1. StepDone(c, i, s) /\ s \in Steps
        BY <1>1, UnderWay
    <3>2. CASE i # call[c].at
      <4>1. succeeded'[s] = succeeded[s]
          BY <1>8, <3>2
      <4>2. QED
          BY <1>1, <1>2, <2>2, <3>1, <3>2, <4>1 DEF CallMoves, StepDone
    <3>3. CASE i = call[c].at /\ s # a.step
      <4>1. succeeded'[s] = succeeded[s] /\ (Awaits(c, s)' <=> Awaits(c, s))
          BY <1>6, <2>5, <3>1, <3>3
      <4>2. call'[c].failed = (call[c].failed \/ ~ok)
          BY <2>2 DEF CallMoves
      <4>3. ~call'[c].failed => ~call[c].failed
          BY <4>2
      <4>4. QED
          BY <1>1, <1>2, <2>2, <3>1, <3>3, <4>1, <4>3 DEF CallMoves, StepDone
    <3>4. CASE i = call[c].at /\ s = a.step
      <4>1. ~call'[c].failed => ok
          BY <2>2 DEF CallMoves
      <4>2. ~call'[c].failed => succeeded'[s] = 1
          BY <1>6, <3>4, <4>1
      <4>3. QED
          BY <1>2, <2>2, <2>5, <3>4, <4>2 DEF CallMoves, StepDone
    <3>5. QED
        BY <3>2, <3>3, <3>4
  <2>7. machine' \in States \ {"pending"}
      BY <1>2, <2>1 DEF States
  <2>8. QED
      BY <1>1, <1>2, <1>4, <1>7, <2>1, <2>2, <2>3, <2>4, <2>6, <2>7, OwnStep
<1>11. QED
    BY <1>9, <1>10

\* The engine gives a step up; its action goes on unattended.
LEMMA TimeOutStep ==
    ASSUME WorkflowInv, NEW a \in actions, StepTimesOut(a)
    PROVE  WorkflowInv'
<1>0. PICK c \in Calls : c = a.by /\ a.awaited
    BY AwaitedAlone DEF StepTimesOut
<1>1. /\ AttemptFailed(c) /\ Mode[c] = "steps" /\ timedOut' = timedOut \cup {a.step}
      /\ actions' = (actions \ {a}) \cup {[a EXCEPT !.awaited = FALSE]}
      /\ UNCHANGED <<cancelled, succeeded, effects>>
    BY <1>0 DEF StepTimesOut
<1>2. /\ call[c].pc = "act" /\ Groups(c)[call[c].at] = {a.step} /\ a.step \in Steps
      /\ call[c].at \in DOMAIN Groups(c) /\ \A b \in actions : b.awaited => b = a
    BY <1>0, <1>1, AwaitedAlone
<1>3. \A b \in actions : b \in Action /\ b.by = c /\ (~b.awaited => b.step \in timedOut)
    BY <1>2, UnderWay
<1>4. \A b \in actions' : b \in Action /\ b.by = c /\ ~b.awaited /\ b.step \in timedOut'
  <2> DEFINE given == [a EXCEPT !.awaited = FALSE]
  <2>1. given \in Action /\ given.by = c /\ given.awaited = FALSE /\ given.step = a.step
      BY <1>0, <1>3 DEF Action
  <2>2. actions' = (actions \ {a}) \cup {given}
      BY <1>1
  <2> HIDE DEF given
  <2>3. QED
      BY <1>1, <1>2, <1>3, <2>1, <2>2
<1>5. CountsFit
    BY <1>1 DEF WorkflowInv, WorkflowTypeOK, SuccessInv, CountsFit
<1>6. succeeded[a.step] = 0
  <2>1. Awaits(c, a.step)
      BY <1>0 DEF Awaits
  <2>2. StepDone(c, call[c].at, a.step)
      BY <1>2, UnderWay
  <2>3. QED
      BY <1>2, <2>1, <2>2 DEF StepDone
<1>7. /\ \A s \in Groups(c)[call[c].at] : succeeded'[s] = 0
      /\ \A s \in Steps : succeeded'[s] = succeeded[s]
    BY <1>1, <1>2, <1>6
<1>8. QED
    BY <1>1, <1>2, <1>4, <1>5, <1>7, FailStep

\* An action that was given up returns after all.
LEMMA LateStep ==
    ASSUME WorkflowInv, NEW a \in actions, NEW ok \in BOOLEAN, LateReturn(a, ok)
    PROVE  WorkflowInv'
<1>1. /\ ~a.awaited /\ actions' = actions \ {a}
      /\ effects' = IF ok THEN [effects EXCEPT ![a.step] = @ + 1] ELSE effects
      /\ UNCHANGED <<machine, call, cancelled, timedOut, succeeded>>
    BY DEF LateReturn
<1>2. a \in Action /\ a.step \in Steps /\ a.step \in timedOut
    BY <1>1 DEF WorkflowInv, WorkflowTypeOK, ActionInv, Action
<1>3. effects' \in [Steps -> Nat] /\ \A s \in Steps \ {a.step} : effects'[s] = effects[s]
  <2>1. effects \in [Steps -> Nat]
      BY DEF WorkflowInv, WorkflowTypeOK
  <2>2. QED
      BY <1>1, <1>2, <2>1
<1>4. Admitted' = Admitted
    BY <1>1 DEF Admitted
<1>5. \A c, s : Awaits(c, s)' <=> Awaits(c, s)
    BY <1>1 DEF Awaits
<1>6. WorkflowTypeOK'
    BY <1>1, <1>3 DEF WorkflowInv, WorkflowTypeOK
<1>7. AdmitInv' /\ PositionInv'
    BY <1>1, <1>4 DEF WorkflowInv, AdmitInv, PositionInv, Groups
<1>8. ActionInv'
    BY <1>1, <1>4 DEF WorkflowInv, ActionInv, Group, Groups
<1>9. SuccessInv'
  <2>1. \A c, i, s : StepDone(c, i, s)' <=> StepDone(c, i, s)
      BY <1>1, <1>5 DEF StepDone
  <2>2. \A s \in Steps : s \notin timedOut' => effects'[s] = succeeded'[s]
      BY <1>1, <1>2, <1>3 DEF WorkflowInv, SuccessInv
  <2>3. QED
      BY <1>1, <1>4, <2>1, <2>2 DEF WorkflowInv, SuccessInv, Groups
<1>10. MachineInv'
    BY <1>1, <1>4 DEF WorkflowInv, MachineInv, Shows, Outcome
<1>11. QED
    BY <1>6, <1>7, <1>8, <1>9, <1>10 DEF WorkflowInv

\* An Execute method is called: it is refused, or the first to be admitted.
LEMMA StartStep ==
    ASSUME WorkflowInv, NEW c \in Calls, Start(c)
    PROVE  WorkflowInv'
<1>1. /\ call[c].pc = "idle" /\ Trigger("start")
      /\ UNCHANGED <<actions, cancelled, timedOut, succeeded, effects>>
    BY DEF Start
<1>2. call \in [Calls -> Call] /\ machine \in States /\ call[c] \in Call
    BY DEF WorkflowInv, WorkflowTypeOK
<1>3. c \notin Admitted /\ call[c].result = "none"
    BY <1>1 DEF WorkflowInv, AdmitInv, Admitted
<1>4. CASE ~CanTransition("start")
  <2>1. machine' = machine /\ Return(c, "refused")
      BY <1>1, <1>2, <1>4, TriggerSteps DEF Start
  <2>2. CallMoves(c, "returned", call[c].at, call[c].attempt, call[c].failed, "refused")
      BY <1>2, <2>1, CallSteps DEF Results
  <2>3. Admitted' = Admitted
      BY <1>3, <2>2 DEF CallMoves, Admitted
  <2>4. c \notin Admitted'
      BY <1>3, <2>3
  <2>5. \A d \in Admitted : d \in Calls \ {c} /\ call'[d] = call[d]
      BY <1>3, <2>2 DEF CallMoves, Admitted
  <2>6. WorkflowTypeOK'
      BY <1>1, <2>1, <2>2 DEF CallMoves, WorkflowInv, WorkflowTypeOK
  <2>7. AdmitInv'
      BY <1>1, <2>1, <2>2, <2>3 DEF CallMoves, WorkflowInv, AdmitInv
  <2>8. PositionInv'
      BY <2>2 DEF CallMoves, WorkflowInv, PositionInv, Groups
  <2>9. ActionInv'
      BY <1>1, <2>3, <2>5 DEF WorkflowInv, ActionInv, Group, Groups
  <2>10. SuccessInv'
    <3>1. ASSUME NEW d \in Admitted, NEW i, NEW s, StepDone(d, i, s) PROVE StepDone(d, i, s)'
        BY <1>1, <2>5, <3>1 DEF StepDone, Awaits
    <3>2. QED
        BY <1>1, <2>1, <2>3, <3>1 DEF WorkflowInv, SuccessInv, Groups
  <2>11. MachineInv'
      BY <1>1, <2>1, <2>3, <2>5 DEF WorkflowInv, MachineInv, Shows, Outcome
  <2>12. QED
      BY <2>6, <2>7, <2>8, <2>9, <2>10, <2>11 DEF WorkflowInv
<1>5. CASE CanTransition("start")
  <2>1. machine = "pending" /\ Plan["steps"] # <<>> /\ machine' = "running"
      BY <1>1, <1>2, <1>5, TriggerSteps
  <2>2. CallMoves(c, "loop", 1, call[c].attempt, call[c].failed, call[c].result)
      BY <1>2, <1>5, CallSteps DEF Start
  <2>3. Admitted = {} /\ ~cancelled /\ actions = {} /\ \A s \in Steps : succeeded[s] = 0
      BY <2>1 DEF WorkflowInv, AdmitInv, ActionInv, SuccessInv
  <2>4. Admitted' = {c}
    <3>1. \A d \in Calls \ {c} : d \notin Admitted'
        BY <2>2, <2>3 DEF CallMoves, Admitted
    <3>2. c \in Admitted' /\ Admitted' \subseteq Calls
        BY <1>3, <2>2 DEF CallMoves, Admitted
    <3>3. QED
        BY <3>1, <3>2
  <2>5. WorkflowTypeOK'
      BY <1>1, <2>1, <2>2 DEF CallMoves, WorkflowInv, WorkflowTypeOK, States
  <2>6. AdmitInv'
      BY <1>3, <2>1, <2>2, <2>4 DEF CallMoves, WorkflowInv, AdmitInv
  <2>7. PositionInv'
      BY <2>2 DEF CallMoves, WorkflowInv, PositionInv, Groups
  <2>8. ActionInv'
      BY <1>1, <2>3 DEF ActionInv
  <2>9. SuccessInv'
    <3>1. ASSUME NEW i \in DOMAIN Groups(c), NEW s \in Groups(c)[i] PROVE StepDone(c, i, s)'
      <4>1. Groups(c) \in Seq(SUBSET Steps)
        <5>1. Mode[c] \in {"steps", "groups"}
            BY WorkflowAssumption
        <5>2. QED
            BY <5>1, WorkflowAssumption DEF Groups
      <4>2. s \in Steps /\ i \in Nat \ {0}
          BY <4>1
      <4>3. succeeded'[s] = 0
          BY <1>1, <2>3, <4>2
      <4>4. QED
          BY <1>3, <2>2, <4>2, <4>3 DEF CallMoves, StepDone
    <3>2. QED
        BY <1>1, <2>1, <2>4, <3>1 DEF WorkflowInv, SuccessInv, Groups
  <2>10. MachineInv'
      BY <1>1, <1>3, <2>1, <2>2, <2>3, <2>4 DEF CallMoves, MachineInv, Shows
  <2>11. QED
      BY <2>5, <2>6, <2>7, <2>8, <2>9, <2>10 DEF WorkflowInv
<1>6. QED
    BY <1>4, <1>5

\* Cancel moves the machine and nothing else.
LEMMA CancelStep ==
    ASSUME WorkflowInv, Cancel
    PROVE  WorkflowInv'
<1>1. /\ CanTransition("cancel") /\ Trigger("cancel") /\ cancelled'
      /\ UNCHANGED <<call, actions, timedOut, succeeded, effects>>
    BY DEF Cancel
<1>2. machine = "running" /\ machine' = "canceled"
    BY <1>1, TriggerSteps DEF WorkflowInv, WorkflowTypeOK
<1>3. Admitted' = Admitted
    BY <1>1 DEF Admitted
<1>4. WorkflowTypeOK'
    BY <1>1, <1>2 DEF WorkflowInv, WorkflowTypeOK, States
<1>5. AdmitInv' /\ PositionInv'
    BY <1>1, <1>2, <1>3 DEF WorkflowInv, AdmitInv, PositionInv, Groups
<1>6. ActionInv'
    BY <1>1, <1>3 DEF WorkflowInv, ActionInv, Group, Groups
<1>7. SuccessInv'
  <2>1. \A c, i, s : StepDone(c, i, s)' <=> StepDone(c, i, s)
      BY <1>1 DEF StepDone, Awaits
  <2>2. QED
      BY <1>1, <1>2, <1>3, <2>1 DEF WorkflowInv, SuccessInv, Groups
<1>8. MachineInv'
    BY <1>1, <1>2 DEF MachineInv
<1>9. QED
    BY <1>4, <1>5, <1>6, <1>7, <1>8 DEF WorkflowInv

\* The end of the context, and a step that changes nothing, touch none of it.
LEMMA SilentStep ==
    ASSUME WorkflowInv, UNCHANGED <<machine, call, actions, cancelled, timedOut, succeeded, effects>>
    PROVE  WorkflowInv'
BY DEF WorkflowInv, WorkflowTypeOK, AdmitInv, PositionInv, ActionInv, SuccessInv, MachineInv,
       Admitted, Groups, Group, StepDone, Awaits, Shows, Outcome

\* Initially nobody has called and no action runs.
LEMMA InitWorkflow == Init => WorkflowInv
<1> SUFFICES ASSUME Init PROVE WorkflowInv
    OBVIOUS
<1>1. /\ machine = "pending" /\ call = [c \in Calls |-> NotCalled] /\ actions = {}
      /\ cancelled = FALSE /\ timedOut = {}
      /\ succeeded = [s \in Steps |-> 0] /\ effects = [s \in Steps |-> 0]
    BY DEF Init
<1>2. NotCalled \in Call /\ NotCalled.pc = "idle" /\ ~NotCalled.failed /\ NotCalled.result = "none"
    BY DEF NotCalled, Call, Stages, Results
<1>3. Admitted = {}
    BY <1>1, <1>2 DEF Admitted
<1>4. WorkflowTypeOK
    BY <1>1, <1>2 DEF WorkflowTypeOK, States
<1>5. AdmitInv /\ PositionInv
    BY <1>1, <1>2, <1>3 DEF AdmitInv, PositionInv
<1>6. ActionInv /\ SuccessInv /\ MachineInv
    BY <1>1, <1>3 DEF ActionInv, SuccessInv, MachineInv
<1>7. QED
    BY <1>4, <1>5, <1>6 DEF WorkflowInv

\* Every step of every call and action keeps the invariant.
LEMMA WorkflowInductive == Spec => []WorkflowInv
<1>1. WorkflowInv /\ [Next]_vars => WorkflowInv'
  <2> SUFFICES ASSUME WorkflowInv, [Next]_vars PROVE WorkflowInv'
      OBVIOUS
  <2>1. ASSUME NEW c \in Calls, Start(c) \/ Progress(c) PROVE WorkflowInv'
      BY <2>1, StartStep, ProgressStep
  <2>2. ASSUME Running PROVE WorkflowInv'
      BY <2>2, ReturnsStep, LateStep, TimeOutStep DEF Running
  <2>3. CASE Cancel
      BY <2>3, CancelStep
  <2>4. CASE CancelContext \/ UNCHANGED vars
      BY <2>4, SilentStep DEF CancelContext, vars
  <2>5. QED
      BY <2>1, <2>2, <2>3, <2>4 DEF Next
<1>2. QED
    BY <1>1, InitWorkflow, PTL DEF Spec

-----------------------------------------------------------------------------
\* However many calls of the Execute methods race, one is admitted, and what
\* overlaps its current group is an action that timed out.
THEOREM OnlyOneExecution == Spec => []OneExecution
<1>1. WorkflowInv => OneExecution
  <2> SUFFICES ASSUME WorkflowInv PROVE OneExecution
      OBVIOUS
  <2>1. Cardinality(Admitted) <= 1
    <3>1. CASE Admitted = {}
      <4>1. Cardinality(Admitted) = 0
          BY <3>1, FS_EmptySet
      <4>2. QED
          BY <4>1
    <3>2. CASE Admitted # {}
      <4>0. PICK c : c \in Admitted
          BY <3>2
      <4>1. Admitted = {c}
          BY <4>0 DEF WorkflowInv, AdmitInv
      <4>2. Cardinality(Admitted) = 1
          BY <4>1, FS_Singleton
      <4>3. QED
          BY <4>2
    <3>3. QED
        BY <3>1, <3>2
  <2>2. QED
      BY <2>1 DEF WorkflowInv, ActionInv, OneExecution
<1>2. QED
    BY <1>1, WorkflowInductive, PTL

\* The answer of an Execute method agrees with the steps that succeeded, which
\* for a negative MaxRetries are none, and with the state of the machine,
\* whatever Cancel and the context did.
THEOREM ResultsAgree == Spec => []ResultAgrees
<1>1. WorkflowInv => ResultAgrees
  <2> SUFFICES ASSUME WorkflowInv, NEW c \in Admitted
               PROVE  /\ call[c].result \in DOMAIN Outcome =>
                           machine = IF cancelled THEN "canceled" ELSE Outcome[call[c].result]
                      /\ call[c].result = "ok" =>
                           \A i \in DOMAIN Groups(c) : \A s \in Groups(c)[i] :
                               succeeded[s] = IF Attempts(c) THEN 1 ELSE 0
                      /\ call[c].result = "none" =>
                           machine = IF cancelled THEN "canceled" ELSE "running"
      BY DEF ResultAgrees
  <2>1. machine = IF cancelled THEN "canceled" ELSE Shows(c)
      BY DEF WorkflowInv, MachineInv
  <2>2. call[c].result \in DOMAIN Outcome => Shows(c) = Outcome[call[c].result]
      BY Outcomes DEF Shows
  <2>3. call[c].result = "none" => Shows(c) = "running"
      BY DEF Shows
  <2>4. \A i \in DOMAIN Groups(c) : \A s \in Groups(c)[i] : StepDone(c, i, s)
      BY DEF WorkflowInv, SuccessInv
  <2>5. QED
      BY <2>1, <2>2, <2>3, <2>4 DEF StepDone, Due
<1>2. QED
    BY <1>1, WorkflowInductive, PTL

\* The action of a step takes effect twice only if an attempt of it timed out.
THEOREM EffectsHappenOnce == Spec => []EffectOnce
<1>1. WorkflowInv => EffectOnce
    BY DEF WorkflowInv, WorkflowTypeOK, SuccessInv, EffectOnce
<1>2. QED
    BY <1>1, WorkflowInductive, PTL
=============================================================================
