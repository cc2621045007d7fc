--------------------------- MODULE ExecutionGate ---------------------------
(***************************************************************************)
(* The execution boundary: DecisionGateway (internal/controlplane/         *)
(* gateway.go) and ExecutionGate.Authorize (internal/investordemo/         *)
(* execution_gate.go) serving concurrent HTTP requests over the shared     *)
(* ledger, approval store, policies and grants.                            *)
(*                                                                         *)
(* A request is a caller with a program counter; each of its steps is one  *)
(* critical section of the code (a ledger or approval-store call), and     *)
(* everything it read before is kept in call[c], as in the Go locals.      *)
(***************************************************************************)
EXTENDS GrantAuthority, ApprovalStore, LedgerLog, FiniteSets

CONSTANTS Callers, RequestIDs,
          Requests,     \* the request bodies: id, agent, capability, hash
          Kinds,        \* the entry points in use
          Expiries,     \* the expiries an approval may be requested with
          MaxCalls      \* bound on the requests started

AllKinds == {"authorize", "gate", "execute", "direct"}

ASSUME GateAssumption ==
    /\ Requests \subseteq [id : RequestIDs, agent : Agents, cap : Capabilities, hash : Hashes]
    /\ NoID \notin RequestIDs
    /\ Kinds \subseteq AllKinds
    /\ Expiries \subseteq Nat \cup {NoExpiry}
    /\ MaxCalls \in Nat

VARIABLES approvals,   \* ApprovalStore.approvals
          events,      \* Ledger.events
          pc, call,    \* per caller: where it is, and its locals
          started      \* requests started so far (bounded by MaxCalls)

gateVars == <<approvals, events, pc, call, started>>
vars == <<authVars, gateVars>>

PCs == {"idle", "approval", "decide", "handoff", "canonical", "executed",
        "consume", "execute", "audit", "create"}

Call ==
    [kind : AllKinds \cup {"request"}, req : RequestIDs \cup {NoID}, agent : Agents \cup {NoID},
     cap : Capabilities \cup {NoID}, hash : Hashes, dec : DecisionIDs \cup {NoID},
     apr : ApprovalIDs \cup {NoID}, now : Nat, status : DecisionStatus,
     policy : PolicyIDs \cup {NoID}, version : Nat, via : BOOLEAN,
     expires : Nat \cup {NoExpiry}, res : RequestIDs \cup {NoID}, from : Nat]

Event ==
    [type : {"AUTHORIZATION_DECISION", "EXECUTION_ALLOWED", "EXECUTION_BLOCKED",
             "LEGACY_EXECUTION_ALLOWED", "LEGACY_EXECUTION_BLOCKED",
             "LEGACY_HANDOFF_VALIDATION"},
     req : RequestIDs \cup {NoID}, dec : DecisionIDs \cup {NoID}, agent : Agents \cup {NoID},
     cap : Capabilities \cup {NoID}, hash : Hashes, decision : DecisionStatus \cup {"NONE"},
     policy : PolicyIDs \cup {NoID}, version : Nat,
     apr : ApprovalIDs \cup {NoID}, via : BOOLEAN, direct : BOOLEAN, from : Nat]

NoCall ==
    [kind |-> "gate", req |-> NoID, agent |-> NoID, cap |-> NoID, hash |-> NoHash,
     dec |-> NoID, apr |-> NoID, now |-> 0, status |-> "DENY", policy |-> NoID,
     version |-> 0, via |-> FALSE, expires |-> NoExpiry, res |-> NoID, from |-> 0]

Init ==
    /\ AuthInit
    /\ approvals = [a \in ApprovalIDs |-> NoApproval]
    /\ events = <<>>
    /\ pc = [c \in Callers |-> "idle"]
    /\ call = [c \in Callers |-> NoCall]
    /\ started = 0
-----------------------------------------------------------------------------
Goto(c, label) == pc' = [pc EXCEPT ![c] = label]

\* Go on to label with the locals k; a call that returns drops its locals.
Continue(c, label, k) ==
    /\ Goto(c, label)
    /\ call' = [call EXCEPT ![c] = IF label = "idle" THEN NoCall ELSE k]

\* The events of a call carry its locals.  The last four fields are history
\* and not in the Go event: of an execution the approval the call presented,
\* of a decision that it was allowed through, and whether it was; of an
\* execution also whether the call brought its decision along, and the place
\* of its own decision, or else of the latest one when it began.
EventOf(c, type, decision) ==
    LET k == call[c]
        allowed == decision = "ALLOW"
        executed == type = "EXECUTION_ALLOWED"
    IN
    [type |-> type, req |-> k.req, dec |-> k.dec, agent |-> k.agent,
     cap |-> k.cap, hash |-> k.hash, decision |-> decision,
     policy |-> k.policy, version |-> k.version,
     apr |-> IF allowed /\ (executed \/ k.via) THEN k.apr ELSE NoID,
     via |-> allowed /\ k.via, direct |-> executed /\ k.kind = "direct",
     from |-> IF executed THEN k.from ELSE 0]

\* The place in the ledger of the latest decision under d, or 0.
LatestDecision(d) ==
    IF \E i \in DOMAIN events : IsDecision(events, d, i)
    THEN CHOOSE i \in DOMAIN events : IsDecision(events, d, i) ELSE 0

\* Entry of enforceControlPlane / Execute / the authorize handler, up to the
\* evaluation: the grant and policy are read once and copied, and a missing
\* one denies without a ledger event.  A decision ID is the client's or a
\* fresh one.
Receive(c, kind, r, d, a) ==
    /\ pc[c] = "idle" /\ started < MaxCalls
    /\ kind # "direct" /\ (kind = "authorize" => a = NoID)
    /\ started' = started + 1
    /\ LET g == GetGrantByAgent(r.agent)
           p == IF g = NoGrant THEN NoPolicy ELSE GetPolicy(g.policy)
           status == Verdict(r.agent, r.cap)
           base == [NoCall EXCEPT !.kind = kind, !.req = r.id, !.agent = r.agent,
                                  !.cap = r.cap, !.hash = r.hash, !.apr = a,
                                  !.now = clock, !.status = status]
       IN IF p = NoPolicy
          THEN Continue(c, CASE kind = "gate" -> "audit"
                             [] kind = "execute" -> "canonical"
                             [] kind = "authorize" -> "idle", base)
          ELSE Continue(c, IF status = "REQUIRE_APPROVAL" /\ a # NoID
                           THEN "approval" ELSE "decide",
                        [base EXCEPT !.dec = d, !.policy = p.id, !.version = p.version,
                                     !.res = r.id])
    /\ UNCHANGED <<authVars, approvals, events>>

\* Mutant: an approval is accepted for whatever decision it is presented.
BoundTo_anyDecision(ap, k) ==
    /\ ap.agent = k.agent /\ ap.cap = k.cap
    /\ ap.policy = k.policy /\ ap.version = k.version /\ ap.hash = k.hash

\* The bindings Authorize compares before it accepts an approval.
BoundTo(ap, k) ==
    /\ ap.dec = k.dec /\ ap.agent = k.agent /\ ap.cap = k.cap
    /\ ap.policy = k.policy /\ ap.version = k.version /\ ap.hash = k.hash

\* Authorize on a pending verdict with an approval ID: ApprovalStore.Get.
CheckApproval(c) ==
    /\ pc[c] = "approval"
    /\ LET k == call[c]
           ap == approvals[k.apr]
           ok == BoundTo(ap, k) /\ ApprovalIsValid(ap, k.now)
       IN call' = [call EXCEPT ![c].status = IF ok THEN "ALLOW" ELSE "DENY",
                               ![c].via = ok]
    /\ Goto(c, "decide")
    /\ UNCHANGED <<authVars, approvals, events, started>>

\* The end of Authorize: the decision is recorded, and the caller goes on to
\* the execution boundary (ExecutionGate only when it is ALLOW).
RecordDecision(c) ==
    /\ pc[c] = "decide"
    /\ events' = Append(events, EventOf(c, "AUTHORIZATION_DECISION", call[c].status))
    /\ Continue(c, CASE call[c].kind = "authorize" -> "idle"
                     [] call[c].kind = "execute" -> "canonical"
                     [] OTHER -> IF call[c].status = "ALLOW" THEN "handoff" ELSE "audit",
                [call[c] EXCEPT !.from = Len(events) + 1])
    /\ UNCHANGED <<authVars, approvals, started>>

\* The audit ledger's observer projects each audit event into the ledger
\* under a LEGACY_ type: agent and capability only, no request, decision or
\* artifact (the policy it names is documentation and left out).
LegacyEvent(agent, cap, type, decision) ==
    [type |-> type, req |-> NoID, dec |-> NoID, agent |-> agent, cap |-> cap,
     hash |-> NoHash, decision |-> decision, policy |-> NoID, version |-> 0,
     apr |-> NoID, via |-> FALSE, direct |-> FALSE, from |-> 0]

\* ExecutionGate step 2: the request has no handoff contract, or one that
\* ValidateHandoff accepts or refuses.  Validation leaves an audit event (a
\* refusal may leave several; one stands for them).  Step 3 reads the grant
\* again, which is always found: an agent keeps its entry in byAgent.
Handoff(c) ==
    /\ pc[c] = "handoff"
    /\ \/ Goto(c, "canonical") /\ UNCHANGED <<call, events>>
       \/ /\ events' = Append(events, LegacyEvent(call[c].agent, NoID,
                                                  "LEGACY_HANDOFF_VALIDATION", "NONE"))
          /\ \/ Goto(c, "canonical") /\ UNCHANGED call
             \/ Goto(c, "audit") /\ call' = [call EXCEPT ![c].status = "DENY"]
    /\ UNCHANGED <<authVars, approvals, started>>

\* ExecuteDecision called with a decision the caller brings along.  The
\* decision names the request of r; the call may name another one, q, and if
\* it names none it takes over that of the decision.
ExecuteDecision(c, r, q, d, a) ==
    /\ pc[c] = "idle" /\ started < MaxCalls
    /\ started' = started + 1
    /\ call' = [call EXCEPT ![c] =
                  [NoCall EXCEPT !.kind = "direct", !.req = IF q = NoID THEN r.id ELSE q,
                                 !.res = r.id, !.agent = r.agent,
                                 !.cap = r.cap, !.hash = r.hash, !.dec = d, !.apr = a,
                                 !.now = clock, !.status = "ALLOW",
                                 !.from = LatestDecision(d)]]
    /\ Goto(c, "canonical")
    /\ UNCHANGED <<authVars, approvals, events>>

\* Mutant: the canonical decision is not compared with the action.
Canonical_anyAction(k) ==
    \E i \in DOMAIN events :
      /\ IsDecision(events, k.dec, i)
      /\ events[i].decision = "ALLOW"
      /\ events[i].req = k.res

\* executeDecision, first test: the latest recorded decision allows exactly
\* this action, and for the request that the caller's decision names.
Canonical(k) ==
    \E i \in DOMAIN events :
      /\ IsDecision(events, k.dec, i)
      /\ events[i].decision = "ALLOW"
      /\ events[i].req = k.res /\ events[i].agent = k.agent
      /\ events[i].cap = k.cap /\ events[i].hash = k.hash

\* Entry of executeDecision.  ExecutionGate stamps the request again here;
\* Execute keeps the timestamp it authorized with.
CheckCanonical(c) ==
    /\ pc[c] = "canonical"
    /\ LET ok == Canonical(call[c])
           now == IF call[c].kind = "execute" THEN call[c].now ELSE clock
       IN /\ call' = [call EXCEPT ![c].now = now,
                                  ![c].status = IF ok THEN @ ELSE "DENY"]
          /\ Goto(c, IF ok THEN "executed" ELSE "execute")
    /\ UNCHANGED <<authVars, approvals, events, started>>

\* executeDecision, second test: HasExecution.
CheckExecuted(c) ==
    /\ pc[c] = "executed"
    /\ LET done == HasExecution(events, call[c].dec)
       IN /\ call' = [call EXCEPT ![c].status = IF done THEN "DENY" ELSE @]
          /\ Goto(c, IF ~done /\ call[c].status = "ALLOW" /\ call[c].apr # NoID
                     THEN "consume" ELSE "execute")
    /\ UNCHANGED <<authVars, approvals, events, started>>

\* Mutant: Consume accepts an approval that has already been used.
ConsumeApproval_twice(c) ==
    /\ pc[c] = "consume"
    /\ IF approvals[call[c].apr].status \in {"approved", "consumed"}
       THEN approvals' = Consumed(approvals, call[c].apr) /\ UNCHANGED call
       ELSE call' = [call EXCEPT ![c].status = "DENY"] /\ UNCHANGED approvals
    /\ Goto(c, "execute")
    /\ UNCHANGED <<authVars, events, started>>

\* ApprovalStore.Consume: a failure denies the execution.
ConsumeApproval(c) ==
    /\ pc[c] = "consume"
    /\ IF ApprovalIsValid(approvals[call[c].apr], call[c].now)
       THEN approvals' = Consumed(approvals, call[c].apr) /\ UNCHANGED call
       ELSE call' = [call EXCEPT ![c].status = "DENY"] /\ UNCHANGED approvals
    /\ Goto(c, "execute")
    /\ UNCHANGED <<authVars, events, started>>

\* The end of executeDecision.  ExecutionGate audits what was executed.
RecordExecution(c) ==
    /\ pc[c] = "execute"
    /\ LET ok == call[c].status = "ALLOW"
       IN /\ events' = Append(events,
                EventOf(c, IF ok THEN "EXECUTION_ALLOWED" ELSE "EXECUTION_BLOCKED",
                           IF ok THEN "ALLOW" ELSE "DENY"))
          /\ Continue(c, IF ok /\ call[c].kind = "gate" THEN "audit" ELSE "idle", call[c])
    /\ UNCHANGED <<authVars, approvals, started>>

\* recordAuditEvent at the end of ExecutionGate.Authorize.
Audit(c) ==
    /\ pc[c] = "audit"
    /\ LET ok == call[c].status = "ALLOW"
       IN events' = Append(events, LegacyEvent(call[c].agent, call[c].cap,
            IF ok THEN "LEGACY_EXECUTION_ALLOWED" ELSE "LEGACY_EXECUTION_BLOCKED",
            IF ok THEN "ALLOW" ELSE "DENY"))
    /\ Continue(c, "idle", NoCall)
    /\ UNCHANGED <<authVars, approvals, started>>
-----------------------------------------------------------------------------
FreeApprovalIDs == {a \in ApprovalIDs : approvals[a].status = "none"}

\* RequestApproval: the latest decision must be pending; the approval takes
\* its bindings from that event.
RequestApproval(c, d, expires) ==
    /\ pc[c] = "idle"
    /\ Cardinality(FreeApprovalIDs) > Cardinality({x \in Callers : pc[x] = "create"})
    /\ \E i \in DOMAIN events :
         /\ IsDecision(events, d, i)
         /\ events[i].decision = "REQUIRE_APPROVAL"
         /\ call' = [call EXCEPT ![c] =
              [NoCall EXCEPT !.kind = "request", !.dec = d, !.agent = events[i].agent,
                             !.cap = events[i].cap, !.hash = events[i].hash,
                             !.policy = events[i].policy, !.version = events[i].version,
                             !.expires = expires]]
    /\ Goto(c, "create")
    /\ UNCHANGED <<authVars, approvals, events, started>>

CreateApproval(c) ==
    /\ pc[c] = "create"
    /\ \E id \in FreeApprovalIDs :
         approvals' = Created(approvals, id, call[c], call[c].expires)
    /\ Continue(c, "idle", NoCall)
    /\ UNCHANGED <<authVars, events, started>>

Approve(id, hash) ==
    /\ approvals[id].status # "none"
    /\ approvals' = Approved(approvals, id, hash, clock)
    /\ UNCHANGED <<authVars, events, pc, call, started>>

Reject(id) ==
    /\ approvals[id].status # "none"
    /\ approvals' = Rejected(approvals, id, clock)
    /\ UNCHANGED <<authVars, events, pc, call, started>>
-----------------------------------------------------------------------------
CallerStep(c) ==
    \/ \E kind \in Kinds \ {"direct"}, r \in Requests, d \in DecisionIDs,
          a \in ApprovalIDs \cup {NoID} : Receive(c, kind, r, d, a)
    \/ "direct" \in Kinds /\ \E r \in Requests, q \in RequestIDs \cup {NoID}, d \in DecisionIDs,
          a \in ApprovalIDs \cup {NoID} : ExecuteDecision(c, r, q, d, a)
    \/ CheckApproval(c) \/ RecordDecision(c) \/ Handoff(c)
    \/ CheckCanonical(c) \/ CheckExecuted(c) \/ ConsumeApproval(c)
    \/ RecordExecution(c) \/ Audit(c)
    \/ \E d \in DecisionIDs, e \in Expiries : RequestApproval(c, d, e)
    \/ CreateApproval(c)

ReviewerStep ==
    \E id \in ApprovalIDs :
      (\E hash \in Hashes : Approve(id, hash)) \/ Reject(id)

AuthorityStep == AuthNext /\ UNCHANGED gateVars

Next == (\E c \in Callers : CallerStep(c)) \/ ReviewerStep \/ AuthorityStep

Spec == Init /\ [][Next]_vars
-----------------------------------------------------------------------------
TypeOK ==
    /\ AuthTypeOK
    /\ approvals \in [ApprovalIDs -> Approval]
    /\ events \in Seq(Event)
    /\ pc \in [Callers -> PCs]
    /\ call \in [Callers -> Call]
    /\ started \in 0..MaxCalls

Executions == {k \in DOMAIN events : events[k].type = "EXECUTION_ALLOWED"}

\* Event i is a recorded ALLOW for the action that event or call x is about.
Allows(i, x) ==
    /\ events[i].type = "AUTHORIZATION_DECISION" /\ events[i].decision = "ALLOW"
    /\ events[i].dec = x.dec /\ events[i].agent = x.agent
    /\ events[i].cap = x.cap /\ events[i].hash = x.hash

\* It is also no earlier than the call's own decision, or than the latest one
\* under its ID when a call began that brought its decision along.
Supports(i, x) == i >= x.from /\ Allows(i, x)

\* However requests interleave and whatever decision a caller brings along, an
\* execution rests on an ALLOW for the same decision, agent, capability and
\* artifact.  The ALLOW is no earlier than the latest decision under that ID
\* when the call was decided on, or when it began with a decision it brought
\* along: a DENY from before is never passed over, although one that comes in
\* later is.  It is for the same request
\* too, unless the caller brought the decision along: executeDecision compares
\* the request of the decision and records that of the call.
ExecutionAuthorized ==
    \A k \in Executions : \E i \in 1..(k - 1) :
      Supports(i, events[k]) /\ (events[k].direct \/ events[i].req = events[k].req)

\* "Consume marks an approved approval as used by a single execution"
\* (approval.go): no approval ever pays for two executions, although
\* checking it, consuming it and recording the execution are three steps.
ApprovalSingleUse ==
    \A j, k \in Executions :
      events[j].apr = events[k].apr /\ events[j].apr # NoID => j = k

\* Approval ap is for exactly what event or call x is about.
SameBinding(ap, x) ==
    /\ ap.dec = x.dec /\ ap.agent = x.agent /\ ap.cap = x.cap
    /\ ap.policy = x.policy /\ ap.version = x.version /\ ap.hash = x.hash

\* A reviewer approved approval x.apr for exactly what event x is about.
ApprovedFor(x) ==
    /\ x.apr # NoID /\ approvals[x.apr].status \in {"approved", "consumed"}
    /\ SameBinding(approvals[x.apr], x)

\* If an execution rests on a decision that was allowed through an approval,
\* that approval was given for this decision, agent, capability, policy
\* version and artifact, whoever executes it; and a call that was itself
\* authorized through an approval has used that one up, although
\* executeDecision consumes by ID alone.  (A decision that is brought along
\* may be executed without using up its approval, and an approval presented
\* where none was needed is used up although it is for something else.)
ApprovedExecutionsBound ==
    \A k \in Executions :
      /\ \A i \in 1..(k - 1) :
           Supports(i, events[k]) /\ events[i].via => ApprovedFor(events[i])
      /\ events[k].via =>
           ApprovedFor(events[k]) /\ approvals[events[k].apr].status = "consumed"

Lifecycle ==
    {<<"none", "pending">>, <<"pending", "approved">>, <<"pending", "rejected">>,
     <<"pending", "expired">>, <<"approved", "consumed">>}

MovesForward(old, new) ==
    /\ new.status # old.status => <<old.status, new.status>> \in Lifecycle
    /\ old.status # "none" =>
         /\ new.dec = old.dec /\ new.agent = old.agent /\ new.cap = old.cap
         /\ new.policy = old.policy /\ new.version = old.version
         /\ new.expires = old.expires
         /\ new.hash # old.hash => old.status = "pending" /\ old.hash = NoHash

\* An approval only moves forward through its lifecycle, and once approved
\* nothing it is bound to changes any more (approval.go).
ApprovalLifecycle ==
    [][\A id \in ApprovalIDs : MovesForward(approvals[id], approvals'[id])]_vars

\* A decision is executed at most once ("decision has already been
\* executed", gateway.go).
SingleExecution ==
    \A j, k \in Executions : events[j].dec = events[k].dec => j = k
-----------------------------------------------------------------------------
(***************************************************************************)
(* The inductive invariant behind the three safety properties.             *)
(***************************************************************************)
\* Past the first test of executeDecision an ALLOW supports the call.
Backed(c) ==
    /\ call[c].kind = "direct" \/ call[c].res \in {NoID, call[c].req}
    /\ call[c].from # 0 =>
         /\ call[c].from \in DOMAIN events /\ events[call[c].from].dec = call[c].dec
         /\ events[call[c].from].type = "AUTHORIZATION_DECISION"
    /\ pc[c] \in {"approval", "decide"} => call[c].req # NoID
    /\ pc[c] \in {"executed", "consume", "execute"} /\ call[c].status = "ALLOW" =>
         \E i \in DOMAIN events : /\ Supports(i, call[c])
                                  /\ call[c].kind = "direct" \/ events[i].req = call[c].req

\* Caller c has consumed its approval and not yet recorded the execution.
Paid(c) == pc[c] = "execute" /\ call[c].status = "ALLOW" /\ call[c].apr # NoID

\* A call authorized through an approval stays bound to it.
Bound(c) ==
    /\ call[c].via =>
         /\ call[c].apr # NoID
         /\ approvals[call[c].apr].status \in {"approved", "consumed"}
         /\ SameBinding(approvals[call[c].apr], call[c])
    /\ pc[c] \in {"approval", "consume"} => call[c].apr # NoID

\* What was allowed through an approval was approved; a decision names a request.
EntrySound(e) ==
    /\ e.via => ApprovedFor(e)
    /\ e.type = "AUTHORIZATION_DECISION" => e.req # NoID

\* A consumed approval belongs to one execution: recorded, or about to be.
ApprovalPaysOnce ==
    /\ \A k \in Executions :
         events[k].apr # NoID => approvals[events[k].apr].status = "consumed"
    /\ \A c \in Callers : Paid(c) =>
         /\ approvals[call[c].apr].status = "consumed"
         /\ \A k \in Executions : events[k].apr # call[c].apr
         /\ \A x \in Callers : Paid(x) /\ call[x].apr = call[c].apr => x = c

GateInv ==
    /\ TypeOK
    /\ ExecutionAuthorized /\ ApprovalSingleUse /\ ApprovedExecutionsBound
    /\ ApprovalPaysOnce
    /\ \A i \in DOMAIN events : EntrySound(events[i])
    /\ \A c \in Callers : Backed(c) /\ Bound(c)
=============================================================================
