--------------------------- MODULE ApprovalStore ---------------------------
(***************************************************************************)
(* The approvals of internal/controlplane/approval.go.  Every method of    *)
(* ApprovalStore runs under the store's mutex from its first read to its   *)
(* last write, so each is one operator giving the store after the call:    *)
(* Created, Approved, Rejected, Consumed.  A call that fails without a     *)
(* write returns the store unchanged.                                      *)
(***************************************************************************)
EXTENDS PolicyEvaluator

CONSTANTS ApprovalIDs, DecisionIDs, Hashes,
          NoHash,          \* the empty artifact hash, a member of Hashes
          NoExpiry         \* the zero ExpiresAt: never expires

ASSUME ApprovalAssumption ==
    /\ NoID \notin ApprovalIDs \cup DecisionIDs
    /\ NoHash \in Hashes
    /\ NoExpiry \notin Nat

ApprovalStatus == {"none", "pending", "approved", "rejected", "expired", "consumed"}

Approval ==
    [status : ApprovalStatus, dec : DecisionIDs \cup {NoID}, agent : Agents \cup {NoID},
     cap : Capabilities \cup {NoID}, policy : PolicyIDs \cup {NoID}, version : Nat,
     hash : Hashes, expires : Nat \cup {NoExpiry}]

\* What an ID that is not in the map stands for.
NoApproval ==
    [status |-> "none", dec |-> NoID, agent |-> NoID, cap |-> NoID, policy |-> NoID,
     version |-> 0, hash |-> NoHash, expires |-> NoExpiry]

Expired(a, now) == a.expires # NoExpiry /\ ~(now < a.expires)

\* Approval.IsValid
ApprovalIsValid(a, now) == a.status = "approved" /\ ~Expired(a, now)

\* Mutant: the record is stored with a status no other method knows.
Created_unknownStatus(store, id, binding, expires) ==
    [store EXCEPT ![id] =
        [status |-> "new", dec |-> binding.dec, agent |-> binding.agent,
         cap |-> binding.cap, policy |-> binding.policy, version |-> binding.version,
         hash |-> binding.hash, expires |-> expires]]

\* Create: the record is stored under a fresh ID, pending.
Created(store, id, binding, expires) ==
    [store EXCEPT ![id] =
        [status |-> "pending", dec |-> binding.dec, agent |-> binding.agent,
         cap |-> binding.cap, policy |-> binding.policy, version |-> binding.version,
         hash |-> binding.hash, expires |-> expires]]

HashMismatch(a, hash) == a.hash # NoHash /\ hash # NoHash /\ a.hash # hash

\* Mutant: a decided approval may be approved again.
Approved_anyStatus(store, id, hash, now) ==
    IF store[id].status = "none" \/ HashMismatch(store[id], hash) THEN store
    ELSE IF Expired(store[id], now) THEN [store EXCEPT ![id].status = "expired"]
    ELSE [store EXCEPT ![id].status = "approved",
                       ![id].hash = IF @ # NoHash THEN @ ELSE hash]

\* Approve: only a pending approval; late approval marks it expired; an
\* approval created without a hash takes the approver's.
Approved(store, id, hash, now) ==
    IF store[id].status # "pending" THEN store
    ELSE IF Expired(store[id], now) THEN [store EXCEPT ![id].status = "expired"]
    ELSE IF HashMismatch(store[id], hash) THEN store
    ELSE [store EXCEPT ![id].status = "approved",
                       ![id].hash = IF @ # NoHash THEN @ ELSE hash]

\* Reject
Rejected(store, id, now) ==
    IF store[id].status # "pending" THEN store
    ELSE IF Expired(store[id], now) THEN [store EXCEPT ![id].status = "expired"]
    ELSE [store EXCEPT ![id].status = "rejected"]

\* Consume succeeds exactly on a valid approval.
Consumed(store, id) == [store EXCEPT ![id].status = "consumed"]
=============================================================================
