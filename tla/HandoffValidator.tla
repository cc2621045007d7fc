-------------------------- MODULE HandoffValidator --------------------------
(***************************************************************************)
(* HandoffValidator.ValidateHandoff (internal/investordemo/                *)
(* execution_gate.go): every check of a handoff contract, and the nonce    *)
(* ledger that detects replays.  Looking a nonce up and recording it are   *)
(* two critical sections; validations run concurrently, one per request.   *)
(***************************************************************************)
EXTENDS Integers

CONSTANTS Validators,     \* concurrent calls of ValidateHandoff
          Contracts,      \* the contracts presented (records, see Contract)
          Nonces, Capabilities, NoCapability, NoContract,
          MaxTime,        \* bound on the clock
          MaxResets,      \* bound on Reset
          MaxCalls        \* bound on the validations

\* What the checks read: signature and payload digest as they verify,
\* provenance as it compares with the initiator.
Contract ==
    [nonce : Nonces, supported : BOOLEAN, signature : {"none", "good", "bad"},
     expires : Nat, digest : {"no payload", "match", "mismatch"},
     requested : Capabilities, authorized : SUBSET Capabilities,
     downstream : Capabilities \cup {NoCapability},
     provenance : {"missing", "match", "mismatch"}]

ASSUME HandoffAssumption ==
    /\ Contracts \subseteq Contract
    /\ NoCapability \notin Capabilities
    /\ MaxTime \in Nat /\ MaxResets \in Nat /\ MaxCalls \in Nat

VARIABLES clock,
          seen,        \* HandoffValidator.seenNonces
          stage, job,  \* per validator: where it is; its contract and findings
          accepted,    \* nonce -> contracts presented since the last Reset
                       \* and accepted
          presented,   \* nonces presented since the last Reset, or in flight
                       \* when it came
          raced,       \* nonces presented since the last Reset while another
                       \* validation was about to look them up or record them
          resets, calls

handoffVars == <<clock, seen, stage, job, accepted, presented, raced, resets, calls>>

NoJob == [contract |-> NoContract, errors |-> {}, epoch |-> 0]

HandoffInit ==
    /\ clock = 0 /\ seen = {}
    /\ stage = [v \in Validators |-> "idle"]
    /\ job = [v \in Validators |-> NoJob]
    /\ accepted = [n \in Nonces |-> 0] /\ presented = {} /\ raced = {}
    /\ resets = 0 /\ calls = 0
-----------------------------------------------------------------------------
\* The checks that do not touch the nonce ledger.  They all run: a failed one
\* is remembered and the next is made.  An absent signature is not checked.
StaticErrors(k, now) ==
    {e \in {"version", "signature", "expired", "digest", "widening", "provenance"} :
       \/ e = "version" /\ ~k.supported
       \/ e = "signature" /\ k.signature = "bad"
       \/ e = "expired" /\ now > k.expires
       \/ e = "digest" /\ k.digest = "mismatch"
       \/ e = "widening" /\ (\/ k.requested \notin k.authorized
                             \/ k.downstream # NoCapability /\ k.downstream \notin k.authorized)
       \/ e = "provenance" /\ k.provenance # "match"}

\* ValidateHandoff is entered; the clock is read for the expiry.
Begin(v, k) ==
    /\ stage[v] = "idle" /\ calls < MaxCalls
    /\ calls' = calls + 1
    /\ job' = [job EXCEPT ![v] = [contract |-> k, errors |-> StaticErrors(k, clock),
                                 epoch |-> resets]]
    /\ stage' = [stage EXCEPT ![v] = "lookup"]
    /\ presented' = presented \cup {k.nonce}
    /\ raced' = IF \E x \in Validators : stage[x] \in {"lookup", "record"}
                                        /\ job[x].contract.nonce = k.nonce
                THEN raced \cup {k.nonce} ELSE raced
    /\ UNCHANGED <<clock, seen, accepted, resets>>

\* Mutant: the outcome of the lookup is not added to the errors.
LookupNonce_ignored(v) ==
    /\ stage[v] = "lookup"
    /\ stage' = [stage EXCEPT ![v] = IF job[v].contract.nonce \in seen THEN "finish" ELSE "record"]
    /\ UNCHANGED <<clock, seen, job, accepted, presented, raced, resets, calls>>

\* isReplayedNonce, under the read lock.
LookupNonce(v) ==
    /\ stage[v] = "lookup"
    /\ IF job[v].contract.nonce \in seen
       THEN /\ job' = [job EXCEPT ![v].errors = @ \cup {"replay"}]
            /\ stage' = [stage EXCEPT ![v] = "finish"]
       ELSE stage' = [stage EXCEPT ![v] = "record"] /\ UNCHANGED job
    /\ UNCHANGED <<clock, seen, accepted, presented, raced, resets, calls>>

\* recordNonce, under the write lock; also for a contract that has failed.
RecordNonce(v) ==
    /\ stage[v] = "record"
    /\ seen' = seen \cup {job[v].contract.nonce}
    /\ stage' = [stage EXCEPT ![v] = "finish"]
    /\ UNCHANGED <<clock, job, accepted, presented, raced, resets, calls>>

\* The result is valid exactly when no check failed.
Finish(v) ==
    /\ stage[v] = "finish"
    /\ accepted' = IF job[v].errors = {} /\ job[v].epoch = resets
                   THEN [accepted EXCEPT ![job[v].contract.nonce] = @ + 1] ELSE accepted
    /\ job' = [job EXCEPT ![v] = NoJob]
    /\ stage' = [stage EXCEPT ![v] = "idle"]
    /\ UNCHANGED <<clock, seen, presented, raced, resets, calls>>

InFlight == {job[v].contract.nonce : v \in {x \in Validators : stage[x] # "idle"}}

\* Mutant: Reset keeps the nonces.
Reset_keeps ==
    /\ resets < MaxResets
    /\ resets' = resets + 1
    /\ accepted' = [n \in Nonces |-> 0] /\ presented' = InFlight /\ raced' = {}
    /\ UNCHANGED <<clock, seen, stage, job, calls>>

\* Reset: the nonce ledger of this validator is emptied, also while
\* validations are in flight (handleReset calls it with requests running, and
\* then replaces the environment by one with a validator of its own).
Reset ==
    /\ resets < MaxResets
    /\ resets' = resets + 1
    /\ seen' = {}
    /\ accepted' = [n \in Nonces |-> 0] /\ presented' = InFlight /\ raced' = {}
    /\ UNCHANGED <<clock, stage, job, calls>>

Tick ==
    /\ clock < MaxTime /\ clock' = clock + 1
    /\ UNCHANGED <<seen, stage, job, accepted, presented, raced, resets, calls>>

HandoffNext ==
    \/ Reset \/ Tick
    \/ \E v \in Validators :
         \/ \E k \in Contracts : Begin(v, k)
         \/ LookupNonce(v) \/ RecordNonce(v) \/ Finish(v)

HandoffSpec == HandoffInit /\ [][HandoffNext]_handoffVars
-----------------------------------------------------------------------------
HandoffTypeOK ==
    /\ clock \in 0..MaxTime /\ seen \subseteq Nonces /\ presented \subseteq Nonces
    /\ raced \subseteq Nonces
    /\ stage \in [Validators -> {"idle", "lookup", "record", "finish"}]
    /\ \A v \in Validators : stage[v] # "idle" => job[v].contract \in Contracts
    /\ accepted \in [Nonces -> Nat]
    /\ resets \in 0..MaxResets /\ calls \in 0..MaxCalls

\* "The validator maintains a nonce ledger and rejects replayed contracts"
\* (README.md): a nonce is accepted a second time only when two validations
\* of it overlap between lookup and record.  Past that window every replay is
\* refused, also after contracts that failed or expired, until the next Reset.
ReplayNeedsRace == \A n \in Nonces : accepted[n] > 1 => n \in raced

\* A nonce is in the ledger only because a contract with it was presented,
\* and the nonce of an accepted contract is in it until the next Reset: an
\* accepted contract is not forgotten, no first presentation is a replay.
NonceLedgerExact ==
    /\ seen \subseteq presented
    /\ \A n \in Nonces : accepted[n] > 0 => n \in seen
=============================================================================
