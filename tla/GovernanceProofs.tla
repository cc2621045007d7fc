-------------------------- MODULE GovernanceProofs --------------------------
(***************************************************************************)
(* For all policies, restrictions, tools and callers: the registry's two   *)
(* notions of the active version agree, and the gateway runs only what the *)
(* policies allowed during the call and no earlier restriction covers.     *)
(***************************************************************************)
EXTENDS Governance, FiniteSetTheorems, TLAPS

\* The registry: marks belong to registered versions, the map holds one of
\* them under its own ID, and it alone is marked among the versions of the ID.
RegistryInv ==
    /\ versions \subseteq Policies /\ flagged \subseteq versions
    /\ policies \in [PolicyIDs -> Policies \cup {None}]
    /\ \A id \in PolicyIDs :
        /\ policies[id] # None => policies[id] \in flagged /\ policies[id].id = id
        /\ \A p \in flagged : p.id = id => p = policies[id]

\* Initially nothing is registered.
LEMMA RegistryInit == Init => RegistryInv
BY DEF Init, RegistryInv

\* No operation of the registry breaks its invariant, and the calls leave the
\* registry alone.
LEMMA RegistryStep == RegistryInv /\ [Next]_vars => RegistryInv'
<1> SUFFICES ASSUME RegistryInv, [Next]_vars PROVE RegistryInv'
    OBVIOUS
<1> USE GovernanceAssumption
<1>1. ASSUME NEW p \in Policies, Register(p) PROVE RegistryInv'
    BY <1>1 DEF Register, Change, RegistryInv, PolicyIDs
<1>2. ASSUME NEW p \in Policies, SetActive(p) PROVE RegistryInv'
    BY <1>2 DEF SetActive, Change, RegistryInv, PolicyIDs
<1>3. ASSUME NEW id \in PolicyIDs, Delete(id) PROVE RegistryInv'
    BY <1>3 DEF Delete, Change, RegistryInv
<1>4. ASSUME UNCHANGED registry PROVE RegistryInv'
    BY <1>4 DEF registry, RegistryInv
<1>5. ASSUME NEW x \in Restrictions, AddRestriction(x) PROVE UNCHANGED registry
    BY <1>5 DEF AddRestriction
<1>6. ASSUME NEW c \in Callers, NEW r \in Requests, Authorize(c, r) PROVE UNCHANGED registry
    BY <1>6 DEF Authorize
<1>7. ASSUME NEW c \in Callers,
             Evaluate(c) \/ CheckRestrictions(c) \/ Denied(c) \/ Execute(c) \/ Return(c)
      PROVE  UNCHANGED registry
    BY <1>7 DEF Evaluate, CheckRestrictions, Denied, Execute, Return
<1>8. ASSUME UNCHANGED vars PROVE UNCHANGED registry
    BY <1>8 DEF vars
<1>9. QED
    BY <1>1, <1>2, <1>3, <1>4, <1>5, <1>6, <1>7, <1>8 DEF Next

\* The map of active policies and the marks of the versions agree, whatever
\* sequence of Register, SetActive and Delete led there.
THEOREM RegistryAgrees == Spec => []RegistryConsistent
<1>1. RegistryInv => RegistryConsistent
    BY GovernanceAssumption DEF RegistryInv, RegistryConsistent
<1>2. QED
    BY <1>1, RegistryInit, RegistryStep, PTL DEF Spec
-----------------------------------------------------------------------------
Stages == {"idle", "evaluate", "restrict", "execute", "returned"}

\* The restrictions of the beginning are still there; a call knows whether the
\* policies allow its request now or did when it was decided; and what runs, or
\* has run, was allowed and is not covered by a restriction of the beginning.
CallInv ==
    /\ pc \in [Callers -> Stages] /\ req \in [Callers -> Requests \cup {NoRequest}]
    /\ DOMAIN decision = Callers /\ DOMAIN outcome = Callers
    /\ allowed \in [Callers -> BOOLEAN] /\ before \in [Callers -> SUBSET Restrictions]
    /\ restrictions \subseteq Restrictions
    /\ \A c \in Callers :
        /\ before[c] \subseteq restrictions
        /\ pc[c] # "idle" /\ "ALLOW" \in Outcomes(policies, flagged, req[c]) => allowed[c]
        /\ pc[c] \in {"idle", "evaluate"} => decision[c] = None
        /\ pc[c] # "returned" => outcome[c] = None
        /\ decision[c] = "ALLOW" => allowed[c]
        /\ pc[c] = "execute" \/ outcome[c] \in {"completed", "failed"} =>
               decision[c] = "ALLOW" /\ \A x \in before[c] : req[c] \notin x

\* Initially nobody calls.
LEMMA CallInit == Init => CallInv
BY GovernanceAssumption DEF Init, CallInv, Stages, Decisions

\* A change of the registry: the calls under way note when it allows them.
LEMMA ChangeStep ==
    ASSUME CallInv, NEW v, NEW a, NEW f, Change(v, a, f)
    PROVE  CallInv'
<1> USE DEF Change, call
<1>1. /\ pc' = pc /\ req' = req /\ decision' = decision /\ outcome' = outcome
      /\ before' = before /\ restrictions' = restrictions
      /\ policies' = a /\ flagged' = f
      /\ allowed' = [c \in Callers |->
             pc[c] # "idle" /\ (allowed[c] \/ "ALLOW" \in Outcomes(a, f, req[c]))]
    OBVIOUS
<1> DEFINE Fresh(c) == "ALLOW" \in Outcomes(a, f, req[c])
<1>2. \A c \in Callers : ("ALLOW" \in Outcomes(policies, flagged, req[c]))' <=> Fresh(c)
    BY <1>1 DEF Outcomes, ActiveFor
<1> HIDE DEF Fresh
<1>3. allowed' = [c \in Callers |-> pc[c] # "idle" /\ (allowed[c] \/ Fresh(c))]
    BY <1>1 DEF Fresh
<1>4. allowed' \in [Callers -> BOOLEAN]
    BY <1>3
<1>5. ASSUME NEW c \in Callers
      PROVE  /\ pc[c] # "idle" /\ Fresh(c) => allowed'[c]
             /\ decision[c] = "ALLOW" => allowed'[c]
  <2>1. allowed'[c] <=> pc[c] # "idle" /\ (allowed[c] \/ Fresh(c))
      BY <1>3
  <2>2. decision[c] = "ALLOW" => pc[c] # "idle" /\ allowed[c]
      BY GovernanceAssumption DEF CallInv, Decisions
  <2>3. QED
      BY <2>1, <2>2
<1>6. QED
    BY <1>1, <1>2, <1>4, <1>5 DEF CallInv

\* Every step of a call, and every change around it, keeps the invariant.
LEMMA CallStep == CallInv /\ [Next]_vars => CallInv'
<1> SUFFICES ASSUME CallInv, [Next]_vars PROVE CallInv'
    OBVIOUS
<1>1. ASSUME NEW p \in Policies, Register(p) \/ SetActive(p) PROVE CallInv'
    BY <1>1, ChangeStep DEF Register, SetActive
<1>2. ASSUME NEW id \in PolicyIDs, Delete(id) PROVE CallInv'
    BY <1>2, ChangeStep DEF Delete
<1> DEFINE May(c) == "ALLOW" \in Outcomes(policies, flagged, req[c])
<1>m. ASSUME UNCHANGED registry, NEW c \in Callers, req'[c] = req[c]
      PROVE  (May(c))' <=> May(c)
    BY <1>m DEF registry, Outcomes, ActiveFor
<1> USE GovernanceAssumption DEF CallInv, Stages, Decisions, Goes
<1>3. ASSUME NEW x \in Restrictions, AddRestriction(x) PROVE CallInv'
    BY <1>3, <1>m DEF AddRestriction, call
<1>4. ASSUME NEW c \in Callers, NEW r \in Requests, Authorize(c, r) PROVE CallInv'
  <2>1. /\ pc[c] = "idle" /\ pc' = [pc EXCEPT ![c] = "evaluate"]
        /\ req' = [req EXCEPT ![c] = r] /\ before' = [before EXCEPT ![c] = restrictions]
        /\ allowed' = [allowed EXCEPT ![c] = "ALLOW" \in Outcomes(policies, flagged, r)]
        /\ UNCHANGED <<restrictions, decision, outcome>>
      BY <1>4 DEF Authorize
  <2>2. (May(c))' <=> "ALLOW" \in Outcomes(policies, flagged, r)
      BY <1>4, <2>1 DEF Authorize, registry, Outcomes, ActiveFor
  <2>3. (May(c))' <=> allowed'[c]
      BY <2>1, <2>2
  <2>4. ASSUME NEW d \in Callers, d # c
        PROVE  ((May(d))' <=> May(d)) /\ allowed'[d] = allowed[d]
      BY <1>4, <1>m, <2>1, <2>4 DEF Authorize
  <2>5. allowed' \in [Callers -> BOOLEAN]
      BY <2>1
  <2> HIDE DEF May
  <2>6. ASSUME NEW d \in Callers
        PROVE  /\ pc'[d] # "idle" /\ (May(d))' => allowed'[d]
               /\ decision[d] = "ALLOW" => allowed'[d]
    <3>1. CASE d = c
        BY <2>1, <2>3, <3>1
    <3>2. CASE d # c
        BY <2>1, <2>4, <3>2 DEF May
    <3>3. QED
        BY <3>1, <3>2
  <2>7. QED
      BY <2>1, <2>5, <2>6 DEF May
<1>5. ASSUME NEW c \in Callers, Evaluate(c) PROVE CallInv'
    BY <1>5, <1>m DEF Evaluate
<1>6. ASSUME NEW c \in Callers, CheckRestrictions(c) PROVE CallInv'
    BY <1>6, <1>m DEF CheckRestrictions
<1>7. ASSUME NEW c \in Callers, Denied(c) PROVE CallInv'
    BY <1>7, <1>m DEF Denied
<1>8. ASSUME NEW c \in Callers, Execute(c) PROVE CallInv'
    BY <1>8, <1>m DEF Execute
<1>9. ASSUME NEW c \in Callers, Return(c) PROVE CallInv'
    BY <1>9, <1>m DEF Return
<1>10. ASSUME UNCHANGED vars PROVE CallInv'
    BY <1>10, <1>m DEF vars, call
<1>11. QED
    BY <1>1, <1>2, <1>3, <1>4, <1>5, <1>6, <1>7, <1>8, <1>9, <1>10 DEF Next

\* The gateway enforces the policies at some time during every call, and the
\* restrictions that were there when it began, under every interleaving with
\* changes of both.
THEOREM GatewayEnforces == Spec => []EnforcedDuringCall
<1>1. ASSUME CallInv PROVE EnforcedDuringCall
  <2>1. ASSUME NEW c \in Callers, req[c].action # ""
        PROVE  [req[c] EXCEPT !.action = Target(req[c]).action] = req[c]
    <3>1. Target(req[c]).action = req[c].action
        BY <2>1 DEF Target
    <3>2. req[c] \in Requests
      <4>1. req[c] \in Requests \cup {NoRequest}
          BY <1>1 DEF CallInv
      <4>2. NoRequest.action = ""
          BY DEF NoRequest
      <4>3. QED
          BY <2>1, <4>1, <4>2
    <3>3. \A r \in Requests : [r EXCEPT !.action = r.action] = r
        BY DEF Requests
    <3>4. QED
        BY <3>1, <3>2, <3>3
  <2>2. ASSUME NEW c \in Callers, outcome[c] \in {"completed", "failed"}
        PROVE  allowed[c] /\ \A x \in before[c] : req[c] \notin x
    <3>1. decision[c] = "ALLOW" /\ \A x \in before[c] : req[c] \notin x
        BY <1>1, <2>2 DEF CallInv
    <3>2. QED
        BY <1>1, <3>1 DEF CallInv
  <2> DEFINE filled(c) == [req[c] EXCEPT !.action = Target(req[c]).action]
  <2>3. \A c \in Callers : req[c].action # "" => filled(c) = req[c]
      BY <2>1
  <2> HIDE DEF filled
  <2>4. ASSUME NEW c \in Callers, outcome[c] \in {"completed", "failed"},
               NEW x \in before[c], filled(c) \in x
        PROVE  req[c].action = ""
      BY <2>2, <2>3, <2>4
  <2>5. QED
      BY <2>2, <2>4 DEF EnforcedDuringCall, filled
<1>2. QED
    BY <1>1, CallInit, CallStep, PTL DEF Spec
-----------------------------------------------------------------------------
\* The strictest of some decisions.
Strictest(D) ==
    IF "DENY" \in D THEN "DENY"
    ELSE IF "REQUIRE_APPROVAL" \in D THEN "REQUIRE_APPROVAL"
    ELSE IF "ALLOW" \in D THEN "ALLOW" ELSE None

\* Taking one more decision into account.
LEMMA StricterAdds ==
    ASSUME NEW D \in SUBSET Decisions, NEW e \in Decisions
    PROVE  Stricter(Strictest(D), e) = Strictest(D \cup {e})
BY GovernanceAssumption DEF Stricter, Strictest, Rank, Decisions

\* The least element of a set of numbers: what the inductions below rest on.
LEMMA LeastNat ==
    ASSUME NEW T \in SUBSET Nat, T # {}
    PROVE  \E m \in T : \A k \in T : m <= k
<1>1. PICK m \in T : \A y \in T : ~ (<<y, m>> \in OpToRel(<, Nat))
    BY NatLessThanWellFounded, WFMin, Zenon
<1>2. \A y \in T : ~(y < m)
    BY <1>1 DEF OpToRel
<1>3. QED BY <1>2

\* Max is what its name says on a finite set of positions.
LEMMA MaxIsIn ==
    ASSUME NEW n \in Nat, NEW s \in SUBSET (1..n), s # {}
    PROVE  Max(s) \in s /\ \A k \in s : k <= Max(s)
<1> DEFINE T == {k \in Nat : \E x \in s : x + k = n}
<1>1. T # {}
  <2>1. PICK x \in s : TRUE
      OBVIOUS
  <2>2. n - x \in Nat /\ x + (n - x) = n
      BY <2>1
  <2>3. QED
      BY <2>2
<1>2. PICK m \in T : \A k \in T : m <= k
    BY <1>1, LeastNat
<1>3. PICK x \in s : x + m = n
    BY <1>2
<1>4. \A y \in s : x >= y
  <2> SUFFICES ASSUME NEW y \in s PROVE x >= y
      OBVIOUS
  <2>1. n - y \in T
      OBVIOUS
  <2>2. QED
      BY <1>2, <1>3, <2>1
<1>5. QED
    BY <1>3, <1>4 DEF Max

\* The loop of Evaluate over the matching policies ends with the strictest of
\* their decisions: the fold satisfies its defining equation, because the
\* function that gives the strictest decision on every set of positions does,
\* and by induction on the positions no other function does.
LEMMA LoopIsStrictest ==
    ASSUME NEW n \in Nat, NEW order \in [1..n -> Policies], NEW r,
           \A p \in Policies : PolicyDecision(p, r) \in Decisions
    PROVE  FoldLeft(LAMBDA d, p : Stricter(d, PolicyDecision(p, r)), None, order)
            = Strictest({PolicyDecision(order[i], r) : i \in 1..n})
<1> DEFINE D(s) == {PolicyDecision(order[i], r) : i \in s}
           Body(g, s) == IF s = {} THEN None
                         ELSE Stricter(g[s \ {Max(s)}], PolicyDecision(order[Max(s)], r))
           iter == CHOOSE g : g = [s \in SUBSET (1..n) |-> Body(g, s)]
           f == [s \in SUBSET (1..n) |-> Strictest(D(s))]
<1>1. FoldLeft(LAMBDA d, p : Stricter(d, PolicyDecision(p, r)), None, order) = iter[1..n]
    BY DEF FoldLeft, MapThenFoldSet
<1>2. \A s \in SUBSET (1..n) : Strictest(D(s)) = Body(f, s)
  <2> SUFFICES ASSUME NEW s \in SUBSET (1..n) PROVE Strictest(D(s)) = Body(f, s)
      OBVIOUS
  <2>1. CASE s = {}
      BY <2>1 DEF Strictest
  <2>2. CASE s # {}
    <3> DEFINE m == Max(s)
               e == PolicyDecision(order[m], r)
    <3>1. m \in s
        BY <2>2, MaxIsIn
    <3>2. e \in Decisions /\ D(s \ {m}) \in SUBSET Decisions /\ D(s) = D(s \ {m}) \cup {e}
        BY <3>1
    <3>3. f[s \ {m}] = Strictest(D(s \ {m}))
        BY <3>1
    <3> HIDE DEF D, f, m, e
    <3>4. Stricter(f[s \ {m}], e) = Strictest(D(s))
        BY <3>2, <3>3, StricterAdds
    <3>5. QED
        BY <2>2, <3>4 DEF m, e
  <2>3. QED
      BY <2>1, <2>2
<1>3. f = [s \in SUBSET (1..n) |-> Body(f, s)]
    BY <1>2
<1>4. iter = [s \in SUBSET (1..n) |-> Body(iter, s)]
    BY <1>3
<1> HIDE DEF iter
<1> DEFINE T == {k \in Nat : k <= n /\ iter[1..k] # Strictest(D(1..k))}
<1>5. T = {}
  <2> SUFFICES ASSUME T # {} PROVE FALSE
      OBVIOUS
  <2>1. PICK k \in T : \A j \in T : k <= j
      BY LeastNat
  <2>2. CASE k = 0
    <3>1. 1..k = {} /\ {} \in SUBSET (1..n)
        BY <2>2
    <3>2. iter[{}] = None
        BY <1>4, <3>1
    <3>3. QED
        BY <2>1, <3>1, <3>2 DEF Strictest
  <2>3. CASE k # 0
    <3> DEFINE e == PolicyDecision(order[k], r)
    <3>1. k \in 1..n /\ k - 1 \in Nat /\ k - 1 <= n /\ k - 1 \notin T
        BY <2>1, <2>3
    <3>2. iter[1..(k - 1)] = Strictest(D(1..(k - 1)))
        BY <3>1
    <3>3. 1..k \in SUBSET (1..n) /\ 1..k # {} /\ k \in 1..k
        BY <3>1
    <3>4. Max(1..k) = k
      <4>1. Max(1..k) \in 1..k /\ k <= Max(1..k)
          BY <3>1, <3>3, MaxIsIn
      <4>2. QED
          BY <3>1, <4>1
    <3>5. (1..k) \ {k} = 1..(k - 1) /\ 1..k = (1..(k - 1)) \cup {k}
        BY <3>1
    <3>6. iter[1..k] = Stricter(iter[1..(k - 1)], e)
      <4>1. \A s \in SUBSET (1..n) : iter[s] = Body(iter, s)
          BY <1>4
      <4>2. iter[1..k] = Body(iter, 1..k)
          BY <3>3, <4>1
      <4>3. Body(iter, 1..k) = Stricter(iter[(1..k) \ {Max(1..k)}], PolicyDecision(order[Max(1..k)], r))
          BY <3>3
      <4>4. QED
          BY <3>4, <3>5, <4>2, <4>3
    <3>7. e \in Decisions /\ D(1..(k - 1)) \in SUBSET Decisions
          /\ D(1..k) = D(1..(k - 1)) \cup {e}
        BY <3>1, <3>5
    <3> HIDE DEF e, D
    <3>8. iter[1..k] = Strictest(D(1..k))
        BY <3>2, <3>6, <3>7, StricterAdds
    <3>9. QED
        BY <2>1, <3>8
  <2>4. QED
      BY <2>2, <2>3
<1>6. iter[1..n] = Strictest(D(1..n))
    BY <1>5
<1>7. QED
    BY <1>1, <1>6

\* Among finitely many rules there is one of the highest priority that no
\* earlier one has.
LEMMA DecidingRule ==
    ASSUME NEW n \in Nat \ {0}, NEW prio \in [1..n -> Int]
    PROVE  \E i \in 1..n : \A j \in 1..n : prio[i] >= prio[j] + (IF j < i THEN 1 ELSE 0)
<1> DEFINE Best(i, k) == \A j \in 1..k : prio[i] >= prio[j] + (IF j < i THEN 1 ELSE 0)
           T == {k \in Nat : k # 0 /\ k <= n /\ \A i \in 1..k : ~Best(i, k)}
<1>1. T = {}
  <2> SUFFICES ASSUME T # {} PROVE FALSE
      OBVIOUS
  <2>1. PICK k \in T : \A j \in T : k <= j
      BY LeastNat
  <2>2. k # 1
      BY <2>1
  <2>3. k - 1 \in Nat /\ k - 1 # 0 /\ k - 1 <= n /\ k - 1 \notin T
    <3>1. k \in Nat /\ k # 0 /\ k <= n
        OBVIOUS
    <3> HIDE DEF T
    <3>2. QED
        BY <2>1, <2>2, <3>1
  <2>4. PICK i \in 1..(k - 1) : Best(i, k - 1)
      BY <2>3
  <2>5. CASE prio[i] >= prio[k]
    <3>1. Best(i, k)
        BY <2>1, <2>3, <2>4, <2>5
    <3>2. QED
        BY <2>1, <2>3, <3>1
  <2>6. CASE prio[i] < prio[k]
    <3>1. Best(k, k)
        BY <2>1, <2>3, <2>4, <2>6
    <3>2. QED
        BY <2>1, <2>3, <3>1
  <2>7. QED
      BY <2>1, <2>3, <2>4, <2>5, <2>6
<1>2. n \notin T
    BY <1>1
<1>3. QED
    BY <1>2

\* A policy decides for every request.
LEMMA DecisionType ==
    ASSUME NEW p \in Policies, NEW r
    PROVE  PolicyDecision(p, r) \in Decisions
<1> DEFINE n == Len(p.rules)
           First(i) == \A j \in 1..n :
                           p.rules[i].priority >= p.rules[j].priority + (IF j < i THEN 1 ELSE 0)
           Rule == [passes : SUBSET Targets, decision : Decisions, priority : Int]
<1>1. p.default \in Decisions /\ p.rules \in Seq(Rule)
    BY GovernanceAssumption
<1>2. n \in Nat /\ \A i \in 1..n : p.rules[i].decision \in Decisions /\ p.rules[i].priority \in Int
  <2>1. \A x \in Rule : x.decision \in Decisions /\ x.priority \in Int
      OBVIOUS
  <2> HIDE DEF Rule
  <2>2. n \in Nat /\ \A i \in 1..n : p.rules[i] \in Rule
      BY <1>1
  <2>3. QED
      BY <2>1, <2>2
<1>3. CASE p.rules = <<>>
    BY <1>1, <1>3 DEF PolicyDecision, Decisions
<1>4. CASE p.rules # <<>>
  <2>1. n \in Nat \ {0}
      BY <1>1, <1>2, <1>4
  <2> DEFINE prio == [i \in 1..n |-> p.rules[i].priority]
  <2>2. prio \in [1..n -> Int] /\ \A i \in 1..n : prio[i] = p.rules[i].priority
      BY <1>2
  <2> HIDE DEF prio
  <2>3. \E i \in 1..n : \A j \in 1..n : prio[i] >= prio[j] + (IF j < i THEN 1 ELSE 0)
      BY <2>1, <2>2, DecidingRule
  <2>4. \E i \in 1..n : First(i)
      BY <2>2, <2>3
  <2>5. (CHOOSE i \in 1..n : First(i)) \in 1..n
      BY <2>4
  <2>6. PolicyDecision(p, r) = "DENY"
        \/ PolicyDecision(p, r) = p.rules[CHOOSE i \in 1..n : First(i)].decision
      BY <1>4 DEF PolicyDecision
  <2>7. QED
      BY <1>2, <2>5, <2>6 DEF Decisions
<1>5. QED
    BY <1>3, <1>4

\* What a set of matching policies decides.
Verdict(S, r) ==
    IF S = {} THEN (IF FailClosed THEN "DENY" ELSE "ALLOW")
    ELSE Strictest({PolicyDecision(p, r) : p \in S})

\* Every order of a finite set of policies leads to the same decision, and
\* there is an order.
LEMMA OrderIsImmaterial ==
    ASSUME NEW S \in SUBSET Policies, IsFiniteSet(S), NEW r
    PROVE  {Aggregate(order, r) : order \in SetToSeqs(S)} = {Verdict(S, r)}
<1> DEFINE n == Cardinality(S)
<1>1. n \in Nat /\ ExistsBijection(1..n, S) /\ (n = 0 <=> S = {})
    BY FS_CardinalityType, FS_EmptySet
<1>2. IsFiniteSet(1..n) /\ Cardinality(1..n) = n
    BY <1>1, FS_Interval
<1>3. SetToSeqs(S) # {}
  <2>1. PICK f : f \in Bijection(1..n, S)
      BY <1>1 DEF ExistsBijection
  <2>2. f \in SetToSeqs(S)
      BY <2>1 DEF Bijection, Injection, IsInjective, SetToSeqs
  <2>3. QED
      BY <2>2
<1>4. ASSUME NEW order \in SetToSeqs(S) PROVE Aggregate(order, r) = Verdict(S, r)
  <2>1. order \in [1..n -> S] /\ order \in Injection(1..n, S)
      BY DEF SetToSeqs, Injection, IsInjective
  <2>2. order \in Surjection(1..n, S)
      BY <1>2, <2>1, FS_Injection
  <2>3. CASE S = {}
    <3>1. order = <<>>
        BY <1>1, <2>1, <2>3
    <3>2. QED
        BY <2>3, <3>1 DEF Aggregate, Verdict
  <2>4. CASE S # {}
    <3>1. order # <<>>
        BY <1>1, <2>1, <2>4
    <3>2. order \in [1..n -> Policies] /\ \A p \in Policies : PolicyDecision(p, r) \in Decisions
        BY <2>1, DecisionType
    <3>3. Aggregate(order, r) = Strictest({PolicyDecision(order[i], r) : i \in 1..n})
        BY <1>1, <3>1, <3>2, LoopIsStrictest DEF Aggregate
    <3>4. {PolicyDecision(order[i], r) : i \in 1..n} = {PolicyDecision(p, r) : p \in S}
        BY <2>1, <2>2 DEF Surjection
    <3>5. QED
        BY <2>4, <3>3, <3>4 DEF Verdict
  <2>5. QED
      BY <2>3, <2>4
<1>5. QED
    BY <1>3, <1>4

\* One more policy beside others never makes the decision less strict.
LEMMA MoreIsStricter ==
    ASSUME NEW S \in SUBSET Policies, S # {}, NEW p \in Policies, NEW r
    PROVE  Rank(Verdict(S \cup {p}, r)) >= Rank(Verdict(S, r))
<1> DEFINE D == {PolicyDecision(q, r) : q \in S}
           e == PolicyDecision(p, r)
<1>1. D \in SUBSET Decisions /\ e \in Decisions
    BY DecisionType
<1>2. {PolicyDecision(q, r) : q \in S \cup {p}} = D \cup {e}
    OBVIOUS
<1> HIDE DEF D, e
<1>3. Verdict(S, r) = Strictest(D) /\ Verdict(S \cup {p}, r) = Strictest(D \cup {e})
    BY <1>2 DEF Verdict, D
<1>4. Rank(Strictest(D \cup {e})) >= Rank(Strictest(D))
    BY <1>1, GovernanceAssumption DEF Strictest, Rank, Decisions
<1>5. QED
    BY <1>3, <1>4

\* Only finitely many versions are ever registered.
LEMMA FiniteRegistry == Spec => []IsFiniteSet(versions)
<1>1. Init => IsFiniteSet(versions)
    BY FS_EmptySet DEF Init
<1>2. IsFiniteSet(versions) /\ [Next]_vars => IsFiniteSet(versions)'
  <2> SUFFICES ASSUME IsFiniteSet(versions), [Next]_vars PROVE IsFiniteSet(versions')
      OBVIOUS
  <2>1. versions' \subseteq versions \/ \E p : versions' = versions \cup {p}
      BY DEF Next, vars, registry, Register, SetActive, Delete, Change, AddRestriction, Authorize,
             Evaluate, CheckRestrictions, Denied, Execute, Return
  <2>2. QED
      BY <2>1, FS_AddElement, FS_Subset
<1>3. QED
    BY <1>1, <1>2, PTL DEF Spec

\* ControlPlane.Evaluate gives one decision whatever the order in which the map
\* of policies is visited, and a policy that comes to match as well never
\* weakens it: for any policies, rules and priorities.
THEOREM EvaluateIsDeterministic == Spec => []DecisionSettled
<1>1. ASSUME RegistryInv, IsFiniteSet(versions) PROVE DecisionSettled
  <2> DEFINE M(r) == ActiveFor(policies, flagged, r)
             All(S, r) == {Aggregate(order, r) : order \in SetToSeqs(S)}
  <2>1. ASSUME NEW r \in Targets PROVE M(r) \in SUBSET Policies /\ IsFiniteSet(M(r))
    <3>1. M(r) \subseteq versions /\ versions \subseteq Policies
        BY <1>1 DEF RegistryInv, ActiveFor
    <3>2. QED
        BY <1>1, <3>1, FS_Subset
  <2>2. ASSUME NEW r \in Targets PROVE Cardinality(All(M(r), r)) = 1
    <3>1. All(M(r), r) = {Verdict(M(r), r)}
        BY <2>1, OrderIsImmaterial
    <3>2. QED
        BY <3>1, FS_Singleton
  <2>3. ASSUME NEW r \in Targets, NEW p \in Policies, M(r) # {},
               NEW d \in All(M(r), r), NEW e \in All(M(r) \cup {p}, r)
        PROVE  Rank(e) >= Rank(d)
    <3>1. M(r) \cup {p} \in SUBSET Policies /\ IsFiniteSet(M(r) \cup {p})
        BY <2>1, FS_AddElement
    <3>2. All(M(r), r) = {Verdict(M(r), r)} /\ All(M(r) \cup {p}, r) = {Verdict(M(r) \cup {p}, r)}
        BY <2>1, <3>1, OrderIsImmaterial
    <3>3. d = Verdict(M(r), r) /\ e = Verdict(M(r) \cup {p}, r)
        BY <2>3, <3>2
    <3> HIDE DEF M
    <3>4. QED
        BY <2>1, <2>3, <3>3, MoreIsStricter
  <2>4. QED
      BY <2>2, <2>3 DEF DecisionSettled
<1>2. QED
    BY <1>1, RegistryInit, RegistryStep, FiniteRegistry, PTL DEF Spec
=============================================================================
