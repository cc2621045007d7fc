--------------------------- MODULE PipelineProofs ---------------------------
(***************************************************************************)
(* For any number of processes, specifications, languages and policies,    *)
(* and a cache of any size: what a run writes is what a run without the    *)
(* cache would write, and its own policies accept it, up to the exceptions *)
(* that the properties name.  And for every list of tasks: the levels the  *)
(* scheduler makes of it are ordered, and those of the pipeline's own list *)
(* put the configuration last.  And for every graph of the planner: the    *)
(* breadth-first search and the topological sort are exact.                *)
(***************************************************************************)
EXTENDS Pipeline, TaskLevels, GraphQueries, FiniteSetTheorems, TLAPS

Stages == {"idle", "validate", "materialize", "policy", "generate", "write"}

\* One of these configurations has the languages l.
SomeUse(callers, l) == \E c \in callers : c.lang = l

\* A result of specification s that was called with the configurations callers.
\* The checks of one of them let it through the parser and, if it has artifacts,
\* through the generator.  It has the modules of s or none yet, and its artifacts
\* come from those of s, unless some call of s took the modules of another
\* specification.
Sound(cross, callers, s, r) ==
    /\ r \in Result /\ SomeUse(callers, r.neir.lang) /\ SomeAccept(callers, "parse", s)
    /\ r.artifacts # None =>
           SomeUse(callers, r.artifacts.lang) /\ SomeAccept(callers, "generate", s)
    /\ \/ s \in cross
       \/ /\ r.neir.modules \in {s, None}
          /\ r.artifacts # None => r.artifacts.modules = s

\* A map from specifications to sound results of them.
SoundCache(cross, callers, f) ==
    /\ DOMAIN f \subseteq Specs
    /\ \A s \in DOMAIN f : Sound(cross, callers[s], s, f[s])

Configurations == [lang : Languages, checks : Checks]

\* Process p has called s with its languages and the checks of its call.
CalledWith(p, s) == [lang |-> lang[p], checks |-> checks[p]] \in used[s]

PipelineTypeOK ==
    /\ lang \in [Procs -> Languages] /\ policy \in [Procs -> Policies]
    /\ resolved \in [Procs -> Specs \cup {None}]
    /\ pc \in [Procs -> Stages] /\ spec \in [Procs -> Specs \cup {None}]
    /\ entries = [p \in Procs |-> entries[p]] /\ result = [p \in Procs |-> result[p]]
    /\ output \in [Procs -> NEIR \cup {None}]
    /\ checks \in [Procs -> Checks \cup {None}]
    /\ used \in [Specs -> SUBSET Configurations]

\* All caches and the files hold sound results.
CachesInv ==
    /\ SoundCache(crossed, used, disk)
    /\ \A p \in Procs : SoundCache(crossed, used, entries[p])

\* A call under way.  Its result is sound; if it still lacks its modules, they
\* are the ones its process resolved last; once they are there, they are those
\* of its specification; and past the policies they are what these accepted.
CallInv(p) ==
    /\ pc[p] # "idle" => spec[p] \in Specs /\ CalledWith(p, spec[p])
    /\ pc[p] \notin {"idle", "validate"} => Sound(crossed, used[spec[p]], spec[p], result[p])
    /\ pc[p] = "materialize" /\ result[p].neir.modules = None =>
           resolved[p] = spec[p] \/ spec[p] \in crossed
    /\ pc[p] \in {"policy", "generate", "write"} =>
           result[p].neir.modules = spec[p] \/ spec[p] \in crossed
    /\ pc[p] \in {"generate", "write"} => PolicyPasses(policy[p], result[p].neir.modules)

\* What the last run of a process wrote.
OutputInv(p) ==
    output[p] # None =>
        /\ spec[p] \in Specs /\ SomeUse(used[spec[p]], output[p].lang)
        /\ SomeAccept(used[spec[p]], "parse", spec[p])
        /\ SomeAccept(used[spec[p]], "generate", spec[p])
        /\ \/ spec[p] \in crossed
           \/ output[p].modules = spec[p] /\ PolicyPasses(policy[p], spec[p])

PipelineInv ==
    /\ PipelineTypeOK /\ CachesInv
    /\ \A p \in Procs : CallInv(p) /\ OutputInv(p)
-----------------------------------------------------------------------------
\* More calls do not make a result unsound.
LEMMA SoundGrows ==
    ASSUME NEW s, NEW r, NEW c1, NEW c2, NEW l1, NEW l2,
           c1 \subseteq c2, l1 \subseteq l2, Sound(c1, l1, s, r)
    PROVE  Sound(c2, l2, s, r)
BY DEF Sound, SomeUse, SomeAccept

\* Nor a cache.
LEMMA CacheGrows ==
    ASSUME NEW f, NEW c1, NEW c2, NEW l1, NEW l2,
           c1 \subseteq c2, \A s \in Specs : l1[s] \subseteq l2[s], SoundCache(c1, l1, f)
    PROVE  SoundCache(c2, l2, f)
BY SoundGrows DEF SoundCache

\* What Cache.Set evicts leaves the rest sound.
LEMMA RestrictSound ==
    ASSUME NEW f, NEW c, NEW l, NEW T \in SUBSET DOMAIN f, SoundCache(c, l, f)
    PROVE  SoundCache(c, l, Restrict(f, T))
BY DEF SoundCache, Restrict

\* A sound result that is put in leaves the cache sound.
LEMMA PutSound ==
    ASSUME NEW f, NEW c, NEW l, NEW v, NEW s \in Specs, NEW r,
           SoundCache(c, l, f), Sound(c, l[s], s, r)
    PROVE  SoundCache(c, l, Drop(f, v)) /\ SoundCache(c, l, Put(Drop(f, v), s, r))
<1>1. SoundCache(c, l, Drop(f, v))
    BY RestrictSound DEF Drop
<1> DEFINE g == Drop(f, v)
<1> HIDE DEF g
<1>2. SoundCache(c, l, g) => SoundCache(c, l, Put(g, s, r))
    BY DEF SoundCache, Put
<1>3. QED
    BY <1>1, <1>2 DEF g

\* Cache.Set of a sound result leaves the caches and the files sound, whatever
\* it evicts and whether or not it can write the file.
LEMMA SetSound ==
    ASSUME PipelineInv, NEW p \in Procs, NEW s \in Specs, NEW r,
           Sound(crossed, used[s], s, r), Set(p, s, r)
    PROVE  /\ entries' = [q \in Procs |-> entries'[q]]
           /\ SoundCache(crossed, used, disk')
           /\ \A q \in Procs : SoundCache(crossed, used, entries'[q])
<1>1. PICK v \in Victims(p) :
        /\ entries' = [entries EXCEPT ![p] = Put(Drop(entries[p], v), s, r)]
        /\ \E saved \in BOOLEAN :
               disk' = IF saved THEN Put(Drop(disk, v), s, r) ELSE Drop(disk, v)
    BY DEF Set, PipelineInv, PipelineTypeOK
<1>2. /\ SoundCache(crossed, used, disk) /\ entries = [q \in Procs |-> entries[q]]
      /\ \A q \in Procs : SoundCache(crossed, used, entries[q])
    BY DEF PipelineInv, PipelineTypeOK, CachesInv
<1>3. SoundCache(crossed, used, Put(Drop(entries[p], v), s, r))
    BY <1>2, PutSound
<1>4. SoundCache(crossed, used, disk')
    BY <1>1, <1>2, PutSound
<1> DEFINE new == Put(Drop(entries[p], v), s, r)
<1> HIDE DEF new
<1>5. entries' = [entries EXCEPT ![p] = new] /\ SoundCache(crossed, used, new)
    BY <1>1, <1>3 DEF new
<1>6. QED
    BY <1>2, <1>4, <1>5
-----------------------------------------------------------------------------
Grows == crossed \subseteq crossed' /\ \A s \in Specs : used[s] \subseteq used'[s]

\* A step leaves a process alone.
Same(q) ==
    /\ pc'[q] = pc[q] /\ spec'[q] = spec[q] /\ lang'[q] = lang[q] /\ policy'[q] = policy[q]
    /\ checks'[q] = checks[q]
    /\ resolved'[q] = resolved[q] /\ result'[q] = result[q] /\ output'[q] = output[q]

\* What is not changed of another process stays in its place: the sets that the
\* invariant refers to only grow.
LEMMA OthersKept ==
    ASSUME PipelineInv, NEW q \in Procs, Same(q), Grows
    PROVE  CallInv(q)' /\ OutputInv(q)'
<1>1. CallInv(q) /\ OutputInv(q) /\ (pc[q] # "idle" \/ output[q] # None => spec[q] \in Specs)
    BY DEF PipelineInv, CallInv, OutputInv
<1>2. spec[q] \in Specs /\ Sound(crossed, used[spec[q]], spec[q], result[q]) =>
          Sound(crossed', used'[spec[q]], spec[q], result[q])
    BY SoundGrows DEF Grows
<1>3. CallInv(q)'
    BY <1>1, <1>2 DEF CallInv, CalledWith, Same, Grows
<1>4. OutputInv(q)'
    BY <1>1 DEF OutputInv, SomeUse, SomeAccept, Same, Grows
<1>5. QED
    BY <1>3, <1>4

\* So do the caches that a step leaves alone.
LEMMA CachesKept ==
    ASSUME PipelineInv, UNCHANGED <<entries, disk>>, Grows
    PROVE  CachesInv'
<1>1. SoundCache(crossed', used', disk)
    BY CacheGrows DEF PipelineInv, CachesInv, Grows
<1>2. \A q \in Procs : SoundCache(crossed', used', entries[q])
    BY CacheGrows DEF PipelineInv, CachesInv, Grows
<1>3. QED
    BY <1>1, <1>2 DEF CachesInv

\* A step of process p keeps the invariant if it keeps the parts that are
\* about the types, the caches and p.
LEMMA OneProcess ==
    ASSUME PipelineInv, NEW p \in Procs, Grows, \A q \in Procs \ {p} : Same(q),
           PipelineTypeOK', CachesInv', CallInv(p)', OutputInv(p)'
    PROVE  PipelineInv'
BY OthersKept DEF PipelineInv
-----------------------------------------------------------------------------
\* Initially the caches are empty and nobody calls.
LEMMA PipelineInit == Init => PipelineInv
<1> SUFFICES ASSUME Init PROVE PipelineInv
    OBVIOUS
<1>1. PipelineTypeOK
    BY DEF Init, PipelineTypeOK, Stages
<1>2. CachesInv
    BY DEF Init, CachesInv, SoundCache, Empty
<1>3. \A p \in Procs : CallInv(p) /\ OutputInv(p)
    BY DEF Init, CallInv, OutputInv
<1>4. QED
    BY <1>1, <1>2, <1>3 DEF PipelineInv

\* A call adds its configuration to those of the specification.
LEMMA CallStep ==
    ASSUME PipelineInv, NEW p \in Procs, NEW k, NEW s \in Specs, NEW c \in Checks,
           Call(p, k, s, c)
    PROVE  PipelineInv'
<1>1. PipelineTypeOK
    BY DEF PipelineInv
<1>2. /\ pc' = [pc EXCEPT ![p] = "validate"] /\ spec' = [spec EXCEPT ![p] = s]
      /\ used' = [used EXCEPT ![s] = @ \cup {[lang |-> lang[p], checks |-> c]}]
      /\ checks' = [checks EXCEPT ![p] = c] /\ output' = [output EXCEPT ![p] = None]
      /\ UNCHANGED <<lang, policy, resolved, entries, disk, result, crossed>>
    BY DEF Call, Goes, config
<1>3. /\ used'[s] = used[s] \cup {[lang |-> lang[p], checks |-> c]}
      /\ \A t \in Specs \ {s} : used'[t] = used[t]
      /\ used' \in [Specs -> SUBSET Configurations]
    BY <1>1, <1>2 DEF PipelineTypeOK, Configurations
<1>4. Grows
    BY <1>2, <1>3 DEF Grows
<1>5. PipelineTypeOK'
    BY <1>1, <1>2, <1>3 DEF PipelineTypeOK, Stages
<1>6. CachesInv'
    BY <1>2, <1>4, CachesKept
<1>7. \A q \in Procs \ {p} : Same(q)
    BY <1>1, <1>2 DEF PipelineTypeOK, Same
<1>8. CallInv(p)' /\ OutputInv(p)'
    BY <1>1, <1>2, <1>3 DEF PipelineTypeOK, CallInv, OutputInv, CalledWith
<1>9. QED
    BY <1>4, <1>5, <1>6, <1>7, <1>8, OneProcess

\* A failing stage leaves its call.
LEMMA StageFailsStep ==
    ASSUME PipelineInv, NEW p \in Procs, StageFails(p)
    PROVE  PipelineInv'
<1>1. PipelineTypeOK /\ OutputInv(p)
    BY DEF PipelineInv
<1>2. /\ pc' = [pc EXCEPT ![p] = "idle"]
      /\ UNCHANGED <<lang, policy, checks, resolved, entries, disk, spec, result, output, crossed, used>>
    BY DEF StageFails, Goes, config, request, history
<1>3. Grows
    BY <1>2 DEF Grows
<1>4. PipelineTypeOK'
    BY <1>1, <1>2 DEF PipelineTypeOK, Stages
<1>5. CachesInv'
    BY <1>2, <1>3, CachesKept
<1>6. \A q \in Procs \ {p} : Same(q)
    BY <1>1, <1>2 DEF PipelineTypeOK, Same
<1>7. CallInv(p)' /\ OutputInv(p)'
    BY <1>1, <1>2 DEF PipelineTypeOK, CallInv, OutputInv, CalledWith
<1>8. QED
    BY <1>3, <1>4, <1>5, <1>6, <1>7, OneProcess

\* A hit takes what is cached for the specification; an entry without modules
\* is one of the process's own, or the specification counts as crossed.
LEMMA CacheHitStep ==
    ASSUME PipelineInv, NEW p \in Procs, CacheHit(p)
    PROVE  PipelineInv'
<1> DEFINE s == spec[p]
           r == entries[p][s]
<1>1. PipelineTypeOK /\ CallInv(p) /\ OutputInv(p) /\ SoundCache(crossed, used, entries[p])
    BY DEF PipelineInv, CachesInv
<1>2. /\ pc[p] = "validate" /\ pc' = [pc EXCEPT ![p] = Validated(p)] /\ s \in DOMAIN entries[p]
      /\ result' = [result EXCEPT ![p] = r]
      /\ crossed' = IF r.neir.modules = None /\ resolved[p] # s THEN crossed \cup {s} ELSE crossed
      /\ UNCHANGED <<lang, policy, checks, resolved, entries, disk, spec, output, used>>
    BY DEF CacheHit, Goes, config, request
<1>3. s \in Specs /\ Sound(crossed, used[s], s, r) /\ Validated(p) \in {"idle", "materialize"}
    BY <1>1, <1>2 DEF SoundCache, Validated
<1>4. Grows
    BY <1>2 DEF Grows
<1> HIDE DEF s, r
<1>5. PipelineTypeOK'
    BY <1>1, <1>2, <1>3 DEF PipelineTypeOK, Stages
<1>6. CachesInv'
    BY <1>2, <1>4, CachesKept
<1>7. \A q \in Procs \ {p} : Same(q)
    BY <1>1, <1>2 DEF PipelineTypeOK, Same
<1>8. Sound(crossed', used[s], s, r)
    BY <1>3, <1>4, SoundGrows DEF Grows
<1>9. /\ pc'[p] \in {"idle", "materialize"} /\ result'[p] = r /\ spec'[p] = s
      /\ CalledWith(p, s)
    BY <1>1, <1>2, <1>3 DEF PipelineTypeOK, CallInv, s
<1>10. CallInv(p)'
    BY <1>2, <1>3, <1>8, <1>9 DEF CallInv, CalledWith
<1>11. OutputInv(p)'
    BY <1>1, <1>2, <1>4 DEF OutputInv, Grows
<1>12. QED
    BY <1>4, <1>5, <1>6, <1>7, <1>10, <1>11, OneProcess

\* Without a hit the result is new, cached without its modules, and the process
\* has resolved the specification.
LEMMA ValidateSpecStep ==
    ASSUME PipelineInv, NEW p \in Procs, ValidateSpec(p)
    PROVE  PipelineInv'
<1> DEFINE s == spec[p]
           r == [neir |-> [modules |-> None, lang |-> lang[p]], artifacts |-> None]
<1>1. PipelineTypeOK /\ CallInv(p) /\ OutputInv(p)
    BY DEF PipelineInv
<1>2. /\ pc[p] = "validate" /\ pc' = [pc EXCEPT ![p] = Validated(p)]
      /\ Accepts(checks[p], "parse", s)
      /\ resolved' = [resolved EXCEPT ![p] = s] /\ result' = [result EXCEPT ![p] = r]
      /\ Set(p, s, r)
      /\ UNCHANGED <<lang, policy, checks, spec, output, crossed, used>>
    BY DEF ValidateSpec, Goes, config, request, history
<1>3. s \in Specs /\ CalledWith(p, s) /\ lang[p] \in Languages
      /\ Validated(p) \in {"idle", "materialize"}
    BY <1>1, <1>2 DEF PipelineTypeOK, CallInv, Validated
<1>4. Sound(crossed, used[s], s, r)
    BY <1>2, <1>3 DEF Sound, Result, NEIR, CalledWith, SomeUse, SomeAccept
<1>5. r.neir.modules = None
    OBVIOUS
<1> HIDE DEF s, r
<1>6. /\ entries' = [q \in Procs |-> entries'[q]] /\ SoundCache(crossed, used, disk')
      /\ \A q \in Procs : SoundCache(crossed, used, entries'[q])
    BY <1>2, <1>3, <1>4, SetSound
<1>7. CachesInv'
    BY <1>2, <1>6 DEF CachesInv
<1>8. PipelineTypeOK'
    BY <1>1, <1>2, <1>3, <1>6 DEF PipelineTypeOK, Stages
<1>9. Grows /\ \A q \in Procs \ {p} : Same(q)
    BY <1>1, <1>2 DEF PipelineTypeOK, Same, Grows
<1>10. /\ pc'[p] \in {"idle", "materialize"} /\ result'[p] = r /\ spec'[p] = s
       /\ resolved'[p] = s
    BY <1>1, <1>2, <1>3 DEF PipelineTypeOK, s
<1>11. CallInv(p)'
    BY <1>2, <1>3, <1>4, <1>10 DEF CallInv, CalledWith
<1>12. OutputInv(p)'
    BY <1>1, <1>2 DEF OutputInv
<1>13. QED
    BY <1>7, <1>8, <1>9, <1>11, <1>12, OneProcess

\* The modules that are put in are those of the specification.
LEMMA MaterializeStep ==
    ASSUME PipelineInv, NEW p \in Procs, Materialize(p)
    PROVE  PipelineInv'
<1> DEFINE s == spec[p]
           r == [result[p] EXCEPT !.neir.modules = resolved[p]]
           skip == resolved[p] = None \/ result[p].neir.modules # None
<1>1. /\ PipelineTypeOK /\ CachesInv /\ CallInv(p) /\ OutputInv(p)
      /\ SoundCache(crossed, used, entries[p])
    BY DEF PipelineInv, CachesInv
<1>2. /\ pc[p] = "materialize" /\ pc' = [pc EXCEPT ![p] = "policy"]
      /\ IF skip THEN UNCHANGED <<result, entries>> ELSE Update(p, r)
      /\ UNCHANGED <<lang, policy, checks, resolved, disk, spec, output, crossed, used>>
    BY DEF Materialize, Goes, config, request, history
<1>3. s \in Specs /\ Sound(crossed, used[s], s, result[p]) /\ CalledWith(p, s)
      /\ (result[p].neir.modules = None => resolved[p] = s \/ s \in crossed)
    BY <1>1, <1>2 DEF CallInv
<1>4. Grows
    BY <1>2 DEF Grows
<1>5. CASE skip
  <2>1. UNCHANGED <<result, entries>>
      BY <1>2, <1>5
  <2>2. PipelineTypeOK'
      BY <1>1, <1>2, <2>1 DEF PipelineTypeOK, Stages
  <2>3. CachesInv'
      BY <1>2, <1>4, <2>1, CachesKept
  <2>4. \A q \in Procs \ {p} : Same(q)
      BY <1>1, <1>2, <2>1 DEF PipelineTypeOK, Same
  <2>5. result[p].neir.modules = s \/ s \in crossed
      BY <1>3, <1>5, PipelineAssumption DEF Sound
  <2>6. pc'[p] = "policy"
      BY <1>1, <1>2 DEF PipelineTypeOK
  <2>7. CallInv(p)' /\ OutputInv(p)'
      BY <1>1, <1>2, <1>3, <2>1, <2>5, <2>6 DEF CallInv, OutputInv, CalledWith
  <2>8. QED
      BY <1>4, <2>2, <2>3, <2>4, <2>7, OneProcess
<1>6. CASE ~skip
  <2>1. /\ result' = [result EXCEPT ![p] = r]
        /\ entries' = IF s \in DOMAIN entries[p] THEN [entries EXCEPT ![p][s] = r] ELSE entries
      BY <1>2, <1>6 DEF Update
  <2>2. /\ result[p] \in Result /\ result[p].neir \in NEIR
        /\ resolved[p] \in Specs
      BY <1>1, <1>3, <1>6 DEF Sound, Result, PipelineTypeOK
  <2>3. /\ r.neir = [modules |-> resolved[p], lang |-> result[p].neir.lang]
        /\ r.artifacts = result[p].artifacts /\ r \in Result
      BY <2>2 DEF Result, NEIR
  <2> HIDE DEF r
  <2>4. Sound(crossed, used[s], s, r)
      BY <1>3, <1>6, <2>3 DEF Sound
  <2>5. r.neir.modules = s \/ s \in crossed
      BY <1>3, <1>6, <2>3
  <2>6. entries' = [q \in Procs |-> entries'[q]] /\ SoundCache(crossed, used, entries'[p])
        /\ \A q \in Procs \ {p} : entries'[q] = entries[q]
    <3>1. CASE s \in DOMAIN entries[p]
      <4>1. entries' = [entries EXCEPT ![p] = [entries[p] EXCEPT ![s] = r]]
          BY <1>1, <2>1, <3>1 DEF PipelineTypeOK
      <4>2. SoundCache(crossed, used, [entries[p] EXCEPT ![s] = r])
          BY <1>1, <2>4, <3>1 DEF SoundCache
      <4> DEFINE new == [entries[p] EXCEPT ![s] = r]
      <4> HIDE DEF new
      <4>3. entries' = [entries EXCEPT ![p] = new] /\ SoundCache(crossed, used, new)
          BY <4>1, <4>2 DEF new
      <4>4. QED
          BY <1>1, <4>3 DEF PipelineTypeOK
    <3>2. CASE s \notin DOMAIN entries[p]
        BY <1>1, <2>1, <3>2 DEF PipelineTypeOK
    <3>3. QED
        BY <3>1, <3>2
  <2>7. CachesInv'
      BY <1>1, <1>2, <2>6 DEF CachesInv
  <2>8. PipelineTypeOK'
      BY <1>1, <1>2, <2>1, <2>6 DEF PipelineTypeOK, Stages
  <2>9. \A q \in Procs \ {p} : Same(q)
      BY <1>1, <1>2, <2>1 DEF PipelineTypeOK, Same
  <2>10. pc'[p] = "policy" /\ result'[p] = r
      BY <1>1, <1>2, <2>1 DEF PipelineTypeOK
  <2>11. CallInv(p)' /\ OutputInv(p)'
      BY <1>1, <1>2, <1>3, <2>4, <2>5, <2>10 DEF CallInv, OutputInv, CalledWith
  <2>12. QED
      BY <1>4, <2>7, <2>8, <2>9, <2>11, OneProcess
<1>7. QED
    BY <1>5, <1>6

\* Past the policies, they accept the modules.
LEMMA EvaluatePoliciesStep ==
    ASSUME PipelineInv, NEW p \in Procs, EvaluatePolicies(p)
    PROVE  PipelineInv'
<1> DEFINE passes == PolicyPasses(policy[p], result[p].neir.modules)
<1>1. PipelineTypeOK /\ CallInv(p) /\ OutputInv(p)
    BY DEF PipelineInv
<1>2. /\ pc[p] = "policy" /\ pc' = [pc EXCEPT ![p] = IF passes THEN "generate" ELSE "idle"]
      /\ UNCHANGED <<lang, policy, checks, resolved, entries, disk, spec, result, output, crossed, used>>
    BY DEF EvaluatePolicies, Goes, config, request, history
<1>3. Grows
    BY <1>2 DEF Grows
<1>4. PipelineTypeOK'
    BY <1>1, <1>2 DEF PipelineTypeOK, Stages
<1>5. CachesInv'
    BY <1>2, <1>3, CachesKept
<1>6. \A q \in Procs \ {p} : Same(q)
    BY <1>1, <1>2 DEF PipelineTypeOK, Same
<1>7. CallInv(p)' /\ OutputInv(p)'
    BY <1>1, <1>2 DEF PipelineTypeOK, CallInv, OutputInv, CalledWith
<1>8. QED
    BY <1>3, <1>4, <1>5, <1>6, <1>7, OneProcess

\* Artifacts are generated from the modules that the policies accepted; those
\* that the cached result has come from the same specification.
LEMMA GenerateStep ==
    ASSUME PipelineInv, NEW p \in Procs, Generate(p)
    PROVE  PipelineInv'
<1> DEFINE s == spec[p]
           r == [result[p] EXCEPT !.artifacts = result[p].neir]
<1>1. PipelineTypeOK /\ CallInv(p) /\ OutputInv(p)
    BY DEF PipelineInv
<1>2. /\ pc[p] = "generate" /\ pc' = [pc EXCEPT ![p] = "write"]
      /\ IF result[p].artifacts # None THEN UNCHANGED <<result, entries, disk>>
         ELSE /\ Accepts(checks[p], "generate", s)
              /\ result' = [result EXCEPT ![p] = r] /\ Set(p, s, r)
      /\ UNCHANGED <<lang, policy, checks, resolved, spec, output, crossed, used>>
    BY DEF Generate, Goes, config, request, history
<1>3. /\ s \in Specs /\ Sound(crossed, used[s], s, result[p]) /\ CalledWith(p, s)
      /\ result[p].neir.modules = s \/ s \in crossed
      /\ PolicyPasses(policy[p], result[p].neir.modules)
    BY <1>1, <1>2 DEF CallInv
<1>4. Grows
    BY <1>2 DEF Grows
<1>5. CASE result[p].artifacts # None
  <2>1. UNCHANGED <<result, entries, disk>>
      BY <1>2, <1>5
  <2>2. PipelineTypeOK'
      BY <1>1, <1>2, <2>1 DEF PipelineTypeOK, Stages
  <2>3. CachesInv'
      BY <1>4, <2>1, CachesKept
  <2>4. \A q \in Procs \ {p} : Same(q)
      BY <1>1, <1>2, <2>1 DEF PipelineTypeOK, Same
  <2>5. pc'[p] = "write"
      BY <1>1, <1>2 DEF PipelineTypeOK
  <2>6. CallInv(p)' /\ OutputInv(p)'
      BY <1>1, <1>2, <1>3, <2>1, <2>5 DEF CallInv, OutputInv, CalledWith
  <2>7. QED
      BY <1>4, <2>2, <2>3, <2>4, <2>6, OneProcess
<1>6. CASE result[p].artifacts = None
  <2>1. /\ result' = [result EXCEPT ![p] = r] /\ Set(p, s, r)
        /\ Accepts(checks[p], "generate", s)
      BY <1>2, <1>6
  <2>2. r.neir = result[p].neir /\ r.artifacts = result[p].neir /\ r \in Result
      BY <1>3 DEF Sound, Result
  <2> HIDE DEF r
  <2>3. Sound(crossed, used[s], s, r)
      BY <1>3, <2>1, <2>2 DEF Sound, CalledWith, SomeAccept
  <2>4. /\ entries' = [q \in Procs |-> entries'[q]] /\ SoundCache(crossed, used, disk')
        /\ \A q \in Procs : SoundCache(crossed, used, entries'[q])
      BY <1>3, <2>1, <2>3, SetSound
  <2>5. CachesInv'
      BY <1>2, <2>4 DEF CachesInv
  <2>6. PipelineTypeOK'
      BY <1>1, <1>2, <2>1, <2>4 DEF PipelineTypeOK, Stages
  <2>7. \A q \in Procs \ {p} : Same(q)
      BY <1>1, <1>2, <2>1 DEF PipelineTypeOK, Same
  <2>8. pc'[p] = "write" /\ result'[p] = r
      BY <1>1, <1>2, <2>1 DEF PipelineTypeOK
  <2>9. CallInv(p)' /\ OutputInv(p)'
      BY <1>1, <1>2, <1>3, <2>2, <2>3, <2>8 DEF CallInv, OutputInv, CalledWith
  <2>10. QED
      BY <1>4, <2>5, <2>6, <2>7, <2>9, OneProcess
<1>7. QED
    BY <1>5, <1>6

\* What is written comes from the modules that the policies accepted.
LEMMA WriteArtifactsStep ==
    ASSUME PipelineInv, NEW p \in Procs, WriteArtifacts(p)
    PROVE  PipelineInv'
<1>1. PipelineTypeOK /\ CallInv(p)
    BY DEF PipelineInv
<1>2. /\ pc[p] = "write" /\ pc' = [pc EXCEPT ![p] = "idle"]
      /\ output' = [output EXCEPT ![p] = result[p].artifacts]
      /\ UNCHANGED <<lang, policy, checks, resolved, entries, disk, spec, result, crossed, used>>
    BY DEF WriteArtifacts, Goes, config, request, history
<1>3. /\ spec[p] \in Specs /\ Sound(crossed, used[spec[p]], spec[p], result[p])
      /\ CalledWith(p, spec[p])
      /\ result[p].neir.modules = spec[p] \/ spec[p] \in crossed
      /\ PolicyPasses(policy[p], result[p].neir.modules)
    BY <1>1, <1>2 DEF CallInv
<1>4. result[p].artifacts \in NEIR \cup {None}
    BY <1>3 DEF Sound, Result
<1>5. Grows
    BY <1>2 DEF Grows
<1>6. PipelineTypeOK'
    BY <1>1, <1>2, <1>4 DEF PipelineTypeOK, Stages
<1>7. CachesInv'
    BY <1>2, <1>5, CachesKept
<1>8. \A q \in Procs \ {p} : Same(q)
    BY <1>1, <1>2 DEF PipelineTypeOK, Same
<1>9. pc'[p] = "idle" /\ output'[p] = result[p].artifacts
    BY <1>1, <1>2 DEF PipelineTypeOK
<1>10. CallInv(p)'
    BY <1>9 DEF CallInv
<1>11. OutputInv(p)'
    BY <1>2, <1>3, <1>9 DEF OutputInv, Sound
<1>12. QED
    BY <1>5, <1>6, <1>7, <1>8, <1>10, <1>11, OneProcess

\* A new process takes over the files.
LEMMA RestartStep ==
    ASSUME PipelineInv, NEW p \in Procs, Restart(p)
    PROVE  PipelineInv'
<1>1. PipelineTypeOK /\ CachesInv
    BY DEF PipelineInv
<1>2. PICK torn : disk' = Restrict(disk, DOMAIN disk \ torn)
    BY DEF Restart
<1>3. PICK l \in Languages, q \in Policies :
        lang' = [lang EXCEPT ![p] = l] /\ policy' = [policy EXCEPT ![p] = q]
    BY DEF Restart
<1>4. /\ entries' = [entries EXCEPT ![p] = disk'] /\ resolved' = [resolved EXCEPT ![p] = None]
      /\ pc' = [pc EXCEPT ![p] = "idle"]
      /\ spec' = [spec EXCEPT ![p] = None] /\ checks' = [checks EXCEPT ![p] = None]
      /\ result' = [result EXCEPT ![p] = NoResult] /\ output' = [output EXCEPT ![p] = None]
      /\ UNCHANGED <<crossed, used>>
    BY DEF Restart, history
<1>5. SoundCache(crossed, used, disk')
    BY <1>1, <1>2, RestrictSound DEF CachesInv
<1>6. CachesInv'
    BY <1>1, <1>4, <1>5 DEF CachesInv, PipelineTypeOK
<1>7. PipelineTypeOK'
    BY <1>1, <1>3, <1>4 DEF PipelineTypeOK, Stages
<1>8. Grows /\ \A x \in Procs \ {p} : Same(x)
    BY <1>1, <1>3, <1>4 DEF PipelineTypeOK, Grows, Same
<1>9. CallInv(p)' /\ OutputInv(p)'
    BY <1>1, <1>4 DEF PipelineTypeOK, CallInv, OutputInv, CalledWith
<1>10. QED
    BY <1>6, <1>7, <1>8, <1>9, OneProcess

\* Every step of every process keeps the invariant.
LEMMA PipelineStep == PipelineInv /\ [Next]_vars => PipelineInv'
<1> SUFFICES ASSUME PipelineInv, [Next]_vars PROVE PipelineInv'
    OBVIOUS
<1>1. CASE UNCHANGED vars
  <2>1. UNCHANGED <<lang, policy, checks, resolved, entries, disk, pc, spec, result, output, crossed, used>>
      BY <1>1 DEF vars, config, request, history
  <2>2. Grows /\ \A q \in Procs : Same(q)
      BY <2>1 DEF Grows, Same
  <2>3. PipelineTypeOK'
      BY <2>1 DEF PipelineInv, PipelineTypeOK
  <2>4. QED
      BY <2>1, <2>2, <2>3, CachesKept, OthersKept DEF PipelineInv
<1>2. CASE Next
    BY <1>2, CallStep, StageFailsStep, CacheHitStep, ValidateSpecStep, MaterializeStep,
       EvaluatePoliciesStep, GenerateStep, WriteArtifactsStep, RestartStep DEF Next, Stage
<1>3. QED
    BY <1>1, <1>2

\* However processes, calls, evictions, failures and restarts interleave, the
\* invariant holds.
LEMMA PipelineAlways == Spec => []PipelineInv
BY PipelineInit, PipelineStep, PTL DEF Spec

\* Pipeline.Run with its cache writes what it would write without it, whatever
\* was cached before and by whom, but for the two exceptions; and where its own
\* schema or hooks would refuse the specification, those of another call with the
\* specification let it through the parser and the generator.
THEOREM CacheIsTransparent == Spec => []CachedEqualsFresh
<1>1. ASSUME PipelineInv, NEW p \in Procs, output[p] # None
      PROVE  /\ \/ output[p] = Fresh(p)
                \/ spec[p] \in crossed
                \/ \E c \in used[spec[p]] : c.lang # lang[p]
             /\ \A stage \in {"parse", "generate"} :
                    SomeAccept(used[spec[p]], stage, spec[p])
  <2>1. OutputInv(p) /\ output[p] \in NEIR
      BY <1>1 DEF PipelineInv, PipelineTypeOK
  <2>2. \A stage \in {"parse", "generate"} : SomeAccept(used[spec[p]], stage, spec[p])
      BY <1>1, <2>1 DEF OutputInv
  <2>3. ASSUME spec[p] \notin crossed, output[p] # Fresh(p)
        PROVE  \E c \in used[spec[p]] : c.lang # lang[p]
    <3>1. output[p].modules = spec[p] /\ SomeUse(used[spec[p]], output[p].lang)
        BY <1>1, <2>1, <2>3 DEF OutputInv
    <3>2. output[p].lang # lang[p]
        BY <2>1, <2>3, <3>1 DEF NEIR, Fresh
    <3>3. QED
        BY <3>1, <3>2 DEF SomeUse
  <2>4. QED
      BY <2>2, <2>3
<1>2. PipelineInv => CachedEqualsFresh
    BY <1>1 DEF CachedEqualsFresh
<1>3. QED
    BY <1>2, PipelineAlways, PTL

\* Pipeline.Run writes only what the policies of its own process accept, also
\* if the artifacts were generated and cached under other policies.
THEOREM OwnPoliciesGuard == Spec => []PoliciesGuardOutput
<1>1. PipelineInv => PoliciesGuardOutput
    BY DEF PipelineInv, OutputInv, PoliciesGuardOutput
<1>2. QED
    BY <1>1, PipelineAlways, PTL
-----------------------------------------------------------------------------
\* The least element of a set of numbers: what the inductions below rest on.
LEMMA LeastNat ==
    ASSUME NEW T \in SUBSET Nat, T # {}
    PROVE  \E m \in T : \A k \in T : m <= k
<1>1. PICK m \in T : \A y \in T : ~(<<y, m>> \in OpToRel(<, Nat))
    BY NatLessThanWellFounded, WFMin, Zenon
<1>2. \A y \in T : ~(y < m)
    BY <1>1 DEF OpToRel
<1>3. QED
    BY <1>2

\* A loop that repeats a step a number of times has a sequence of states.
AreRounds(g, n, S, F, s0) ==
    g \in [0..n -> S] /\ g[0] = s0 /\ \A i \in 1..n : g[i] = F[i][g[i - 1]]

\* These states exist for every step and any number of rounds.
LEMMA RoundsExist ==
    ASSUME NEW n \in Nat, NEW S, NEW F \in [1..n -> [S -> S]], NEW s0 \in S
    PROVE  \E g : AreRounds(g, n, S, F, s0)
<1> DEFINE Good(k) == \E g : AreRounds(g, k, S, F, s0)
           T == {k \in Nat : k <= n /\ ~Good(k)}
<1>1. SUFFICES ASSUME T # {} PROVE FALSE
  <2>1. n \in Nat /\ n <= n
      OBVIOUS
  <2>2. n \notin T => Good(n)
      BY <2>1
  <2>3. QED
      BY <2>2
<1>2. PICK k \in T : \A j \in T : k <= j
    BY <1>1, LeastNat
<1>3. Good(0)
  <2> DEFINE h == [i \in 0..0 |-> s0]
  <2>1. h \in [0..0 -> S] /\ h[0] = s0
      OBVIOUS
  <2>2. \A i \in 1..0 : h[i] = F[i][h[i - 1]]
      OBVIOUS
  <2> HIDE DEF h
  <2>3. QED
      BY <2>1, <2>2 DEF AreRounds
<1>4. k \in 1..n /\ ~Good(k)
    BY <1>2, <1>3
<1>5. Good(k - 1)
  <2>1. k - 1 \in Nat /\ k - 1 <= n /\ ~(k <= k - 1)
      BY <1>4
  <2>2. k - 1 \notin T
      BY <1>2, <2>1
  <2>3. QED
      BY <2>1, <2>2
<1>6. PICK g \in [0..(k - 1) -> S] : g[0] = s0 /\ \A i \in 1..(k - 1) : g[i] = F[i][g[i - 1]]
    BY <1>5 DEF AreRounds
<1> DEFINE h == [i \in 0..k |-> IF i = k THEN F[k][g[k - 1]] ELSE g[i]]
<1>7. h \in [0..k -> S]
  <2>1. g[k - 1] \in S /\ F[k] \in [S -> S]
      BY <1>4, <1>6
  <2>2. QED
      BY <1>4, <1>6, <2>1
<1>8. h[0] = s0 /\ \A i \in 1..k : h[i] = F[i][h[i - 1]]
    BY <1>4, <1>6
<1> HIDE DEF h
<1>9. QED
    BY <1>4, <1>7, <1>8 DEF AreRounds

\* The lists of tasks with IDs in X.
TaskLists(X) == Seq([id : X, deps : SUBSET X])

\* The state of the loop of topologicalLevels.
LoopState(ts) == [rest : SUBSET IDs(ts), levels : Seq(SUBSET IDs(ts))]

\* A list has no more IDs than tasks.
LEMMA IDsFinite ==
    ASSUME NEW X, NEW ts \in TaskLists(X)
    PROVE  IsFiniteSet(IDs(ts)) /\ Cardinality(IDs(ts)) \in Nat
           /\ Cardinality(IDs(ts)) <= Len(ts)
<1> DEFINE n == Len(ts)
           f == [i \in 1..n |-> ts[i].id]
<1>1. n \in Nat /\ DOMAIN ts = 1..n
    BY DEF TaskLists
<1>2. IDs(ts) = {ts[i].id : i \in 1..n}
    BY <1>1 DEF IDs, ToSet
<1>3. f \in Surjection(1..n, IDs(ts))
  <2>1. f \in [1..n -> IDs(ts)]
      BY <1>2
  <2>2. \A id \in IDs(ts) : \E i \in 1..n : f[i] = id
      BY <1>2
  <2> HIDE DEF f
  <2>3. QED
      BY <2>1, <2>2 DEF Surjection
<1> HIDE DEF f, n
<1>4. IsFiniteSet(1..n) /\ Cardinality(1..n) = n
    BY <1>1, FS_Interval
<1>5. IsFiniteSet(IDs(ts)) /\ Cardinality(IDs(ts)) <= n
    BY <1>3, <1>4, FS_Surjection
<1>6. QED
    BY <1>5, FS_CardinalityType DEF n

\* A round makes a state of the loop from one.
LEMMA RoundType ==
    ASSUME NEW X, NEW ts \in TaskLists(X), NEW s \in LoopState(ts)
    PROVE  NextLevel(ts, s) \in LoopState(ts)
<1>1. s.rest \in SUBSET IDs(ts) /\ s.levels \in Seq(SUBSET IDs(ts))
    BY DEF LoopState
<1>2. Released(ts, s.rest) \in SUBSET IDs(ts)
    BY <1>1 DEF Released
<1>3. Append(s.levels, Released(ts, s.rest)) \in Seq(SUBSET IDs(ts))
    BY <1>1, <1>2
<1>4. QED
    BY <1>1, <1>3 DEF NextLevel, LoopState

\* What the loop keeps.  After i rounds there are i levels, unless it has ended
\* before; the levels and the rest share the IDs out; and as each level takes
\* what was free, what is left depends on the last level or on the rest.
LoopInvAt(ts, i, s, n) ==
    /\ s \in LoopState(ts) /\ n <= i
    /\ n = i \/ Released(ts, s.rest) = {}
    /\ Cardinality(s.rest) + n <= Cardinality(IDs(ts))
    /\ \A id \in IDs(ts) : id \notin s.rest <=> \E j \in 1..n : id \in s.levels[j]
    /\ \A j, k \in 1..n : j # k => s.levels[j] \cap s.levels[k] = {}
    /\ \A j \in 1..n, t \in ToSet(ts) : t.id \in s.levels[j] =>
           \A d \in t.deps \cap IDs(ts) : \E k \in 1..(j - 1) : d \in s.levels[k]
    /\ \A j \in 2..n, id \in IDs(ts) : id \in s.levels[j] =>
           \E t \in ToSet(ts) : t.id = id /\ t.deps \cap s.levels[j - 1] # {}
    /\ n > 0 => \A id \in s.rest : \E t \in ToSet(ts) :
           t.id = id /\ t.deps \cap (s.rest \cup s.levels[n]) # {}

LoopInv(ts, i, s) == LoopInvAt(ts, i, s, Len(s.levels))

\* The loop starts with everything left and no level.
LEMMA LoopStarts ==
    ASSUME NEW X, NEW ts \in TaskLists(X)
    PROVE  LoopInv(ts, 0, [rest |-> IDs(ts), levels |-> <<>>])
<1> DEFINE s == [rest |-> IDs(ts), levels |-> <<>>]
<1>1. s \in LoopState(ts)
    BY DEF LoopState
<1>2. s.rest = IDs(ts) /\ s.levels = <<>> /\ Len(s.levels) = 0
    OBVIOUS
<1>3. Cardinality(IDs(ts)) \in Nat
    BY IDsFinite
<1> HIDE DEF s
<1>4. LoopInv(ts, 0, s)
    BY <1>1, <1>2, <1>3 DEF LoopInv, LoopInvAt
<1>5. QED
    BY <1>4 DEF s

\* A round keeps what the loop keeps.
LEMMA LoopContinues ==
    ASSUME NEW X, NEW ts \in TaskLists(X), NEW i \in Nat, NEW s, LoopInv(ts, i, s)
    PROVE  LoopInv(ts, i + 1, NextLevel(ts, s))
<1> DEFINE L == Released(ts, s.rest)
           n == Len(s.levels)
<1>1. s \in LoopState(ts) /\ n \in Nat /\ s.rest \in SUBSET IDs(ts)
      /\ s.levels \in Seq(SUBSET IDs(ts)) /\ n <= i
    BY DEF LoopInv, LoopInvAt, LoopState
<1>2. CASE L = {}
  <2>1. NextLevel(ts, s) = s
      BY <1>2 DEF NextLevel
  <2>2. QED
      BY <1>1, <1>2, <2>1 DEF LoopInv, LoopInvAt
<1>3. CASE L # {}
  <2> DEFINE u == NextLevel(ts, s)
  <2>1. /\ u.rest = s.rest \ L /\ u.levels = Append(s.levels, L) /\ u \in LoopState(ts)
        /\ L \in SUBSET s.rest /\ L \in SUBSET IDs(ts)
      BY <1>1, <1>3, RoundType DEF NextLevel, Released
  <2>2. /\ Len(u.levels) = n + 1 /\ u.levels[n + 1] = L
        /\ \A j \in 1..n : u.levels[j] = s.levels[j]
      BY <1>1, <2>1
  <2>3. n = i
      BY <1>3 DEF LoopInv, LoopInvAt
  <2> HIDE DEF u
  <2>4. Cardinality(u.rest) + (n + 1) <= Cardinality(IDs(ts))
    <3>1. IsFiniteSet(s.rest) /\ Cardinality(s.rest) \in Nat /\ Cardinality(IDs(ts)) \in Nat
          /\ Cardinality(s.rest) + n <= Cardinality(IDs(ts))
        BY <1>1, IDsFinite, FS_Subset, FS_CardinalityType DEF LoopInv, LoopInvAt
    <3>2. IsFiniteSet(u.rest) /\ Cardinality(u.rest) \in Nat
          /\ Cardinality(u.rest) <= Cardinality(s.rest) /\ Cardinality(u.rest) # Cardinality(s.rest)
      <4>1. u.rest \in SUBSET s.rest /\ u.rest # s.rest
          BY <1>3, <2>1
      <4>2. QED
          BY <3>1, <4>1, FS_Subset, FS_CardinalityType
    <3>3. QED
        BY <1>1, <3>1, <3>2
  <2>5. \A id \in IDs(ts) : id \notin u.rest <=> \E j \in 1..(n + 1) : id \in u.levels[j]
    <3>1. \A id \in IDs(ts) : id \notin s.rest <=> \E j \in 1..n : id \in s.levels[j]
        BY DEF LoopInv, LoopInvAt
    <3>2. ASSUME NEW id \in IDs(ts), id \notin u.rest PROVE \E j \in 1..(n + 1) : id \in u.levels[j]
      <4>1. CASE id \in L
          BY <1>1, <2>2, <4>1
      <4>2. CASE id \notin L
        <5>1. PICK j \in 1..n : id \in s.levels[j]
            BY <2>1, <3>1, <3>2, <4>2
        <5>2. j \in 1..(n + 1) /\ id \in u.levels[j]
            BY <1>1, <2>2, <5>1
        <5>3. QED
            BY <5>2
      <4>3. QED
          BY <4>1, <4>2
    <3>3. ASSUME NEW id \in IDs(ts), NEW j \in 1..(n + 1), id \in u.levels[j] PROVE id \notin u.rest
      <4>1. CASE j = n + 1
          BY <2>1, <2>2, <3>3, <4>1
      <4>2. CASE j # n + 1
        <5>1. j \in 1..n /\ id \in s.levels[j]
            BY <1>1, <2>2, <3>3, <4>2
        <5>2. QED
            BY <2>1, <3>1, <5>1
      <4>3. QED
          BY <4>1, <4>2
    <3>4. QED
        BY <3>2, <3>3
  <2>6. \A j \in 1..n : s.levels[j] \cap s.rest = {}
      BY <1>1 DEF LoopInv, LoopInvAt
  <2>7. \A j, k \in 1..(n + 1) : j # k => u.levels[j] \cap u.levels[k] = {}
    <3> SUFFICES ASSUME NEW j \in 1..(n + 1), NEW k \in 1..(n + 1), j # k
                 PROVE  u.levels[j] \cap u.levels[k] = {}
        OBVIOUS
    <3>1. CASE j \in 1..n /\ k \in 1..n
        BY <2>2, <3>1 DEF LoopInv, LoopInvAt
    <3>2. CASE j = n + 1 /\ k \in 1..n
        BY <2>1, <2>2, <2>6, <3>2
    <3>3. CASE k = n + 1 /\ j \in 1..n
        BY <2>1, <2>2, <2>6, <3>3
    <3>4. QED
        BY <1>1, <3>1, <3>2, <3>3
  <2>8. \A j \in 1..(n + 1), t \in ToSet(ts) : t.id \in u.levels[j] =>
            \A d \in t.deps \cap IDs(ts) : \E k \in 1..(j - 1) : d \in u.levels[k]
    <3> SUFFICES ASSUME NEW j \in 1..(n + 1), NEW t \in ToSet(ts), t.id \in u.levels[j],
                        NEW d \in t.deps \cap IDs(ts)
                 PROVE  \E k \in 1..(j - 1) : d \in u.levels[k]
        OBVIOUS
    <3>1. CASE j = n + 1
      <4>1. d \notin s.rest
          BY <2>1, <2>2, <3>1 DEF Released
      <4>2. PICK k \in 1..n : d \in s.levels[k]
          BY <4>1 DEF LoopInv, LoopInvAt
      <4>3. k \in 1..(j - 1) /\ d \in u.levels[k]
          BY <1>1, <2>2, <3>1, <4>2
      <4>4. QED
          BY <4>3
    <3>2. CASE j # n + 1
      <4>1. j \in 1..n /\ t.id \in s.levels[j]
          BY <1>1, <2>2, <3>2
      <4>2. PICK k \in 1..(j - 1) : d \in s.levels[k]
          BY <4>1 DEF LoopInv, LoopInvAt
      <4>3. d \in u.levels[k]
          BY <1>1, <2>2, <4>1, <4>2
      <4>4. QED
          BY <4>2, <4>3
    <3>3. QED
        BY <3>1, <3>2
  <2>9. \A j \in 2..(n + 1), id \in IDs(ts) : id \in u.levels[j] =>
            \E t \in ToSet(ts) : t.id = id /\ t.deps \cap u.levels[j - 1] # {}
    <3> SUFFICES ASSUME NEW j \in 2..(n + 1), NEW id \in IDs(ts), id \in u.levels[j]
                 PROVE  \E t \in ToSet(ts) : t.id = id /\ t.deps \cap u.levels[j - 1] # {}
        OBVIOUS
    <3>1. CASE j = n + 1
      <4>1. n > 0 /\ id \in L /\ id \in s.rest /\ u.levels[j - 1] = s.levels[n]
          BY <1>1, <2>1, <2>2, <3>1
      <4>2. PICK t \in ToSet(ts) : t.id = id /\ t.deps \cap (s.rest \cup s.levels[n]) # {}
          BY <4>1 DEF LoopInv, LoopInvAt
      <4>3. t.deps \cap s.rest = {}
          BY <4>1, <4>2 DEF Released
      <4>4. QED
          BY <4>1, <4>2, <4>3
    <3>2. CASE j # n + 1
      <4>1. j \in 2..n /\ id \in s.levels[j] /\ u.levels[j - 1] = s.levels[j - 1]
          BY <1>1, <2>2, <3>2
      <4>2. QED
          BY <4>1 DEF LoopInv, LoopInvAt
    <3>3. QED
        BY <3>1, <3>2
  <2>10. \A id \in u.rest : \E t \in ToSet(ts) :
             t.id = id /\ t.deps \cap (u.rest \cup u.levels[n + 1]) # {}
    <3>1. u.rest \cup u.levels[n + 1] = s.rest
        BY <2>1, <2>2
    <3>2. QED
        BY <2>1, <3>1 DEF Released
  <2>11. LoopInv(ts, i + 1, u)
    <3> HIDE DEF n, L
    <3>1. /\ Len(u.levels) = n + 1 /\ n + 1 = i + 1 /\ n + 1 <= i + 1 /\ n + 1 > 0
          /\ u \in LoopState(ts)
        BY <1>1, <2>1, <2>2, <2>3
    <3>2. LoopInvAt(ts, i + 1, u, n + 1)
        BY <2>4, <2>5, <2>7, <2>8, <2>9, <2>10, <3>1 DEF LoopInvAt
    <3>3. QED
        BY <3>1, <3>2 DEF LoopInv
  <2>12. QED
      BY <2>11 DEF u
<1>4. QED
    BY <1>2, <1>3

\* TopologicalLevels returns the levels of a state that the loop has reached
\* after as many rounds as there are tasks.
LEMMA LoopEnds ==
    ASSUME NEW X, NEW ts \in TaskLists(X)
    PROVE  \E s : LoopInv(ts, Len(ts), s) /\ TopologicalLevels(ts) = s.levels
<1> DEFINE n == Len(ts)
           s0 == [rest |-> IDs(ts), levels |-> <<>>]
           F == [i \in 1..n |-> [s \in LoopState(ts) |-> NextLevel(ts, s)]]
           Rounds(g) == g = [i \in 0..n |-> IF i = 0 THEN s0 ELSE NextLevel(ts, g[i - 1])]
           round == CHOOSE g : Rounds(g)
<1>1. n \in Nat
    BY DEF TaskLists
<1>2. s0 \in LoopState(ts)
    BY LoopStarts DEF LoopInv, LoopInvAt
<1>3. F \in [1..n -> [LoopState(ts) -> LoopState(ts)]]
    BY RoundType
<1>4. \E g : Rounds(g)
  <2> HIDE DEF F, s0, n
  <2>1. PICK g \in [0..n -> LoopState(ts)] : g[0] = s0 /\ \A i \in 1..n : g[i] = F[i][g[i - 1]]
    <3>1. \E g : AreRounds(g, n, LoopState(ts), F, s0)
        BY <1>1, <1>2, <1>3, RoundsExist, Zenon
    <3>2. QED
        BY <3>1 DEF AreRounds
  <2>2. \A i \in 1..n : g[i] = NextLevel(ts, g[i - 1])
    <3> SUFFICES ASSUME NEW i \in 1..n PROVE g[i] = NextLevel(ts, g[i - 1])
        OBVIOUS
    <3>1. i - 1 \in 0..n
        BY <1>1
    <3>2. g[i - 1] \in LoopState(ts)
        BY <2>1, <3>1
    <3>3. F[i][g[i - 1]] = NextLevel(ts, g[i - 1])
        BY <3>2 DEF F
    <3>4. QED
        BY <2>1, <3>3
  <2>3. Rounds(g)
      BY <1>1, <2>1, <2>2
  <2>4. QED
      BY <2>3
<1>5. Rounds(round)
    BY <1>4
<1>6. TopologicalLevels(ts) = round[n].levels
    BY DEF TopologicalLevels
<1> HIDE DEF round
<1>7. round[0] = s0 /\ \A i \in 1..n : round[i] = NextLevel(ts, round[i - 1])
    BY <1>1, <1>5
<1> DEFINE T == {k \in Nat : k <= n /\ ~LoopInv(ts, k, round[k])}
<1>8. T = {}
  <2> SUFFICES ASSUME T # {} PROVE FALSE
      OBVIOUS
  <2>1. PICK k \in T : \A j \in T : k <= j
      BY LeastNat
  <2>2. k \in Nat /\ k <= n /\ ~LoopInv(ts, k, round[k])
      BY <2>1
  <2>3. k # 0
      BY <1>7, <2>2, LoopStarts
  <2>4. k - 1 \in Nat /\ k - 1 <= n /\ ~(k <= k - 1) /\ k \in 1..n /\ (k - 1) + 1 = k
      BY <1>1, <2>2, <2>3
  <2>5. k - 1 \notin T
      BY <2>1, <2>4
  <2>6. LoopInv(ts, k - 1, round[k - 1])
      BY <2>4, <2>5
  <2>7. LoopInv(ts, (k - 1) + 1, NextLevel(ts, round[k - 1]))
      BY <2>4, <2>6, LoopContinues
  <2>8. QED
      BY <1>7, <2>2, <2>4, <2>7
<1>9. LoopInv(ts, n, round[n])
    BY <1>1, <1>8
<1>10. QED
    BY <1>6, <1>9

\* topologicalLevels, for every list of tasks: duplicates, unknown dependencies
\* and cycles included.  The levels are disjoint and in the order of the
\* dependencies, each task is on the first level it can be on, and only tasks
\* that depend on a missing one, and so in the end on a cycle, are missing.
THEOREM LevelsAreOrdered ==
    ASSUME NEW X, NEW ts \in TaskLists(X)
    PROVE  LevelsOrdered(ts)
<1>1. PICK s : LoopInv(ts, Len(ts), s) /\ TopologicalLevels(ts) = s.levels
    BY LoopEnds
<1> DEFINE n == Len(s.levels)
           On == UNION {s.levels[i] : i \in 1..n}
<1>2. n \in Nat /\ Len(ts) \in Nat /\ s.levels \in Seq(SUBSET IDs(ts)) /\ s.rest \in SUBSET IDs(ts)
    BY <1>1 DEF LoopInv, LoopInvAt, LoopState, TaskLists
<1>3. Released(ts, s.rest) = {}
  <2>1. CASE n = Len(ts)
    <3>1. Cardinality(s.rest) + n <= Cardinality(IDs(ts)) /\ Cardinality(IDs(ts)) <= n
          /\ Cardinality(IDs(ts)) \in Nat /\ IsFiniteSet(s.rest) /\ Cardinality(s.rest) \in Nat
        BY <1>1, <1>2, <2>1, IDsFinite, FS_Subset, FS_CardinalityType DEF LoopInv, LoopInvAt
    <3>2. Cardinality(s.rest) = 0
        BY <1>2, <3>1
    <3>3. s.rest = {}
        BY <3>1, <3>2, FS_EmptySet
    <3>4. QED
        BY <3>3 DEF Released
  <2>2. QED
      BY <1>1, <2>1 DEF LoopInv, LoopInvAt
<1>4. On \subseteq IDs(ts) /\ IDs(ts) \ On = s.rest
    BY <1>1, <1>2 DEF LoopInv, LoopInvAt
<1>5. \A id \in s.rest : \E t \in ToSet(ts) : t.id = id /\ t.deps \cap s.rest # {}
    BY <1>3 DEF Released
<1>6. QED
    BY <1>1, <1>4, <1>5 DEF LoopInv, LoopInvAt, LevelsOrdered

\* What task j of the pipeline's list depends on: a task of the
\* chain on what is before it, a service on the last module, and the
\* configuration, which is task k, on what is before it.
ScheduleDeps(modules, k, j) ==
    IF j = 0 \/ j > k THEN {}
    ELSE IF j <= modules + 1 \/ j = k THEN {j - 1}
    ELSE {modules + 1}

\* The elements of a concatenation, as the provers can use them.
IsConcat(c, a, b, m, n, S) ==
    /\ c \in Seq(S) /\ Len(c) = m + n
    /\ \A i \in 1..m : c[i] = a[i]
    /\ \A i \in 1..n : c[m + i] = b[i]

\* Every concatenation of two sequences has them.
LEMMA ConcatFacts ==
    ASSUME NEW S, NEW a \in Seq(S), NEW b \in Seq(S), NEW m, NEW n, Len(a) = m, Len(b) = n
    PROVE  IsConcat(a \o b, a, b, m, n, S)
    BY DEF IsConcat

\* The list that Schedule returns holds the tasks 0 to k + 1 in this order,
\* where k is the configuration.
LEMMA ScheduleShape ==
    ASSUME NEW modules \in Nat, NEW services \in Nat, modules + services > 0
    PROVE  LET ts == Schedule(modules, services)  k == Len(ts) - 2 IN
           /\ ts \in TaskLists(Nat)
           /\ k \in Nat /\ k > modules + 1 /\ DOMAIN ts = 1..(k + 2)
           /\ \A j \in 0..(k + 1) :
                  ts[j + 1].id = j /\ ts[j + 1].deps = ScheduleDeps(modules, k, j)
<1> DEFINE TaskSet == [id : Nat, deps : SUBSET Nat]
           head == <<TaskOf(0, {}), TaskOf(1, {0})>>
           mods == [i \in 1..modules |-> TaskOf(i + 1, {i})]
           chain == ChainTasks(modules)
           h == IF modules = 0 THEN 0 ELSE services
           hung == ServiceTasks(modules, services)
           parts == chain \o hung
           k == modules + 2 + h
           last == <<TaskOf(k, {k - 1}), TaskOf(k + 1, {})>>
           ts == Schedule(modules, services)
<1>1. h \in Nat /\ k \in Nat /\ k > modules + 1 /\ k = (modules + 2) + h
    OBVIOUS
<1>2. head \in Seq(TaskSet) /\ Len(head) = 2
      /\ head[1] = TaskOf(0, {}) /\ head[2] = TaskOf(1, {0})
    BY DEF TaskOf
<1>3. mods \in Seq(TaskSet) /\ Len(mods) = modules
      /\ \A i \in 1..modules : mods[i] = TaskOf(i + 1, {i})
    BY DEF TaskOf
<1>4. hung \in Seq(TaskSet) /\ Len(hung) = h
      /\ \A i \in 1..h : hung[i] = TaskOf(modules + 1 + i, {modules + 1})
  <2>1. hung = [i \in 1..h |-> TaskOf(modules + 1 + i, {modules + 1})]
      BY DEF ServiceTasks
  <2> HIDE DEF h, hung
  <2>2. QED
      BY <1>1, <2>1 DEF TaskOf
<1> HIDE DEF h, hung, head, mods, TaskSet
<1>5. chain \in Seq(TaskSet) /\ Len(chain) = modules + 2
      /\ (\A i \in 1..2 : chain[i] = head[i])
      /\ \A i \in 1..modules : chain[2 + i] = mods[i]
  <2>1. chain = head \o mods
      BY DEF ChainTasks, head, mods
  <2>2. IsConcat(chain, head, mods, 2, modules, TaskSet)
    <3> HIDE DEF chain
    <3>1. QED
        BY <1>2, <1>3, <2>1, ConcatFacts, Zenon
  <2> HIDE DEF chain
  <2>3. QED
      BY <2>2 DEF IsConcat
<1> HIDE DEF chain
<1>6. parts \in Seq(TaskSet) /\ Len(parts) = k
      /\ (\A i \in 1..(modules + 2) : parts[i] = chain[i])
      /\ \A i \in 1..h : parts[(modules + 2) + i] = hung[i]
  <2>1. IsConcat(parts, chain, hung, modules + 2, h, TaskSet)
      BY <1>4, <1>5, ConcatFacts, Zenon
  <2> HIDE DEF parts, k
  <2>2. QED
      BY <1>1, <2>1 DEF IsConcat
<1> HIDE DEF k
<1>7. \A i \in 1..k : parts[i].id = i - 1 /\ parts[i].deps = ScheduleDeps(modules, k, i - 1)
  <2> SUFFICES ASSUME NEW i \in 1..k
               PROVE  parts[i].id = i - 1 /\ parts[i].deps = ScheduleDeps(modules, k, i - 1)
      OBVIOUS
  <2> HIDE DEF parts
  <2>1. CASE i = 1
    <3>1. parts[i] = TaskOf(0, {})
        BY <1>2, <1>5, <1>6, <2>1
    <3>2. QED
        BY <1>1, <2>1, <3>1 DEF ScheduleDeps, TaskOf
  <2>2. CASE i = 2
    <3>1. parts[i] = TaskOf(1, {0})
        BY <1>2, <1>5, <1>6, <2>2
    <3>2. QED
        BY <1>1, <2>2, <3>1 DEF ScheduleDeps, TaskOf
  <2>3. CASE i > 2 /\ i <= modules + 2
    <3>1. i - 2 \in 1..modules /\ 2 + (i - 2) = i /\ (i - 2) + 1 = i - 1
          /\ i \in 1..(modules + 2)
        BY <1>1, <2>3
    <3>2. parts[i] = TaskOf(i - 1, {i - 2})
      <4>1. parts[i] = chain[i]
          BY <1>6, <3>1
      <4>2. chain[2 + (i - 2)] = mods[i - 2]
          BY <1>5, <3>1
      <4>3. mods[i - 2] = TaskOf((i - 2) + 1, {i - 2})
          BY <1>3, <3>1
      <4>4. QED
          BY <3>1, <4>1, <4>2, <4>3
    <3>3. QED
        BY <1>1, <2>3, <3>2 DEF ScheduleDeps, TaskOf
  <2>4. CASE i > modules + 2
    <3>1. i - (modules + 2) \in 1..h /\ (modules + 2) + (i - (modules + 2)) = i
          /\ modules + 1 + (i - (modules + 2)) = i - 1
        BY <1>1, <2>4
    <3>2. parts[i] = TaskOf(i - 1, {modules + 1})
        BY <1>4, <1>6, <3>1
    <3>3. i - 1 # 0 /\ ~(i - 1 > k) /\ ~(i - 1 <= modules + 1 \/ i - 1 = k)
        BY <1>1, <2>4
    <3>4. QED
        BY <3>2, <3>3 DEF ScheduleDeps, TaskOf
  <2>5. QED
      BY <1>1, <2>1, <2>2, <2>3, <2>4
<1>8. last \in Seq(TaskSet) /\ Len(last) = 2
      /\ last[1] = TaskOf(k, {k - 1}) /\ last[2] = TaskOf(k + 1, {})
    BY <1>1 DEF TaskOf, TaskSet
<1>9. ts = parts \o last
    BY <1>6 DEF Schedule, chain, hung
<1> HIDE DEF parts, last, ts
<1>10. ts \in Seq(TaskSet) /\ Len(ts) = k + 2
       /\ (\A i \in 1..k : ts[i] = parts[i])
       /\ ts[k + 1] = TaskOf(k, {k - 1}) /\ ts[k + 2] = TaskOf(k + 1, {})
  <2>1. IsConcat(ts, parts, last, k, 2, TaskSet)
      BY <1>6, <1>8, <1>9, ConcatFacts, Zenon
  <2>2. QED
      BY <1>1, <1>8, <2>1 DEF IsConcat
<1>11. ASSUME NEW j \in 0..(k + 1)
       PROVE  ts[j + 1].id = j /\ ts[j + 1].deps = ScheduleDeps(modules, k, j)
  <2>1. CASE j = k + 1
    <3>1. ts[j + 1] = TaskOf(j, {}) /\ j > k
        BY <1>1, <1>10, <2>1
    <3>2. QED
        BY <3>1 DEF ScheduleDeps, TaskOf
  <2>2. CASE j = k
    <3>1. ts[j + 1] = TaskOf(j, {j - 1}) /\ j # 0 /\ ~(j > k)
        BY <1>1, <1>10, <2>2
    <3>2. QED
        BY <2>2, <3>1 DEF ScheduleDeps, TaskOf
  <2>3. CASE j < k
    <3>1. j + 1 \in 1..k /\ (j + 1) - 1 = j
        BY <1>1, <2>3
    <3>2. QED
        BY <1>7, <1>10, <3>1
  <2>4. QED
      BY <1>1, <2>1, <2>2, <2>3
<1>12. ts \in TaskLists(Nat) /\ DOMAIN ts = 1..(k + 2) /\ Len(ts) - 2 = k
    BY <1>1, <1>10 DEF TaskLists, TaskSet
<1>13. QED
    BY <1>1, <1>11, <1>12 DEF ts

\* The pipeline's own list, for every number of modules and services: no task
\* is dropped, and the configuration is on a later level than every module and
\* every service, although it depends on the last of them only.  The services
\* all hang on the last module, so that they share a level; without this, one
\* on a later level than the last service would be generated with or after the
\* configuration.
THEOREM ConfigurationIsLast ==
    ASSUME NEW modules \in Nat, NEW services \in Nat
    PROVE  ConfigurationLast(modules, services)
<1> DEFINE ts == Schedule(modules, services)
           levels == TopologicalLevels(ts)
           n == Len(levels)
           k == Len(ts) - 2
           Deps(j) == ScheduleDeps(modules, k, j)
<1> SUFFICES ASSUME modules + services > 0
             PROVE  \E i \in 1..n :
                        /\ k \in levels[i]
                        /\ \A id \in 0..(k - 1) : \E j \in 1..(i - 1) : id \in levels[j]
    BY DEF ConfigurationLast
<1>1. /\ ts \in TaskLists(Nat)
      /\ k \in Nat /\ k > modules + 1 /\ DOMAIN ts = 1..(k + 2)
      /\ \A j \in 0..(k + 1) : ts[j + 1].id = j /\ ts[j + 1].deps = Deps(j)
    BY ScheduleShape
<1>2. LevelsOrdered(ts)
    BY <1>1, LevelsAreOrdered
<1>3. levels \in Seq(SUBSET IDs(ts)) /\ n \in Nat
  <2>1. PICK s : LoopInv(ts, Len(ts), s) /\ TopologicalLevels(ts) = s.levels
      BY <1>1, LoopEnds
  <2>2. QED
      BY <2>1 DEF LoopInv, LoopInvAt, LoopState
<1> HIDE DEF ts, levels, n, k
\* The tasks, without their list.
<1>4. IDs(ts) = 0..(k + 1) /\ \A t \in ToSet(ts) : t.id \in 0..(k + 1) /\ t.deps = Deps(t.id)
  <2>1. ASSUME NEW t \in ToSet(ts) PROVE t.id \in 0..(k + 1) /\ t.deps = Deps(t.id)
    <3>1. PICK i \in 1..(k + 2) : t = ts[i]
        BY <1>1, <2>1 DEF ToSet
    <3>2. i - 1 \in 0..(k + 1) /\ (i - 1) + 1 = i
        BY <1>1
    <3>3. ts[i].id = i - 1 /\ ts[i].deps = Deps(i - 1)
        BY <1>1, <3>2
    <3>4. QED
        BY <3>1, <3>2, <3>3
  <2>2. ASSUME NEW j \in 0..(k + 1) PROVE j \in IDs(ts)
    <3>1. j + 1 \in 1..(k + 2) /\ ts[j + 1].id = j
        BY <1>1
    <3>2. ts[j + 1] \in ToSet(ts)
        BY <1>1, <3>1 DEF ToSet
    <3>3. QED
        BY <3>1, <3>2 DEF IDs
  <2>3. QED
      BY <2>1, <2>2 DEF IDs
<1>5. \A j \in 0..(k + 1) : \E t \in ToSet(ts) : t.id = j
    BY <1>4 DEF IDs
<1> DEFINE On == UNION {levels[i] : i \in 1..n}
<1>6. /\ \A i \in 1..n, t \in ToSet(ts) : t.id \in levels[i] =>
             \A d \in t.deps \cap IDs(ts) : \E j \in 1..(i - 1) : d \in levels[j]
      /\ \A i, j \in 1..n : i # j => levels[i] \cap levels[j] = {}
      /\ \A i \in 2..n, id \in IDs(ts) : id \in levels[i] =>
             \E t \in ToSet(ts) : t.id = id /\ t.deps \cap levels[i - 1] # {}
      /\ \A id \in IDs(ts) \ On : \E t \in ToSet(ts) :
             t.id = id /\ t.deps \cap (IDs(ts) \ On) # {}
    BY <1>2 DEF LevelsOrdered, levels, n
\* Dependencies have smaller numbers, so that the first missing task, if there
\* is one, depends on a missing task before it.
<1>7. \A j \in 0..(k + 1) : \A d \in Deps(j) : d \in 0..(k + 1) /\ d < j
    BY <1>1 DEF ScheduleDeps
<1>8. \A j \in 0..(k + 1) : \E i \in 1..n : j \in levels[i]
  <2> DEFINE Missing == IDs(ts) \ On
  <2> SUFFICES ASSUME Missing # {} PROVE FALSE
      BY <1>4
  <2>1. Missing \in SUBSET Nat
      BY <1>4
  <2>2. PICK m \in Missing : \A j \in Missing : m <= j
      BY <2>1, LeastNat
  <2>3. PICK t \in ToSet(ts) : t.id = m /\ t.deps \cap Missing # {}
      BY <1>6, <2>2
  <2>4. PICK d \in Missing : d \in Deps(m)
      BY <1>4, <2>3
  <2>5. QED
      BY <1>4, <1>7, <2>2, <2>4
<1> HIDE DEF Deps
<1> DEFINE lv == [j \in 0..(k + 1) |-> CHOOSE i \in 1..n : j \in levels[i]]
<1>9. \A j \in 0..(k + 1) : lv[j] \in 1..n /\ j \in levels[lv[j]]
    BY <1>8
<1> HIDE DEF lv
<1>10. \A j \in 0..(k + 1), i \in 1..n : j \in levels[i] => lv[j] = i
    BY <1>6, <1>9
\* What depends on one task is on the level right after it.
<1>11. ASSUME NEW j \in 0..(k + 1), NEW d \in 0..(k + 1), Deps(j) = {d}
       PROVE  lv[j] = lv[d] + 1
  <2>1. PICK t \in ToSet(ts) : t.id = j
      BY <1>5
  <2>2. t.deps = {d} /\ d \in IDs(ts) /\ j \in IDs(ts) /\ t.id \in levels[lv[j]]
      BY <1>4, <1>9, <1>11, <2>1
  <2>3. PICK i \in 1..(lv[j] - 1) : d \in levels[i]
      BY <1>6, <1>9, <2>2
  <2>4. lv[j] \in 1..n /\ i \in 1..n /\ lv[j] \in 2..n /\ lv[j] - 1 \in 1..n
      BY <1>3, <1>9, <2>3
  <2>5. PICK u \in ToSet(ts) : u.id = j /\ u.deps \cap levels[lv[j] - 1] # {}
      BY <1>6, <1>9, <2>2, <2>4
  <2>6. d \in levels[lv[j] - 1]
      BY <1>4, <1>11, <2>5
  <2>7. lv[d] = lv[j] - 1
      BY <1>10, <2>4, <2>6
  <2>8. QED
      BY <2>4, <2>7
<1>12. \A j \in 0..(k + 1) : lv[j] \in Int
    BY <1>3, <1>9
\* The chain climbs one level with each task.
<1>13. \A j \in 0..(modules + 1) : lv[j] = lv[0] + j
  <2> DEFINE T == {j \in Nat : j <= modules + 1 /\ lv[j] # lv[0] + j}
  <2> SUFFICES ASSUME T # {} PROVE FALSE
      OBVIOUS
  <2>1. PICK j \in T : \A i \in T : j <= i
      BY LeastNat
  <2>2. j \in Nat /\ j <= modules + 1 /\ lv[j] # lv[0] + j /\ j # 0 /\ lv[0] \in Int
      BY <1>1, <1>12, <2>1
  <2>3. j - 1 \in Nat /\ j - 1 <= modules + 1 /\ ~(j <= j - 1)
        /\ j \in 0..(k + 1) /\ j - 1 \in 0..(k + 1) /\ j <= k
      BY <1>1, <2>2
  <2>4. lv[j - 1] = lv[0] + (j - 1)
      BY <2>1, <2>3
  <2>5. Deps(j) = {j - 1}
      BY <1>1, <2>2, <2>3 DEF Deps, ScheduleDeps
  <2>6. lv[j] = lv[j - 1] + 1
      BY <1>11, <2>3, <2>5
  <2>7. QED
      BY <2>2, <2>4, <2>6
<1>14. modules + 1 \in 0..(k + 1) /\ k \in 0..(k + 1) /\ k - 1 \in 0..(k + 1) /\ 0 \in 0..(k + 1)
    BY <1>1
\* The services share the level after the last module.
<1>15. \A j \in (modules + 2)..(k - 1) : lv[j] = lv[modules + 1] + 1
  <2> SUFFICES ASSUME NEW j \in (modules + 2)..(k - 1)
               PROVE  lv[j] = lv[modules + 1] + 1
      OBVIOUS
  <2>1. j \in 0..(k + 1) /\ j # 0 /\ ~(j > k) /\ ~(j <= modules + 1 \/ j = k)
      BY <1>1
  <2>2. Deps(j) = {modules + 1}
      BY <2>1 DEF Deps, ScheduleDeps
  <2>3. QED
      BY <1>11, <1>14, <2>1, <2>2
<1>16. lv[k] = lv[k - 1] + 1
  <2>1. Deps(k) = {k - 1}
      BY <1>1 DEF Deps, ScheduleDeps
  <2>2. QED
      BY <1>11, <1>14, <2>1
<1>17. \A id \in 0..(k - 1) : id \in 0..(k + 1) /\ lv[id] <= lv[k - 1]
  <2> SUFFICES ASSUME NEW id \in 0..(k - 1) PROVE id \in 0..(k + 1) /\ lv[id] <= lv[k - 1]
      OBVIOUS
  <2>1. id \in 0..(k + 1) /\ lv[id] \in Int /\ lv[k - 1] \in Int /\ lv[0] \in Int
        /\ lv[modules + 1] \in Int /\ modules + 1 \in 0..(modules + 1)
      BY <1>1, <1>12, <1>14
  <2>2. lv[modules + 1] = lv[0] + (modules + 1)
      BY <1>13, <2>1
  <2>3. CASE id <= modules + 1
    <3>1. lv[id] = lv[0] + id
        BY <1>13, <2>3
    <3>2. CASE k - 1 = modules + 1
        BY <2>1, <2>2, <2>3, <3>1, <3>2
    <3>3. CASE k - 1 # modules + 1
      <4>1. k - 1 \in (modules + 2)..(k - 1)
          BY <1>1, <3>3
      <4>2. lv[k - 1] = lv[modules + 1] + 1
          BY <1>15, <4>1
      <4>3. QED
          BY <2>1, <2>2, <2>3, <3>1, <4>2
    <3>4. QED
        BY <3>2, <3>3
  <2>4. CASE id > modules + 1
    <3>1. id \in (modules + 2)..(k - 1) /\ k - 1 \in (modules + 2)..(k - 1)
        BY <1>1, <2>4
    <3>2. lv[id] = lv[k - 1]
        BY <1>15, <3>1
    <3>3. QED
        BY <2>1, <3>2
  <2>5. QED
      BY <2>3, <2>4
<1>18. ASSUME NEW id \in 0..(k - 1) PROVE \E j \in 1..(lv[k] - 1) : id \in levels[j]
  <2>1. lv[id] \in 1..n /\ id \in levels[lv[id]] /\ lv[id] <= lv[k - 1]
      BY <1>9, <1>17
  <2>2. lv[id] \in 1..(lv[k] - 1)
      BY <1>3, <1>12, <1>14, <1>16, <2>1
  <2>3. QED
      BY <2>1, <2>2
<1>19. QED
    BY <1>9, <1>14, <1>18

\* What the queue holds: nodes, and who discovered them.
Queues(ns) == Seq([node : ns, parent : ns \cup {NoNode}])

\* What a queue of the search holds.
LEMMA QueueType ==
    ASSUME NEW ns, NEW s \in Queues(ns)
    PROVE  /\ Len(s) \in Nat /\ DOMAIN s = 1..Len(s)
           /\ \A a \in 1..Len(s) : s[a].node \in ns /\ s[a].parent \in ns \cup {NoNode}
<1> DEFINE Entry == [node : ns, parent : ns \cup {NoNode}]
<1>1. \A x \in Entry : x.node \in ns /\ x.parent \in ns \cup {NoNode}
    OBVIOUS
<1>2. s \in Seq(Entry)
    BY DEF Queues
<1> HIDE DEF Entry
<1>3. Len(s) \in Nat /\ DOMAIN s = 1..Len(s) /\ \A a \in 1..Len(s) : s[a] \in Entry
    BY <1>2
<1>4. QED
    BY <1>1, <1>3

\* A graph: finitely many nodes, and edges between them.
IsGraph(ns, es) ==
    /\ IsFiniteSet(ns) /\ Len(es) \in Nat /\ DOMAIN es = 1..Len(es)
    /\ \A q \in 1..Len(es) : es[q].from \in ns /\ es[q].to \in ns

\* The invariant of the search, with the distance D of each place of the queue,
\* while it has done all edges for the places before h and m edges for place h.
\* The distances grow along the queue, and from h on by one at most: that
\* is why what is already there when an edge leads to it is not too far.
SearchInvAt(ns, es, start, s, D, h, m, n) ==
    /\ s \in Queues(ns) /\ n >= 1 /\ s[1].node = start
    /\ D \in [1..n -> Nat] /\ D[1] = 0 /\ \A b \in 1..n : D[b] < b
    /\ \A a, b \in 1..n : a <= b => D[a] <= D[b]
    /\ h <= n => D[n] <= D[h] + 1
    /\ \A a, b \in 1..n : a # b => s[a].node # s[b].node
    /\ \A b \in 2..n : \E c \in 1..(b - 1) :
           /\ s[c].node = s[b].parent /\ D[b] = D[c] + 1
           /\ \E q \in 1..Len(es) : es[q].from = s[b].parent /\ es[q].to = s[b].node
    /\ \A a \in 1..n, q \in 1..Len(es) :
           es[q].from = s[a].node /\ (a < h \/ (a = h /\ q <= m)) =>
               \E b \in 1..n : s[b].node = es[q].to /\ D[b] <= D[a] + 1

SearchInv(ns, es, start, s, D, h, m) == SearchInvAt(ns, es, start, s, D, h, m, Len(s))

\* One more edge for the place h.
LEMMA ScanStep ==
    ASSUME NEW ns, NEW es, IsGraph(ns, es), NEW start, NEW s, NEW D, NEW h \in Nat \ {0},
           NEW m \in Nat, m < Len(es), h <= Len(s), SearchInv(ns, es, start, s, D, h, m)
    PROVE  LET t == Discover(s, s[h].node, es[m + 1]) IN
           /\ \E E : SearchInv(ns, es, start, t, E, h, m + 1)
           /\ h <= Len(t) /\ t[h].node = s[h].node
<1> DEFINE n == Len(s)
           c == s[h].node
           e == es[m + 1]
           t == Discover(s, c, e)
<1>1. /\ s \in Queues(ns) /\ n \in Nat /\ n >= 1 /\ h \in 1..n
      /\ \A a \in 1..n : s[a].node \in ns /\ s[a].parent \in ns \cup {NoNode}
  <2>1. s \in Queues(ns) /\ n >= 1
      BY DEF SearchInv, SearchInvAt
  <2>2. QED
      BY <2>1, QueueType
<1>2. m + 1 \in 1..Len(es) /\ e.from \in ns /\ e.to \in ns /\ Len(es) \in Nat
    BY DEF IsGraph
<1>3. \A x : x \in Visited(s) <=> \E b \in 1..n : s[b].node = x
    BY <1>1 DEF Visited, ToSet, Queues
<1>4. D \in [1..n -> Nat] /\ D[n] <= D[h] + 1 /\ \A b \in 1..n : D[b] \in Nat /\ D[b] <= D[n]
  <2>1. D \in [1..n -> Nat] /\ D[n] <= D[h] + 1
        /\ \A a, b \in 1..n : a <= b => D[a] <= D[b]
      BY <1>1 DEF SearchInv, SearchInvAt
  <2>2. n \in 1..n /\ \A b \in 1..n : b <= n
      BY <1>1
  <2>3. QED
      BY <2>1, <2>2
<1>5. CASE ~(e.from = c /\ e.to \notin Visited(s))
  <2>1. t = s
      BY <1>5 DEF Discover
  <2>2. ASSUME NEW a \in 1..n, NEW q \in 1..Len(es), es[q].from = s[a].node,
               a < h \/ (a = h /\ q <= m + 1)
        PROVE  \E b \in 1..n : s[b].node = es[q].to /\ D[b] <= D[a] + 1
    <3>1. CASE a = h /\ q = m + 1
      <4>1. PICK b \in 1..n : s[b].node = e.to
          BY <1>3, <1>5, <2>2, <3>1
      <4>2. D[b] <= D[n] /\ D[n] <= D[h] + 1 /\ D[b] \in Nat /\ D[n] \in Nat /\ D[h] \in Nat
          BY <1>1, <1>4
      <4>3. D[b] <= D[h] + 1
          BY <4>2
      <4>4. QED
          BY <3>1, <4>1, <4>3
    <3>2. CASE ~(a = h /\ q = m + 1)
      <4>1. a < h \/ (a = h /\ q <= m)
          BY <1>2, <2>2, <3>2
      <4>2. QED
          BY <2>2, <4>1 DEF SearchInv, SearchInvAt
    <3>3. QED
        BY <3>1, <3>2
  <2>3. SearchInv(ns, es, start, s, D, h, m + 1)
      BY <2>2 DEF SearchInv, SearchInvAt
  <2>4. QED
      BY <1>1, <2>1, <2>3
<1>6. CASE e.from = c /\ e.to \notin Visited(s)
  <2> DEFINE E == [b \in 1..(n + 1) |-> IF b = n + 1 THEN D[h] + 1 ELSE D[b]]
  <2>1. t = Append(s, [node |-> e.to, parent |-> c])
      BY <1>6 DEF Discover
  <2>2. /\ t \in Queues(ns) /\ Len(t) = n + 1 /\ \A a \in 1..n : t[a] = s[a]
        /\ t[n + 1].node = e.to /\ t[n + 1].parent = c
    <3>1. [node |-> e.to, parent |-> c] \in [node : ns, parent : ns \cup {NoNode}]
        BY <1>1, <1>2
    <3>2. QED
        BY <1>1, <2>1, <3>1 DEF Queues
  <2>3. /\ E \in [1..(n + 1) -> Nat] /\ E[n + 1] = D[h] + 1 /\ \A a \in 1..n : E[a] = D[a]
      BY <1>1, <1>4
  <2> HIDE DEF E, t
  <2>4. \A a \in 1..n : s[a].node # e.to
      BY <1>3, <1>6
  <2>5. \A a \in 1..(n + 1) : a \in 1..n \/ a = n + 1
      BY <1>1
  <2>6. 1 \in 1..n /\ E[1] = 0 /\ t[1].node = start /\ E[h] = D[h]
      BY <1>1, <2>2, <2>3 DEF SearchInv, SearchInvAt
  <2>7. \A b \in 1..(n + 1) : E[b] < b
    <3>1. D[h] < h /\ h <= n /\ D[h] \in Nat
        BY <1>1, <1>4 DEF SearchInv, SearchInvAt
    <3>2. \A b \in 1..n : D[b] < b
        BY DEF SearchInv, SearchInvAt
    <3>3. QED
        BY <1>1, <2>3, <2>5, <3>1, <3>2
  <2>8. \A a, b \in 1..(n + 1) : a <= b => E[a] <= E[b]
    <3>1. \A a, b \in 1..n : a <= b => D[a] <= D[b]
        BY DEF SearchInv, SearchInvAt
    <3>2. \A a \in 1..n : D[a] <= D[h] + 1
        BY <1>1, <1>4
    <3>3. \A a \in 1..n : E[a] = D[a] /\ E[a] <= E[n + 1] /\ ~(n + 1 <= a)
        BY <1>1, <2>3, <3>2
    <3>4. E[n + 1] <= E[n + 1]
      <4>1. E[n + 1] \in Nat
          BY <1>1, <2>3
      <4>2. QED
          BY <4>1
    <3>5. QED
        BY <2>5, <3>1, <3>3, <3>4
  <2>9. E[n + 1] <= E[h] + 1
      BY <1>4, <1>1, <2>3, <2>6
  <2>10. \A a, b \in 1..(n + 1) : a # b => t[a].node # t[b].node
    <3>1. \A a, b \in 1..n : a # b => s[a].node # s[b].node
        BY DEF SearchInv, SearchInvAt
    <3>2. QED
        BY <2>2, <2>4, <2>5, <3>1
  <2>11. ASSUME NEW b \in 2..(n + 1)
         PROVE  \E k \in 1..(b - 1) :
                    /\ t[k].node = t[b].parent /\ E[b] = E[k] + 1
                    /\ \E q \in 1..Len(es) : es[q].from = t[b].parent /\ es[q].to = t[b].node
    <3>1. CASE b = n + 1
      <4>1. h \in 1..(b - 1) /\ t[h].node = t[b].parent /\ E[b] = E[h] + 1
            /\ es[m + 1].from = t[b].parent /\ es[m + 1].to = t[b].node
          BY <1>1, <1>6, <2>2, <2>3, <2>6, <3>1
      <4>2. QED
          BY <1>2, <4>1
    <3>2. CASE b # n + 1
      <4>1. b \in 2..n /\ b \in 1..n
          BY <1>1, <3>2
      <4>2. PICK k \in 1..(b - 1) :
                /\ s[k].node = s[b].parent /\ D[b] = D[k] + 1
                /\ \E q \in 1..Len(es) : es[q].from = s[b].parent /\ es[q].to = s[b].node
          BY <4>1 DEF SearchInv, SearchInvAt
      <4>3. k \in 1..n
          BY <1>1, <4>1
      <4>4. QED
          BY <2>2, <2>3, <4>1, <4>2, <4>3
    <3>3. QED
        BY <3>1, <3>2
  <2>12. ASSUME NEW a \in 1..(n + 1), NEW q \in 1..Len(es), es[q].from = t[a].node,
                a < h \/ (a = h /\ q <= m + 1)
         PROVE  \E b \in 1..(n + 1) : t[b].node = es[q].to /\ E[b] <= E[a] + 1
    <3>1. a \in 1..n /\ es[q].from = s[a].node /\ E[a] = D[a]
        BY <1>1, <2>2, <2>3, <2>5, <2>12
    <3>2. CASE a = h /\ q = m + 1
      <4>1. n + 1 \in 1..(n + 1) /\ t[n + 1].node = es[q].to /\ E[n + 1] <= E[a] + 1
          BY <1>1, <2>2, <2>9, <3>2
      <4>2. QED
          BY <4>1
    <3>3. CASE ~(a = h /\ q = m + 1)
      <4>1. a < h \/ (a = h /\ q <= m)
          BY <1>2, <2>12, <3>3
      <4>2. PICK b \in 1..n : s[b].node = es[q].to /\ D[b] <= D[a] + 1
          BY <3>1, <4>1 DEF SearchInv, SearchInvAt
      <4>3. b \in 1..(n + 1) /\ t[b].node = es[q].to /\ E[b] <= E[a] + 1
          BY <1>1, <2>2, <2>3, <3>1, <4>2
      <4>4. QED
          BY <4>3
    <3>4. QED
        BY <3>2, <3>3
  <2>13. SearchInv(ns, es, start, t, E, h, m + 1)
    <3> HIDE DEF n
    <3>1. n + 1 >= 1
        BY <1>1
    <3>2. SearchInvAt(ns, es, start, t, E, h, m + 1, n + 1)
        BY <2>2, <2>3, <2>6, <2>7, <2>8, <2>9, <2>10, <2>11, <2>12, <3>1 DEF SearchInvAt
    <3>3. QED
        BY <2>2, <3>2 DEF SearchInv
  <2>14. h <= Len(t) /\ t[h].node = c
      BY <1>1, <2>2
  <2>15. QED
      BY <2>13, <2>14 DEF t
<1>7. QED
    BY <1>5, <1>6

\* An edge leaves a queue a queue.
LEMMA DiscoverType ==
    ASSUME NEW ns, NEW es, IsGraph(ns, es), NEW s \in Queues(ns), NEW c \in ns,
           NEW q \in 1..Len(es)
    PROVE  Discover(s, c, es[q]) \in Queues(ns)
<1> DEFINE Entry == [node : ns, parent : ns \cup {NoNode}]
           x == [node |-> es[q].to, parent |-> c]
<1>1. es[q].to \in ns
    BY DEF IsGraph
<1>2. x \in Entry
    BY <1>1
<1>3. s \in Seq(Entry) /\ Discover(s, c, es[q]) \in {s, Append(s, x)}
    BY DEF Discover, Queues
<1> HIDE DEF Entry, x
<1>4. Append(s, x) \in Seq(Entry)
    BY <1>2, <1>3
<1>5. QED
    BY <1>3, <1>4 DEF Queues, Entry

\* The loop over the edges, as the sequence of its states.
LEMMA ExpandRounds ==
    ASSUME NEW ns, NEW es, IsGraph(ns, es), NEW s \in Queues(ns), NEW c \in ns
    PROVE  \E scan : /\ scan[0] = s
                     /\ \A j \in 1..Len(es) : scan[j] = Discover(scan[j - 1], c, es[j])
                     /\ \A j \in 0..Len(es) : scan[j] \in Queues(ns)
                     /\ Expand(es, s, c) = scan[Len(es)]
<1> DEFINE n == Len(es)
           F == [j \in 1..n |-> [t \in Queues(ns) |-> Discover(t, c, es[j])]]
           Rounds(g) == g = [j \in 0..n |-> IF j = 0 THEN s ELSE Discover(g[j - 1], c, es[j])]
           scan == CHOOSE g : Rounds(g)
<1>1. n \in Nat
    BY DEF IsGraph
<1>2. F \in [1..n -> [Queues(ns) -> Queues(ns)]]
    BY DiscoverType
<1>3. PICK g : /\ g \in [0..n -> Queues(ns)] /\ g[0] = s
               /\ \A j \in 1..n : g[j] = Discover(g[j - 1], c, es[j])
  <2> HIDE DEF F, n
  <2>1. PICK g : AreRounds(g, n, Queues(ns), F, s)
      BY <1>1, <1>2, RoundsExist, Zenon
  <2>2. g \in [0..n -> Queues(ns)] /\ g[0] = s /\ \A j \in 1..n : g[j] = F[j][g[j - 1]]
      BY <2>1 DEF AreRounds
  <2>3. ASSUME NEW j \in 1..n PROVE g[j] = Discover(g[j - 1], c, es[j])
    <3>1. j - 1 \in 0..n
        BY <1>1
    <3>2. g[j - 1] \in Queues(ns)
        BY <2>2, <3>1
    <3>3. F[j][g[j - 1]] = Discover(g[j - 1], c, es[j])
        BY <3>2 DEF F
    <3>4. QED
        BY <2>2, <3>3
  <2>4. QED
      BY <2>2, <2>3
<1>4. Rounds(g)
    BY <1>1, <1>3
<1>5. Rounds(scan)
    BY <1>4
<1>6. Expand(es, s, c) = scan[n]
    BY DEF Expand
<1> HIDE DEF scan, F
<1>7. scan[0] = s /\ \A j \in 1..n : scan[j] = Discover(scan[j - 1], c, es[j])
    BY <1>1, <1>5
<1> DEFINE T == {j \in Nat : j <= n /\ scan[j] \notin Queues(ns)}
<1>8. T = {}
  <2> SUFFICES ASSUME T # {} PROVE FALSE
      OBVIOUS
  <2>1. PICK j \in T : \A k \in T : j <= k
      BY LeastNat
  <2>2. j \in Nat /\ j <= n /\ scan[j] \notin Queues(ns) /\ j # 0
      BY <1>7, <2>1
  <2>3. j \in 1..n /\ j - 1 \in Nat /\ j - 1 <= n /\ ~(j <= j - 1)
      BY <1>1, <2>2
  <2>4. scan[j - 1] \in Queues(ns)
      BY <2>1, <2>3
  <2>5. QED
      BY <1>7, <2>2, <2>3, <2>4, DiscoverType
<1>9. \A j \in 0..n : scan[j] \in Queues(ns)
    BY <1>1, <1>8
<1>10. QED
    BY <1>6, <1>7, <1>9

\* All edges for the place h, and on to the next place.
LEMMA ExpandStep ==
    ASSUME NEW ns, NEW es, IsGraph(ns, es), NEW start, NEW s, NEW D, NEW h \in Nat \ {0},
           h <= Len(s), SearchInv(ns, es, start, s, D, h, 0)
    PROVE  \E E : SearchInv(ns, es, start, Expand(es, s, s[h].node), E, h + 1, 0)
<1> DEFINE n == Len(es)
           c == s[h].node
<1>1. n \in Nat
    BY DEF IsGraph
<1>2. s \in Queues(ns) /\ c \in ns
    BY QueueType DEF SearchInv, SearchInvAt
<1>3. PICK scan : /\ scan[0] = s
                  /\ \A j \in 1..n : scan[j] = Discover(scan[j - 1], c, es[j])
                  /\ \A j \in 0..n : scan[j] \in Queues(ns)
                  /\ Expand(es, s, c) = scan[n]
  <2>1. \A d \in ns : \E scan : /\ scan[0] = s
                                /\ \A j \in 1..n : scan[j] = Discover(scan[j - 1], d, es[j])
                                /\ \A j \in 0..n : scan[j] \in Queues(ns)
                                /\ Expand(es, s, d) = scan[n]
      BY <1>2, ExpandRounds
  <2> HIDE DEF n, c
  <2>2. QED
      BY <1>2, <2>1
<1> DEFINE Good(j) == /\ \E E : SearchInv(ns, es, start, scan[j], E, h, j)
                      /\ h <= Len(scan[j]) /\ scan[j][h].node = c
           T == {j \in Nat : j <= n /\ ~Good(j)}
<1>4. T = {}
  <2> SUFFICES ASSUME T # {} PROVE FALSE
      OBVIOUS
  <2>1. PICK j \in T : \A k \in T : j <= k
      BY LeastNat
  <2>2. Good(0)
      BY <1>3
  <2>3. j \in Nat /\ j <= n /\ ~Good(j) /\ j # 0
      BY <2>1, <2>2
  <2> HIDE DEF Good
  <2>4. j \in 1..n /\ j - 1 \in Nat /\ j - 1 <= n /\ ~(j <= j - 1) /\ (j - 1) + 1 = j /\ j - 1 < n
      BY <1>1, <2>3
  <2>5. Good(j - 1)
      BY <2>1, <2>4
  <2>6. PICK E : SearchInv(ns, es, start, scan[j - 1], E, h, j - 1)
      BY <2>5 DEF Good
  <2>7. h <= Len(scan[j - 1]) /\ scan[j - 1][h].node = c
      BY <2>5 DEF Good
  <2> DEFINE t == Discover(scan[j - 1], scan[j - 1][h].node, es[(j - 1) + 1])
  <2>8. /\ \E G : SearchInv(ns, es, start, t, G, h, (j - 1) + 1)
        /\ h <= Len(t) /\ t[h].node = scan[j - 1][h].node
    <3> DEFINE r == scan[j - 1]
               k == j - 1
    <3>1. /\ SearchInv(ns, es, start, r, E, h, k)
          /\ h <= Len(r) /\ k \in Nat /\ k < n
        BY <2>4, <2>6, <2>7
    <3> HIDE DEF r, k
    <3>2. LET u == Discover(r, r[h].node, es[k + 1]) IN
          /\ \E G : SearchInv(ns, es, start, u, G, h, k + 1)
          /\ h <= Len(u) /\ u[h].node = r[h].node
        BY <3>1, ScanStep
    <3>3. QED
        BY <3>2 DEF r, k
  <2>9. t = scan[j]
      BY <1>3, <2>4, <2>7
  <2>10. Good(j)
      BY <2>4, <2>7, <2>8, <2>9 DEF Good
  <2>11. QED
      BY <2>3, <2>10
<1>5. Good(n)
    BY <1>1, <1>4
<1> DEFINE t == scan[n]
<1>6. PICK E : SearchInv(ns, es, start, t, E, h, n)
    BY <1>5
<1>7. h <= Len(t) /\ Len(t) \in Nat /\ t \in Queues(ns)
    BY <1>1, <1>3, <1>5, QueueType
<1> HIDE DEF t, n
<1>8. SearchInv(ns, es, start, t, E, h + 1, 0)
  <2>1. \A a \in 1..Len(t), q \in 1..n :
            es[q].from = t[a].node /\ (a < h + 1 \/ (a = h + 1 /\ q <= 0)) =>
                \E b \in 1..Len(t) : t[b].node = es[q].to /\ E[b] <= E[a] + 1
    <3> SUFFICES ASSUME NEW a \in 1..Len(t), NEW q \in 1..n, es[q].from = t[a].node,
                        a < h + 1 \/ (a = h + 1 /\ q <= 0)
                 PROVE  \E b \in 1..Len(t) : t[b].node = es[q].to /\ E[b] <= E[a] + 1
        OBVIOUS
    <3>1. a < h \/ (a = h /\ q <= n)
        BY <1>1, <1>7
    <3>2. QED
        BY <1>6, <3>1 DEF SearchInv, SearchInvAt, n
  <2>2. h + 1 <= Len(t) => E[Len(t)] <= E[h + 1] + 1
    <3> SUFFICES ASSUME h + 1 <= Len(t) PROVE E[Len(t)] <= E[h + 1] + 1
        OBVIOUS
    <3>1. h \in 1..Len(t) /\ h + 1 \in 1..Len(t) /\ h <= h + 1 /\ Len(t) \in 1..Len(t)
        BY <1>7
    <3>2. E[h] <= E[h + 1] /\ E[Len(t)] <= E[h] + 1
          /\ E[h] \in Nat /\ E[h + 1] \in Nat /\ E[Len(t)] \in Nat
        BY <1>6, <1>7, <3>1 DEF SearchInv, SearchInvAt
    <3>3. QED
        BY <3>2
  <2>3. QED
      BY <1>6, <2>1, <2>2 DEF SearchInv, SearchInvAt, n
<1>9. QED
    BY <1>3, <1>8 DEF t

\* A round of the search.
LEMMA AdvanceStep ==
    ASSUME NEW ns, NEW es, IsGraph(ns, es), NEW start, NEW s, NEW D, NEW i \in Nat \ {0},
           SearchInv(ns, es, start, s, D, i, 0)
    PROVE  \E E : SearchInv(ns, es, start, Advance(es, s, i), E, i + 1, 0)
<1>1. s \in Queues(ns) /\ Len(s) \in Nat
    BY QueueType DEF SearchInv, SearchInvAt
<1>2. CASE i > Len(s)
  <2>1. Advance(es, s, i) = s
      BY <1>2 DEF Advance
  <2>2. SearchInv(ns, es, start, s, D, i + 1, 0)
    <3>1. \A a \in 1..Len(s) : a < i
        BY <1>1, <1>2
    <3>2. ~(i + 1 <= Len(s))
        BY <1>1, <1>2
    <3>3. QED
        BY <3>1, <3>2 DEF SearchInv, SearchInvAt
  <2>3. QED
      BY <2>1, <2>2
<1>3. CASE i <= Len(s)
  <2>1. Advance(es, s, i) = Expand(es, s, s[i].node)
      BY <1>1, <1>3 DEF Advance
  <2>2. QED
      BY <1>3, <2>1, ExpandStep
<1>4. QED
    BY <1>1, <1>2, <1>3

\* It leaves a queue a queue.
LEMMA AdvanceType ==
    ASSUME NEW ns, NEW es, IsGraph(ns, es), NEW s \in Queues(ns), NEW i \in Nat \ {0}
    PROVE  Advance(es, s, i) \in Queues(ns)
<1>1. Len(s) \in Nat /\ Len(es) \in Nat
    BY QueueType DEF IsGraph
<1>2. CASE i > Len(s)
    BY <1>2 DEF Advance
<1>3. CASE i <= Len(s)
  <2>1. i \in 1..Len(s) /\ s[i].node \in ns /\ Len(es) \in 0..Len(es)
      BY <1>1, <1>3, QueueType
  <2>2. Expand(es, s, s[i].node) \in Queues(ns)
      BY <2>1, ExpandRounds
  <2>3. QED
      BY <1>1, <1>3, <2>2 DEF Advance
<1>4. QED
    BY <1>1, <1>2, <1>3

\* The search starts with one node, at distance 0.
LEMMA SearchStarts ==
    ASSUME NEW ns, NEW es, IsGraph(ns, es), NEW start \in ns
    PROVE  /\ <<[node |-> start, parent |-> NoNode]>> \in Queues(ns)
           /\ SearchInv(ns, es, start, <<[node |-> start, parent |-> NoNode]>>,
                        [b \in 1..1 |-> 0], 1, 0)
<1> DEFINE x == [node |-> start, parent |-> NoNode]
           s == <<x>>
           D == [b \in 1..1 |-> 0]
<1>1. x \in [node : ns, parent : ns \cup {NoNode}] /\ x.node = start
    OBVIOUS
<1> HIDE DEF x
<1>2. s \in Queues(ns) /\ Len(s) = 1 /\ s[1] = x
    BY <1>1 DEF Queues
<1>3. D \in [1..1 -> Nat] /\ D[1] = 0
    OBVIOUS
<1> HIDE DEF s, D
<1>4. \A b \in 1..1 : b = 1
    OBVIOUS
<1>5. SearchInv(ns, es, start, s, D, 1, 0)
  <2>1. Len(es) \in Nat
      BY DEF IsGraph
  <2>2. QED
      BY <1>1, <1>2, <1>3, <1>4, <2>1 DEF SearchInv, SearchInvAt
<1>6. QED
    BY <1>2, <1>5 DEF s, D, x

\* The search ends, after as many rounds as there are nodes, in a state that
\* its invariant describes.
LEMMA SearchEnds ==
    ASSUME NEW ns, NEW es, IsGraph(ns, es), NEW start \in ns
    PROVE  \E D : SearchInv(ns, es, start, BFS(ns, es, start), D, Cardinality(ns) + 1, 0)
<1> DEFINE n == Cardinality(ns)
           s0 == <<[node |-> start, parent |-> NoNode]>>
           F == [i \in 1..n |-> [t \in Queues(ns) |-> Advance(es, t, i)]]
           Rounds(g) == g = [i \in 0..n |-> IF i = 0 THEN s0 ELSE Advance(es, g[i - 1], i)]
           round == CHOOSE g : Rounds(g)
<1>1. n \in Nat
    BY FS_CardinalityType DEF IsGraph
<1>2. s0 \in Queues(ns)
    BY SearchStarts
<1>3. F \in [1..n -> [Queues(ns) -> Queues(ns)]]
    BY <1>1, AdvanceType
<1>4. \E g : Rounds(g)
  <2> HIDE DEF F, n, s0
  <2>1. PICK g : AreRounds(g, n, Queues(ns), F, s0)
      BY <1>1, <1>2, <1>3, RoundsExist, Zenon
  <2>2. g \in [0..n -> Queues(ns)] /\ g[0] = s0 /\ \A i \in 1..n : g[i] = F[i][g[i - 1]]
      BY <2>1 DEF AreRounds
  <2>3. ASSUME NEW i \in 1..n PROVE g[i] = Advance(es, g[i - 1], i)
    <3>1. i - 1 \in 0..n
        BY <1>1
    <3>2. g[i - 1] \in Queues(ns)
        BY <2>2, <3>1
    <3>3. F[i][g[i - 1]] = Advance(es, g[i - 1], i)
        BY <3>2 DEF F
    <3>4. QED
        BY <2>2, <3>3
  <2>4. Rounds(g)
      BY <1>1, <2>2, <2>3
  <2>5. QED
      BY <2>4
<1>5. Rounds(round)
    BY <1>4
<1>6. BFS(ns, es, start) = round[n]
    BY DEF BFS
<1> HIDE DEF round
<1>7. round[0] = s0 /\ \A i \in 1..n : round[i] = Advance(es, round[i - 1], i)
    BY <1>1, <1>5
<1> DEFINE Good(i) == \E D : SearchInv(ns, es, start, round[i], D, i + 1, 0)
           T == {i \in Nat : i <= n /\ ~Good(i)}
<1>8. T = {}
  <2> SUFFICES ASSUME T # {} PROVE FALSE
      OBVIOUS
  <2>1. PICK i \in T : \A k \in T : i <= k
      BY LeastNat
  <2>2. Good(0)
    <3>1. 0 + 1 = 1
        OBVIOUS
    <3>2. QED
        BY <1>7, <3>1, SearchStarts
  <2>3. i \in Nat /\ i <= n /\ ~Good(i) /\ i # 0
      BY <2>1, <2>2
  <2> HIDE DEF Good
  <2>4. i \in 1..n /\ i - 1 \in Nat /\ i - 1 <= n /\ ~(i <= i - 1) /\ (i - 1) + 1 = i
        /\ i \in Nat \ {0}
      BY <1>1, <2>3
  <2>5. Good(i - 1)
      BY <2>1, <2>4
  <2>6. PICK D : SearchInv(ns, es, start, round[i - 1], D, i, 0)
      BY <2>4, <2>5 DEF Good
  <2>7. \E E : SearchInv(ns, es, start, Advance(es, round[i - 1], i), E, i + 1, 0)
      BY <2>4, <2>6, AdvanceStep
  <2>8. Good(i)
      BY <1>7, <2>4, <2>7 DEF Good
  <2>9. QED
      BY <2>3, <2>8
<1>9. Good(n)
    BY <1>1, <1>8
<1>10. QED
    BY <1>6, <1>9

\* The breadth-first search, on every finite graph and from every node: it finds
\* each node that can be reached once and no other, and its parents are on
\* shortest paths.  ShortestPath and reachableWithoutEdge run the same search.
THEOREM SearchIsExact ==
    ASSUME NEW ns, NEW es, IsGraph(ns, es), NEW start \in ns
    PROVE  SearchExact(ns, es, start)
<1> DEFINE s == BFS(ns, es, start)
           n == Len(s)
           N == Cardinality(ns)
<1>1. PICK D : SearchInv(ns, es, start, s, D, N + 1, 0)
    BY SearchEnds
<1>2. /\ n \in Nat /\ n >= 1 /\ DOMAIN s = 1..n /\ N \in Nat /\ IsFiniteSet(ns)
      /\ \A a \in 1..n : s[a].node \in ns
  <2>1. s \in Queues(ns) /\ n >= 1
      BY <1>1 DEF SearchInv, SearchInvAt
  <2>2. QED
      BY <2>1, QueueType, FS_CardinalityType DEF IsGraph
<1> HIDE DEF s, n, N
<1>3. \A a, b \in 1..n : a # b => s[a].node # s[b].node
    BY <1>1 DEF SearchInv, SearchInvAt, n
\* As the nodes are distinct, all places of the queue have been done.
<1>4. n <= N
  <2> SUFFICES ASSUME N < n PROVE FALSE
      BY <1>2
  <2> DEFINE f == [a \in 1..n |-> s[a].node]
  <2>1. f \in [1..n -> ns] /\ \A a \in 1..n : f[a] = s[a].node
      BY <1>2
  <2> HIDE DEF f
  <2>2. IsFiniteSet(1..n) /\ Cardinality(1..n) = n
      BY <1>2, FS_Interval
  <2>3. \E a, b \in 1..n : a # b /\ f[a] = f[b]
      BY <1>2, <2>1, <2>2, FS_PigeonHole DEF N
  <2>4. QED
      BY <1>3, <2>1, <2>3
<1>5. /\ D \in [1..n -> Nat] /\ D[1] = 0 /\ s[1].node = start /\ \A b \in 1..n : D[b] < b
    BY <1>1 DEF SearchInv, SearchInvAt, n
<1>6. \A b \in 2..n : \E c \in 1..(b - 1) :
          /\ s[c].node = s[b].parent /\ D[b] = D[c] + 1
          /\ \E q \in 1..Len(es) : es[q].from = s[b].parent /\ es[q].to = s[b].node
    BY <1>1 DEF SearchInv, SearchInvAt, n
<1>7. \A a \in 1..n, q \in 1..Len(es) : es[q].from = s[a].node =>
          \E b \in 1..n : s[b].node = es[q].to /\ D[b] <= D[a] + 1
  <2>1. \A a \in 1..n : a < N + 1
      BY <1>2, <1>4
  <2>2. QED
      BY <1>1, <2>1 DEF SearchInv, SearchInvAt, n
<1> DEFINE place == [x \in Visited(s) |-> CHOOSE a \in 1..n : s[a].node = x]
           dist == [x \in Visited(s) |-> D[place[x]]]
<1>8. \A x : x \in Visited(s) <=> \E a \in 1..n : s[a].node = x
    BY <1>2 DEF Visited, ToSet
<1>9. \A x \in Visited(s) : place[x] \in 1..n /\ s[place[x]].node = x
    BY <1>8
<1> HIDE DEF place
<1>10. \A a \in 1..n : s[a].node \in Visited(s) /\ place[s[a].node] = a
    BY <1>3, <1>8, <1>9
<1>11. \A a \in 1..n : dist[s[a].node] = D[a]
    BY <1>10
<1>12. dist \in [Visited(s) -> 0..(n - 1)]
  <2>1. \A x \in Visited(s) : D[place[x]] \in 0..(n - 1)
      BY <1>2, <1>5, <1>9
  <2>2. QED
      BY <2>1
<1> HIDE DEF dist
<1>13. start \in Visited(s) /\ dist[start] = 0
  <2>1. 1 \in 1..n
      BY <1>2
  <2>2. QED
      BY <1>5, <1>10, <1>11, <2>1
<1>14. ASSUME NEW d \in ToSet(s), d.node # start
       PROVE  /\ d.parent \in Visited(s) /\ dist[d.node] = dist[d.parent] + 1
              /\ \E e \in ToSet(es) : e.from = d.parent /\ e.to = d.node
  <2>1. PICK b \in 1..n : d = s[b]
      BY <1>2 DEF ToSet
  <2>2. b \in 2..n
      BY <1>2, <1>5, <1>14, <2>1
  <2>3. PICK c \in 1..(b - 1) :
            /\ s[c].node = s[b].parent /\ D[b] = D[c] + 1
            /\ \E q \in 1..Len(es) : es[q].from = s[b].parent /\ es[q].to = s[b].node
      BY <1>6, <2>2
  <2>4. c \in 1..n
      BY <1>2, <2>2
  <2>5. PICK q \in 1..Len(es) : es[q].from = s[b].parent /\ es[q].to = s[b].node
      BY <2>3
  <2>6. es[q] \in ToSet(es)
      BY DEF ToSet, IsGraph
  <2>7. d.parent \in Visited(s) /\ dist[d.node] = dist[d.parent] + 1
      BY <1>10, <1>11, <2>1, <2>3, <2>4
  <2>8. QED
      BY <2>1, <2>5, <2>6, <2>7
<1>15. ASSUME NEW e \in ToSet(es), e.from \in Visited(s)
       PROVE  e.to \in Visited(s) /\ dist[e.to] <= dist[e.from] + 1
  <2>1. PICK q \in 1..Len(es) : e = es[q]
      BY DEF ToSet, IsGraph
  <2>2. PICK a \in 1..n : s[a].node = e.from
      BY <1>8, <1>15
  <2>3. PICK b \in 1..n : s[b].node = e.to /\ D[b] <= D[a] + 1
      BY <1>7, <2>1, <2>2
  <2>4. QED
      BY <1>10, <1>11, <2>2, <2>3
<1>16. QED
    BY <1>3, <1>12, <1>13, <1>14, <1>15 DEF SearchExact, s, n

-----------------------------------------------------------------------------
\* The states of the sort.
SortStates(ns) == [inDegree : [ns -> Int], queue : Seq(ns)]

\* The edges that have been followed when the places of the queue before h are
\* done, and m edges for place h; and those that still lead to a node.
Followed(es, queue, h, m) ==
    {q \in 1..Len(es) : \E a \in 1..Len(queue) :
                            es[q].from = queue[a] /\ (a < h \/ (a = h /\ q <= m))}

Open(es, queue, h, m, x) ==
    {q \in 1..Len(es) : es[q].to = x /\ q \notin Followed(es, queue, h, m)}

\* The invariant of the sort.  The counts are those of the open edges; the queue
\* holds each node without one, once; and nothing leads to a node of the queue
\* but from before it.
SortInv(ns, es, s, h, m) ==
    LET queue == s.queue  n == Len(queue) IN
    /\ s \in SortStates(ns)
    /\ \A a, b \in 1..n : a # b => queue[a] # queue[b]
    /\ \A x \in ns : s.inDegree[x] = Cardinality(Open(es, queue, h, m, x))
    /\ \A x \in ns : (\E b \in 1..n : queue[b] = x) <=> Open(es, queue, h, m, x) = {}
    /\ \A b \in 1..n, q \in 1..Len(es) :
           es[q].to = queue[b] => \E a \in 1..(b - 1) : es[q].from = queue[a]

\* There are finitely many open edges.
LEMMA OpenFinite ==
    ASSUME NEW ns, NEW es, IsGraph(ns, es), NEW queue, NEW h, NEW m, NEW x
    PROVE  /\ IsFiniteSet(Open(es, queue, h, m, x))
           /\ Cardinality(Open(es, queue, h, m, x)) \in Nat
           /\ Cardinality(Open(es, queue, h, m, x)) = 0 <=> Open(es, queue, h, m, x) = {}
<1> DEFINE O == Open(es, queue, h, m, x)
<1>1. IsFiniteSet(1..Len(es))
    BY FS_Interval DEF IsGraph
<1>2. O \subseteq 1..Len(es)
    BY DEF Open
<1> HIDE DEF O
<1>3. IsFiniteSet(O)
    BY <1>1, <1>2, FS_Subset
<1>4. Cardinality(O) \in Nat /\ (Cardinality(O) = 0 <=> O = {})
    BY <1>3, FS_CardinalityType, FS_EmptySet
<1>5. QED
    BY <1>3, <1>4 DEF O

\* An edge leaves a state of the sort one.
LEMMA ReleaseType ==
    ASSUME NEW ns, NEW es, IsGraph(ns, es), NEW s \in SortStates(ns), NEW c,
           NEW q \in 1..Len(es)
    PROVE  Release(s, c, es[q]) \in SortStates(ns)
<1>1. es[q].to \in ns /\ s.inDegree \in [ns -> Int] /\ s.queue \in Seq(ns)
    BY DEF IsGraph, SortStates
<1>2. [s.inDegree EXCEPT ![es[q].to] = @ - 1] \in [ns -> Int]
    BY <1>1
<1>3. Append(s.queue, es[q].to) \in Seq(ns)
    BY <1>1
<1>4. QED
    BY <1>1, <1>2, <1>3 DEF Release, SortStates

\* One more edge for the place h.
LEMMA ReleaseStep ==
    ASSUME NEW ns, NEW es, IsGraph(ns, es), NEW s, NEW h \in Nat \ {0}, NEW m \in Nat,
           m < Len(es), h <= Len(s.queue), SortInv(ns, es, s, h, m)
    PROVE  LET t == Release(s, s.queue[h], es[m + 1]) IN
           /\ SortInv(ns, es, t, h, m + 1)
           /\ h <= Len(t.queue) /\ t.queue[h] = s.queue[h]
<1> DEFINE queue == s.queue
           n == Len(queue)
           c == queue[h]
           e == es[m + 1]
           t == Release(s, c, e)
           Op(x) == Open(es, queue, h, m, x)
<1>1. /\ s \in SortStates(ns) /\ s.inDegree \in [ns -> Int] /\ queue \in Seq(ns)
      /\ n \in Nat /\ h \in 1..n /\ \A a \in 1..n : queue[a] \in ns
    BY DEF SortInv, SortStates
<1>2. m + 1 \in 1..Len(es) /\ e.from \in ns /\ e.to \in ns /\ Len(es) \in Nat
    BY DEF IsGraph
<1>3. \A a, b \in 1..n : a # b => queue[a] # queue[b]
    BY DEF SortInv
<1>4. CASE e.from # c
  <2>1. t = s
      BY <1>4 DEF Release
  <2>2. Followed(es, queue, h, m + 1) = Followed(es, queue, h, m)
    <3>1. \A q \in 1..Len(es), a \in 1..n : es[q].from = queue[a] =>
              ((a < h \/ (a = h /\ q <= m + 1)) <=> (a < h \/ (a = h /\ q <= m)))
        BY <1>1, <1>2, <1>4
    <3>2. QED
        BY <3>1 DEF Followed
  <2>3. \A x : Open(es, queue, h, m + 1, x) = Op(x)
      BY <2>2 DEF Open
  <2>4. SortInv(ns, es, s, h, m + 1)
      BY <2>3 DEF SortInv
  <2>5. QED
      BY <1>1, <2>1, <2>4
<1>5. CASE e.from = c
  <2> DEFINE last == s.inDegree[e.to] = 1
             queue2 == IF last THEN Append(queue, e.to) ELSE queue
             n2 == Len(queue2)
             Op2(x) == Open(es, queue2, h, m + 1, x)
  <2>1. /\ t.inDegree = [s.inDegree EXCEPT ![e.to] = @ - 1] /\ t.queue = queue2
        /\ t \in SortStates(ns)
    <3>1. t \in SortStates(ns)
        BY <1>1, <1>2, ReleaseType
    <3>2. QED
        BY <1>5, <3>1 DEF Release
  <2>2. /\ n2 \in Nat /\ n <= n2 /\ \A a \in 1..n : queue2[a] = queue[a]
        /\ last => n2 = n + 1 /\ queue2[n + 1] = e.to
        /\ ~last => n2 = n /\ queue2 = queue
    <3>1. CASE last
      <4>1. queue2 = Append(queue, e.to)
          BY <3>1
      <4> HIDE DEF queue2, queue, last
      <4>2. QED
          BY <1>1, <1>2, <3>1, <4>1
    <3>2. CASE ~last
      <4>1. queue2 = queue
          BY <3>2
      <4> HIDE DEF queue2, queue, last
      <4>2. QED
          BY <1>1, <3>2, <4>1
    <3>3. QED
        BY <3>1, <3>2
  <2> HIDE DEF t, queue2, n2, last
  <2>3. Followed(es, queue2, h, m + 1) = Followed(es, queue, h, m) \cup {m + 1}
    <3>1. ASSUME NEW q \in 1..Len(es), q \in Followed(es, queue2, h, m + 1), q # m + 1
          PROVE  q \in Followed(es, queue, h, m)
      <4>1. PICK a \in 1..n2 : es[q].from = queue2[a] /\ (a < h \/ (a = h /\ q <= m + 1))
          BY <3>1 DEF Followed, n2
      <4>2. a \in 1..n /\ (a < h \/ (a = h /\ q <= m)) /\ es[q].from = queue[a]
          BY <1>1, <1>2, <2>2, <3>1, <4>1
      <4>3. QED
          BY <4>2 DEF Followed
    <3>2. ASSUME NEW q \in Followed(es, queue, h, m) PROVE q \in Followed(es, queue2, h, m + 1)
      <4>1. PICK a \in 1..n : es[q].from = queue[a] /\ (a < h \/ (a = h /\ q <= m))
          BY DEF Followed
      <4>2. q \in 1..Len(es)
          BY DEF Followed
      <4>3. a \in 1..n2 /\ es[q].from = queue2[a] /\ (a < h \/ (a = h /\ q <= m + 1))
          BY <1>1, <1>2, <2>2, <4>1, <4>2
      <4>4. QED
          BY <4>2, <4>3 DEF Followed, n2
    <3>3. m + 1 \in Followed(es, queue2, h, m + 1)
      <4>1. h \in 1..n2 /\ es[m + 1].from = queue2[h]
          BY <1>1, <1>5, <2>2
      <4>2. QED
          BY <1>2, <4>1 DEF Followed, n2
    <3>4. QED
        BY <3>1, <3>2, <3>3 DEF Followed
  <2>4. m + 1 \notin Followed(es, queue, h, m)
    <3> SUFFICES ASSUME m + 1 \in Followed(es, queue, h, m) PROVE FALSE
        OBVIOUS
    <3>1. PICK a \in 1..n : c = queue[a] /\ (a < h \/ (a = h /\ m + 1 <= m))
        BY <1>5 DEF Followed
    <3>2. a = h
        BY <1>1, <1>3, <3>1
    <3>3. QED
        BY <1>1, <3>1, <3>2
  <2>5. /\ Op2(e.to) = Op(e.to) \ {m + 1} /\ m + 1 \in Op(e.to)
        /\ \A x : x # e.to => Op2(x) = Op(x)
      BY <1>2, <2>3, <2>4 DEF Open
  <2>6. \A x : IsFiniteSet(Op(x)) /\ Cardinality(Op(x)) \in Nat /\ (Cardinality(Op(x)) = 0 <=> Op(x) = {})
      BY OpenFinite
  <2>7. \A x : Cardinality(Op2(x)) = 0 <=> Op2(x) = {}
      BY OpenFinite
  <2>8. \A x \in ns : s.inDegree[x] = Cardinality(Op(x))
      BY DEF SortInv
  <2> HIDE DEF Op, Op2
  <2>9. Cardinality(Op2(e.to)) = Cardinality(Op(e.to)) - 1
    <3> DEFINE A == Op(e.to)
               y == m + 1
    <3>1. IsFiniteSet(A) /\ y \in A /\ Op2(e.to) = A \ {y}
        BY <2>5, <2>6
    <3> HIDE DEF A, y
    <3>2. Cardinality(A \ {y}) = Cardinality(A) - 1
        BY <3>1, FS_RemoveElement
    <3>3. QED
        BY <3>1, <3>2 DEF A
  <2>10. \A x \in ns : t.inDegree[x] = Cardinality(Op2(x))
      BY <1>1, <1>2, <2>1, <2>5, <2>8, <2>9
  <2>11. last <=> Op2(e.to) = {}
      BY <1>2, <2>6, <2>7, <2>8, <2>9 DEF last
  <2>12. \A x \in ns : (\E b \in 1..n : queue[b] = x) <=> Op(x) = {}
      BY DEF SortInv, Op
  <2>13. \A b \in 1..n : queue[b] # e.to
      BY <1>2, <2>5, <2>12
  <2>14. \A b \in 1..n2 : b \in 1..n \/ (last /\ b = n + 1)
      BY <1>1, <2>2
  <2>15. \A a, b \in 1..n2 : a # b => queue2[a] # queue2[b]
      BY <1>3, <2>2, <2>13, <2>14
  <2>16. ASSUME NEW x \in ns PROVE (\E b \in 1..n2 : queue2[b] = x) <=> Op2(x) = {}
    <3>1. CASE x = e.to
      <4>1. CASE last
        <5>1. n + 1 \in 1..n2 /\ queue2[n + 1] = x
            BY <1>1, <2>2, <3>1, <4>1
        <5>2. QED
            BY <2>11, <3>1, <4>1, <5>1
      <4>2. CASE ~last
          BY <2>2, <2>11, <2>13, <3>1, <4>2
      <4>3. QED
          BY <4>1, <4>2
    <3>2. CASE x # e.to
      <4>1. (\E b \in 1..n2 : queue2[b] = x) <=> (\E b \in 1..n : queue[b] = x)
        <5>1. 1..n \subseteq 1..n2
            BY <1>1, <2>2
        <5>2. QED
            BY <2>2, <2>14, <3>2, <5>1
      <4>2. QED
          BY <2>5, <2>12, <3>2, <4>1
    <3>3. QED
        BY <3>1, <3>2
  <2>17. ASSUME NEW b \in 1..n2, NEW q \in 1..Len(es), es[q].to = queue2[b]
         PROVE  \E a \in 1..(b - 1) : es[q].from = queue2[a]
    <3>1. CASE b \in 1..n
      <4>1. PICK a \in 1..(b - 1) : es[q].from = queue[a]
          BY <2>2, <2>17, <3>1 DEF SortInv
      <4>2. a \in 1..n
          BY <1>1, <3>1
      <4>3. QED
          BY <2>2, <4>1, <4>2
    <3>2. CASE last /\ b = n + 1
      <4>1. q \in Followed(es, queue2, h, m + 1)
          BY <2>2, <2>11, <2>17, <3>2 DEF Op2, Open
      <4>2. PICK a \in 1..n2 : es[q].from = queue2[a] /\ (a < h \/ (a = h /\ q <= m + 1))
          BY <4>1 DEF Followed, n2
      <4>3. a \in 1..(b - 1)
          BY <1>1, <2>2, <3>2, <4>2
      <4>4. QED
          BY <4>2, <4>3
    <3>3. QED
        BY <2>14, <3>1, <3>2
  <2>18. SortInv(ns, es, t, h, m + 1)
      BY <2>1, <2>10, <2>15, <2>16, <2>17 DEF SortInv, n2, Op2
  <2>19. h <= Len(t.queue) /\ t.queue[h] = c
      BY <1>1, <2>1, <2>2 DEF n2
  <2>20. QED
      BY <2>18, <2>19 DEF t
<1>6. QED
    BY <1>4, <1>5

\* The loop over the edges, as the sequence of its states.
LEMMA ReleaseRounds ==
    ASSUME NEW ns, NEW es, IsGraph(ns, es), NEW s \in SortStates(ns), NEW c
    PROVE  \E scan : /\ scan[0] = s
                     /\ \A j \in 1..Len(es) : scan[j] = Release(scan[j - 1], c, es[j])
                     /\ ReleaseAll(es, s, c) = scan[Len(es)]
                     /\ ReleaseAll(es, s, c) \in SortStates(ns)
<1> DEFINE n == Len(es)
           S == SortStates(ns)
           F == [j \in 1..n |-> [t \in S |-> Release(t, c, es[j])]]
           Rounds(g) == g = [j \in 0..n |-> IF j = 0 THEN s ELSE Release(g[j - 1], c, es[j])]
           scan == CHOOSE g : Rounds(g)
<1>1. n \in Nat
    BY DEF IsGraph
<1>2. F \in [1..n -> [S -> S]]
    BY ReleaseType
<1>3. PICK g : /\ g \in [0..n -> S] /\ g[0] = s
               /\ \A j \in 1..n : g[j] = Release(g[j - 1], c, es[j])
  <2> HIDE DEF F, n, S
  <2>1. PICK g : AreRounds(g, n, S, F, s)
    <3>1. s \in S
        BY DEF S
    <3>2. QED
        BY <1>1, <1>2, <3>1, RoundsExist, Zenon
  <2>2. g \in [0..n -> S] /\ g[0] = s /\ \A j \in 1..n : g[j] = F[j][g[j - 1]]
      BY <2>1 DEF AreRounds
  <2>3. ASSUME NEW j \in 1..n PROVE g[j] = Release(g[j - 1], c, es[j])
    <3>1. j - 1 \in 0..n
        BY <1>1
    <3>2. g[j - 1] \in S
        BY <2>2, <3>1
    <3>3. F[j][g[j - 1]] = Release(g[j - 1], c, es[j])
        BY <3>2 DEF F
    <3>4. QED
        BY <2>2, <3>3
  <2>4. QED
      BY <2>2, <2>3
<1>4. Rounds(g)
    BY <1>1, <1>3
<1>5. Rounds(scan)
    BY <1>4
<1>6. ReleaseAll(es, s, c) = scan[n]
    BY DEF ReleaseAll
<1> HIDE DEF scan, F, S
<1>7. scan[0] = s /\ \A j \in 1..n : scan[j] = Release(scan[j - 1], c, es[j])
    BY <1>1, <1>5
<1> DEFINE T == {j \in Nat : j <= n /\ scan[j] \notin S}
<1>8. T = {}
  <2> SUFFICES ASSUME T # {} PROVE FALSE
      OBVIOUS
  <2>1. PICK j \in T : \A k \in T : j <= k
      BY LeastNat
  <2>2. j \in Nat /\ j <= n /\ scan[j] \notin S /\ j # 0
      BY <1>7, <2>1 DEF S
  <2>3. j \in 1..n /\ j - 1 \in Nat /\ j - 1 <= n /\ ~(j <= j - 1)
      BY <1>1, <2>2
  <2>4. scan[j - 1] \in S
      BY <2>1, <2>3
  <2>5. QED
      BY <1>7, <2>2, <2>3, <2>4, ReleaseType DEF S
<1>9. scan[n] \in S
    BY <1>1, <1>8
<1>10. QED
    BY <1>6, <1>7, <1>9 DEF S

\* A round of the sort: all edges for a place, and on to the next one.
LEMMA SortRoundStep ==
    ASSUME NEW ns, NEW es, IsGraph(ns, es), NEW s, NEW i \in Nat \ {0}, SortInv(ns, es, s, i, 0)
    PROVE  SortInv(ns, es, SortRound(es, s, i), i + 1, 0)
<1> DEFINE n == Len(es)
           c == s.queue[i]
<1>1. n \in Nat
    BY DEF IsGraph
<1>2. s \in SortStates(ns) /\ Len(s.queue) \in Nat
    BY DEF SortInv, SortStates
\* Who is done is the same, once all edges for a place are followed.
<1>3. ASSUME NEW t, SortInv(ns, es, t, i, n) \/ (i > Len(t.queue) /\ SortInv(ns, es, t, i, 0))
      PROVE  SortInv(ns, es, t, i + 1, 0)
  <2>1. PICK m \in {0, n} : SortInv(ns, es, t, i, m) /\ (m = 0 => i > Len(t.queue) \/ n = 0)
      BY <1>3
  <2>2. Len(t.queue) \in Nat
      BY <2>1 DEF SortInv, SortStates
  <2>3. \A a \in 1..Len(t.queue), q \in 1..n :
            (a < i + 1 \/ (a = i + 1 /\ q <= 0)) <=> (a < i \/ (a = i /\ q <= m))
      BY <1>1, <2>1, <2>2
  <2>4. Followed(es, t.queue, i + 1, 0) = Followed(es, t.queue, i, m)
      BY <2>3 DEF Followed
  <2>5. \A x : Open(es, t.queue, i + 1, 0, x) = Open(es, t.queue, i, m, x)
      BY <2>4 DEF Open
  <2>6. QED
      BY <2>1, <2>5 DEF SortInv
<1>4. CASE i > Len(s.queue)
    BY <1>3, <1>4 DEF SortRound
<1>5. CASE i <= Len(s.queue)
  <2>1. PICK scan : /\ scan[0] = s
                    /\ \A j \in 1..n : scan[j] = Release(scan[j - 1], c, es[j])
                    /\ ReleaseAll(es, s, c) = scan[n]
      BY <1>2, ReleaseRounds
  <2> DEFINE Good(j) == /\ SortInv(ns, es, scan[j], i, j)
                        /\ i <= Len(scan[j].queue) /\ scan[j].queue[i] = c
             T == {j \in Nat : j <= n /\ ~Good(j)}
  <2>2. T = {}
    <3> SUFFICES ASSUME T # {} PROVE FALSE
        OBVIOUS
    <3>1. PICK j \in T : \A k \in T : j <= k
        BY LeastNat
    <3>2. Good(0)
        BY <1>5, <2>1
    <3>3. j \in Nat /\ j <= n /\ ~Good(j) /\ j # 0
        BY <3>1, <3>2
    <3> HIDE DEF Good
    <3>4. j \in 1..n /\ j - 1 \in Nat /\ j - 1 <= n /\ ~(j <= j - 1) /\ (j - 1) + 1 = j /\ j - 1 < n
        BY <1>1, <3>3
    <3>5. Good(j - 1)
        BY <3>1, <3>4
    <3> DEFINE t == Release(scan[j - 1], scan[j - 1].queue[i], es[(j - 1) + 1])
    <3>6. /\ SortInv(ns, es, t, i, (j - 1) + 1)
          /\ i <= Len(t.queue) /\ t.queue[i] = scan[j - 1].queue[i]
      <4> DEFINE r == scan[j - 1]
                 k == j - 1
      <4>1. SortInv(ns, es, r, i, k) /\ i <= Len(r.queue) /\ k \in Nat /\ k < n
          BY <3>4, <3>5 DEF Good
      <4> HIDE DEF r, k
      <4>2. LET u == Release(r, r.queue[i], es[k + 1]) IN
            /\ SortInv(ns, es, u, i, k + 1)
            /\ i <= Len(u.queue) /\ u.queue[i] = r.queue[i]
          BY <4>1, ReleaseStep
      <4>3. QED
          BY <4>2 DEF r, k
    <3>7. t = scan[j] /\ scan[j - 1].queue[i] = c
        BY <2>1, <3>4, <3>5 DEF Good
    <3>8. Good(j)
        BY <3>4, <3>6, <3>7 DEF Good
    <3>9. QED
        BY <3>3, <3>8
  <2>3. SortInv(ns, es, scan[n], i, n)
      BY <1>1, <2>2
  <2>4. SortRound(es, s, i) = scan[n]
      BY <1>2, <1>5, <2>1 DEF SortRound
  <2>5. QED
      BY <1>3, <2>3, <2>4
<1>6. QED
    BY <1>2, <1>4, <1>5

\* It leaves a state of the sort one.
LEMMA SortRoundType ==
    ASSUME NEW ns, NEW es, IsGraph(ns, es), NEW s \in SortStates(ns), NEW i \in Nat \ {0}
    PROVE  SortRound(es, s, i) \in SortStates(ns)
BY ReleaseRounds DEF SortRound

\* The orders of a finite set hold all of it, once.
LEMMA OrderFacts ==
    ASSUME NEW S, IsFiniteSet(S), NEW order \in SetToSeqs(S)
    PROVE  /\ order \in Seq(S) /\ Len(order) = Cardinality(S) /\ Cardinality(S) \in Nat
           /\ \A a, b \in 1..Len(order) : a # b => order[a] # order[b]
           /\ \A x \in S : \E b \in 1..Len(order) : order[b] = x
<1> DEFINE n == Cardinality(S)
<1>1. n \in Nat
    BY FS_CardinalityType
<1>2. order \in [1..n -> S] /\ \A a, b \in 1..n : a # b => order[a] # order[b]
    BY DEF SetToSeqs
<1> HIDE DEF n
<1>3. order \in Injection(1..n, S)
    BY <1>2 DEF Injection, IsInjective
<1>4. IsFiniteSet(1..n) /\ Cardinality(1..n) = n
    BY <1>1, FS_Interval
<1>5. order \in Surjection(1..n, S)
    BY <1>3, <1>4, FS_Injection DEF n
<1>6. \A x \in S : \E b \in 1..n : order[b] = x
    BY <1>5 DEF Surjection
<1>7. order \in Seq(S) /\ Len(order) = n
    BY <1>1, <1>2
<1>8. QED
    BY <1>1, <1>2, <1>6, <1>7 DEF n

\* The sort starts with the nodes to which nothing leads.
LEMMA SortStarts ==
    ASSUME NEW ns, NEW es, IsGraph(ns, es), NEW roots \in SetToSeqs(Roots(ns, es))
    PROVE  SortInv(ns, es, [inDegree |-> [x \in ns |-> InDegree(es, x)], queue |-> roots], 1, 0)
<1> DEFINE R == Roots(ns, es)
           s == [inDegree |-> [x \in ns |-> InDegree(es, x)], queue |-> roots]
<1>1. IsFiniteSet(R) /\ R \subseteq ns
  <2>1. R \subseteq ns
      BY DEF Roots
  <2>2. QED
      BY <2>1, FS_Subset DEF IsGraph
<1>2. /\ roots \in Seq(R) /\ Len(roots) \in Nat
      /\ \A a, b \in 1..Len(roots) : a # b => roots[a] # roots[b]
      /\ \A x \in R : \E b \in 1..Len(roots) : roots[b] = x
    BY <1>1, OrderFacts
<1>3. \A x : Open(es, roots, 1, 0, x) = {q \in DOMAIN es : es[q].to = x}
  <2>1. \A a \in 1..Len(roots), q \in 1..Len(es) : ~(a < 1 \/ (a = 1 /\ q <= 0))
      BY <1>2 DEF IsGraph
  <2>2. Followed(es, roots, 1, 0) = {}
      BY <2>1 DEF Followed
  <2>3. QED
      BY <2>2 DEF Open, IsGraph
<1>4. \A x : /\ InDegree(es, x) = Cardinality(Open(es, roots, 1, 0, x))
             /\ InDegree(es, x) \in Nat
             /\ InDegree(es, x) = 0 <=> Open(es, roots, 1, 0, x) = {}
  <2>1. \A x : InDegree(es, x) = Cardinality(Open(es, roots, 1, 0, x))
      BY <1>3 DEF InDegree
  <2>2. QED
      BY <2>1, OpenFinite
<1>5. \A b \in 1..Len(roots) : roots[b] \in R
    BY <1>2
<1>6. s.queue = roots /\ s.inDegree = [x \in ns |-> InDegree(es, x)] /\ s \in SortStates(ns)
  <2>1. roots \in Seq(ns)
      BY <1>1, <1>2, <1>5
  <2>2. QED
      BY <1>4, <2>1 DEF SortStates
<1>7. \A x \in ns : (\E b \in 1..Len(roots) : roots[b] = x) <=> Open(es, roots, 1, 0, x) = {}
    BY <1>2, <1>4, <1>5 DEF Roots
<1>8. ASSUME NEW b \in 1..Len(roots), NEW q \in 1..Len(es), es[q].to = roots[b] PROVE FALSE
  <2>1. Open(es, roots, 1, 0, roots[b]) = {}
      BY <1>1, <1>5, <1>7
  <2>2. q \in {p \in DOMAIN es : es[p].to = roots[b]}
      BY <1>8 DEF IsGraph
  <2>3. QED
      BY <1>3, <2>1, <2>2
<1> HIDE DEF s
<1>9. \A x \in ns : s.inDegree[x] = Cardinality(Open(es, roots, 1, 0, x))
    BY <1>4, <1>6
<1>10. SortInv(ns, es, s, 1, 0)
    BY <1>2, <1>6, <1>7, <1>8, <1>9 DEF SortInv
<1>11. QED
    BY <1>10 DEF s

\* The rounds of the sort end with every place done.
LEMMA SortEnds ==
    ASSUME NEW ns, NEW es, IsGraph(ns, es), NEW roots \in SetToSeqs(Roots(ns, es))
    PROVE  \E s : /\ SortInv(ns, es, s, Cardinality(ns) + 1, 0)
                  /\ TopologicalSort(ns, es, roots) =
                         IF Len(s.queue) = Cardinality(ns) THEN s.queue ELSE NoNode
<1> DEFINE n == Cardinality(ns)
           S == SortStates(ns)
           s0 == [inDegree |-> [x \in ns |-> InDegree(es, x)], queue |-> roots]
           F == [i \in 1..n |-> [t \in S |-> SortRound(es, t, i)]]
           Rounds(g) == g = [i \in 0..n |-> IF i = 0 THEN s0 ELSE SortRound(es, g[i - 1], i)]
           round == CHOOSE g : Rounds(g)
<1>1. n \in Nat
    BY FS_CardinalityType DEF IsGraph
<1>2. s0 \in S /\ SortInv(ns, es, s0, 1, 0)
  <2>1. SortInv(ns, es, s0, 1, 0)
      BY SortStarts
  <2>2. QED
      BY <2>1 DEF SortInv
<1>3. F \in [1..n -> [S -> S]]
  <2>1. ASSUME NEW i \in 1..n, NEW t \in S PROVE SortRound(es, t, i) \in S
      BY <1>1, SortRoundType
  <2>2. QED
      BY <2>1
<1>4. \E g : Rounds(g)
  <2> HIDE DEF F, n, s0, S
  <2>1. PICK g : AreRounds(g, n, S, F, s0)
      BY <1>1, <1>2, <1>3, RoundsExist, Zenon
  <2>2. g \in [0..n -> S] /\ g[0] = s0 /\ \A i \in 1..n : g[i] = F[i][g[i - 1]]
      BY <2>1 DEF AreRounds
  <2>3. ASSUME NEW i \in 1..n PROVE g[i] = SortRound(es, g[i - 1], i)
    <3>1. i - 1 \in 0..n
        BY <1>1
    <3>2. g[i - 1] \in S
        BY <2>2, <3>1
    <3>3. F[i][g[i - 1]] = SortRound(es, g[i - 1], i)
        BY <3>2 DEF F
    <3>4. QED
        BY <2>2, <3>3
  <2>4. Rounds(g)
      BY <1>1, <2>2, <2>3
  <2>5. QED
      BY <2>4
<1>5. Rounds(round)
    BY <1>4
<1>6. TopologicalSort(ns, es, roots) =
          IF Len(round[n].queue) = n THEN round[n].queue ELSE NoNode
    BY DEF TopologicalSort
<1> HIDE DEF round, s0
<1>7. round[0] = s0 /\ \A i \in 1..n : round[i] = SortRound(es, round[i - 1], i)
    BY <1>1, <1>5
<1> DEFINE Good(i) == SortInv(ns, es, round[i], i + 1, 0)
           T == {i \in Nat : i <= n /\ ~Good(i)}
<1>8. T = {}
  <2> SUFFICES ASSUME T # {} PROVE FALSE
      OBVIOUS
  <2>1. PICK i \in T : \A k \in T : i <= k
      BY LeastNat
  <2>2. Good(0)
    <3>1. 0 + 1 = 1
        OBVIOUS
    <3>2. QED
        BY <1>2, <1>7, <3>1
  <2>3. i \in Nat /\ i <= n /\ ~Good(i) /\ i # 0
      BY <2>1, <2>2
  <2> HIDE DEF Good
  <2>4. i \in 1..n /\ i - 1 \in Nat /\ i - 1 <= n /\ ~(i <= i - 1) /\ (i - 1) + 1 = i
        /\ i \in Nat \ {0}
      BY <1>1, <2>3
  <2>5. Good(i - 1)
      BY <2>1, <2>4
  <2>6. SortInv(ns, es, round[i - 1], i, 0)
      BY <2>4, <2>5 DEF Good
  <2>7. SortInv(ns, es, SortRound(es, round[i - 1], i), i + 1, 0)
      BY <2>4, <2>6, SortRoundStep
  <2>8. Good(i)
      BY <1>7, <2>4, <2>7 DEF Good
  <2>9. QED
      BY <2>3, <2>8
<1>9. Good(n)
    BY <1>1, <1>8
<1>10. QED
    BY <1>6, <1>9

\* The topological sort, on every finite graph and from every order of its roots:
\* it fails exactly if the graph has a cycle, and otherwise orders every node
\* once, no edge leading backwards.  HasCycle reports this error.
THEOREM SortIsExact ==
    ASSUME NEW ns, NEW es, IsGraph(ns, es)
    PROVE  OrderExact(ns, es)
<1> SUFFICES ASSUME NEW roots \in SetToSeqs(Roots(ns, es))
             PROVE  LET sorted == TopologicalSort(ns, es, roots) IN
                    IF Cyclic(ns, es) THEN sorted = NoNode
                    ELSE /\ sorted \in SetToSeqs(ns)
                         /\ \A i, j \in 1..Len(sorted), e \in ToSet(es) :
                                sorted[i] = e.from /\ sorted[j] = e.to => i < j
    BY DEF OrderExact
<1> DEFINE N == Cardinality(ns)
           answer == TopologicalSort(ns, es, roots)
<1>1. PICK s : /\ SortInv(ns, es, s, N + 1, 0)
               /\ answer = IF Len(s.queue) = N THEN s.queue ELSE NoNode
    BY SortEnds
<1> DEFINE queue == s.queue
           n == Len(queue)
<1>2. /\ N \in Nat /\ IsFiniteSet(ns) /\ queue \in Seq(ns) /\ n \in Nat
      /\ DOMAIN queue = 1..n /\ queue \in [1..n -> ns] /\ IsFiniteSet(1..n) /\ Cardinality(1..n) = n
  <2>1. queue \in Seq(ns)
      BY <1>1 DEF SortInv, SortStates
  <2>2. n \in Nat /\ DOMAIN queue = 1..n /\ queue \in [1..n -> ns]
      BY <2>1
  <2>3. N \in Nat /\ IsFiniteSet(ns)
      BY FS_CardinalityType DEF IsGraph
  <2>4. IsFiniteSet(1..n) /\ Cardinality(1..n) = n
    <3> HIDE DEF n
    <3>1. QED
        BY <2>2, FS_Interval
  <2>5. QED
      BY <2>1, <2>2, <2>3, <2>4
<1>3. \A a, b \in 1..n : a # b => queue[a] # queue[b]
    BY <1>1 DEF SortInv
<1>4. /\ \A x \in ns : (\E b \in 1..n : queue[b] = x) <=> Open(es, queue, N + 1, 0, x) = {}
      /\ \A b \in 1..n, q \in 1..Len(es) :
             es[q].to = queue[b] => \E a \in 1..(b - 1) : es[q].from = queue[a]
    BY <1>1 DEF SortInv
<1>5. \A e : e \in ToSet(es) <=> \E q \in 1..Len(es) : es[q] = e
    BY DEF ToSet, IsGraph
<1> HIDE DEF N, answer, queue, n
<1>6. queue \in Injection(1..n, ns)
    BY <1>2, <1>3 DEF Injection, IsInjective
<1>7. n <= N /\ (n = N <=> queue \in Surjection(1..n, ns))
    BY <1>2, <1>6, FS_Injection DEF N
<1>8. CASE n = N
  <2>1. answer = queue
      BY <1>1, <1>8 DEF n, queue
  <2>2. \A x \in ns : \E b \in 1..n : queue[b] = x
      BY <1>7, <1>8 DEF Surjection
  <2>3. queue \in SetToSeqs(ns)
      BY <1>2, <1>3, <1>8 DEF SetToSeqs, N
  <2>4. ASSUME NEW i \in 1..n, NEW j \in 1..n, NEW e \in ToSet(es),
               queue[i] = e.from, queue[j] = e.to
        PROVE  i < j
    <3>1. PICK q \in 1..Len(es) : es[q] = e
        BY <1>5
    <3>2. PICK a \in 1..(j - 1) : e.from = queue[a]
        BY <1>4, <2>4, <3>1
    <3>3. a \in 1..n /\ a < j
        BY <1>2
    <3>4. a = i
        BY <1>3, <2>4, <3>2, <3>3
    <3>5. QED
        BY <3>3, <3>4
  \* The first node of a cycle has no place: it is led to from before.
  <2>5. ASSUME Cyclic(ns, es) PROVE FALSE
    <3>1. PICK C \in SUBSET ns : /\ C # {}
                                 /\ \A x \in C : \E e \in ToSet(es) : e.to = x /\ e.from \in C
        BY <2>5 DEF Cyclic
    <3> DEFINE T == {b \in 1..n : queue[b] \in C}
    <3>2. T \in SUBSET Nat /\ T # {}
        BY <1>2, <2>2, <3>1
    <3>3. PICK b \in T : \A k \in T : b <= k
        BY <3>2, LeastNat
    <3>4. PICK e \in ToSet(es) : e.to = queue[b] /\ e.from \in C
        BY <3>1, <3>3
    <3>5. PICK q \in 1..Len(es) : es[q] = e
        BY <1>5
    <3>6. PICK a \in 1..(b - 1) : e.from = queue[a]
        BY <1>4, <3>3, <3>4, <3>5
    <3>7. a \in 1..n /\ ~(b <= a)
        BY <1>2, <3>3
    <3>8. a \in T
        BY <3>4, <3>6, <3>7
    <3>9. QED
        BY <3>3, <3>7, <3>8
  <2>6. QED
      BY <2>1, <2>3, <2>4, <2>5 DEF answer, n
<1>9. CASE n < N
  <2> DEFINE C == {x \in ns : \A b \in 1..n : queue[b] # x}
  <2>1. answer = NoNode
      BY <1>1, <1>2, <1>9 DEF n, queue
  <2>2. C # {}
    <3> SUFFICES ASSUME \A x \in ns : \E b \in 1..n : queue[b] = x PROVE FALSE
        OBVIOUS
    <3>1. queue \in Surjection(1..n, ns)
        BY <1>2 DEF Surjection
    <3>2. QED
        BY <1>2, <1>7, <1>9, <3>1
  \* A node without a place has an edge that no place has followed.
  <2>3. ASSUME NEW x \in C PROVE \E e \in ToSet(es) : e.to = x /\ e.from \in C
    <3>1. PICK q : q \in Open(es, queue, N + 1, 0, x)
        BY <1>4
    <3>2. q \in 1..Len(es) /\ es[q].to = x /\ q \notin Followed(es, queue, N + 1, 0)
        BY <3>1 DEF Open
    <3>3. es[q].from \in ns
        BY <3>2 DEF IsGraph
    <3>4. ASSUME NEW b \in 1..n, queue[b] = es[q].from PROVE FALSE
      <4>1. b < N + 1
          BY <1>2, <1>9
      <4>2. q \in Followed(es, queue, N + 1, 0)
          BY <3>2, <3>4, <4>1 DEF Followed, n
      <4>3. QED
          BY <3>2, <4>2
    <3>5. es[q].from \in C
        BY <3>3, <3>4
    <3>6. QED
        BY <1>5, <3>2, <3>5
  <2>4. Cyclic(ns, es)
    <3>1. C \in SUBSET ns
        OBVIOUS
    <3> HIDE DEF C
    <3>2. QED
        BY <2>2, <2>3, <3>1 DEF Cyclic
  <2>5. QED
      BY <2>1, <2>4 DEF answer
<1>10. QED
    BY <1>2, <1>7, <1>8, <1>9
=============================================================================
