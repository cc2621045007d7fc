------------------------------ MODULE Pipeline ------------------------------
(***************************************************************************)
(* Runs of the pipeline (pkg/pipeline/pipeline.go) over its result cache   *)
(* (internal/pipelinecache/cache.go) and under its kernel                  *)
(* (pkg/kernel/kernel.go).                                                 *)
(*                                                                         *)
(* A process makes one pipeline, with the cache it loads from a directory  *)
(* that all processes share, and calls Validate and Run on it any number   *)
(* of times; it may end, or be killed, and be followed by another one with *)
(* other languages and policies.  The cache maps a specification to a      *)
(* *Result: the map in memory and the running call share one object, the   *)
(* file holds what the object was when it was stored.  Of the NEIR model a *)
(* result holds which specification its modules come from and the          *)
(* languages; artifacts are known by the NEIR they were generated from.    *)
(* The checks of a call are its schema, fetched for each call, and the     *)
(* hooks around the parser and the generator: a call that finds what it    *)
(* needs in the cache makes none of them.                                  *)
(***************************************************************************)
EXTENDS Integers, FiniteSets, Functions

CONSTANTS Procs, Specs, None,
          Languages, Policies,     \* the configurations of a process
          Checks,                  \* the checks of a call: schema and hooks
          PolicyPasses(_, _),      \* policy, origin of the modules -> BOOLEAN
          Accepts(_, _, _),        \* checks, "parse" or "generate", specification
                                   \* -> BOOLEAN
          MaxSize,       \* entries of a cache (200 in helpers.go)
          MaxCalls       \* bound: calls over all processes

ASSUME PipelineAssumption ==
    /\ None \notin Specs
    /\ MaxSize \in Nat \ {0} /\ MaxCalls \in Nat

NEIR == [modules : Specs \cup {None}, lang : Languages]
Result == [neir : NEIR, artifacts : NEIR \cup {None}]

VARIABLES lang, policy,   \* process -> its configuration
          resolved,       \* process -> specification behind Pipeline.neirResolved
          entries,        \* process -> Cache.entries, a function on some Specs
          disk,           \* the files of the cache directory, likewise
          pc, kind, spec, \* process -> its call: stage, Validate or Run, input
          checks,         \* process -> the checks of its call
          result,         \* process -> the *Result of the call
          output,         \* process -> artifacts its last Run wrote, or None
          calls,
          \* History:
          crossed,        \* specifications with a call that found an entry
                          \* without modules that its process did not resolve last
          used            \* specification -> configurations it was called with

config == <<lang, policy>>
history == <<calls, crossed, used>>
request == <<kind, spec, checks>>
vars == <<config, resolved, entries, disk, pc, request, result, output, history>>

Empty == [s \in {} |-> None]
Put(f, s, r) == [x \in DOMAIN f \cup {s} |-> IF x = s THEN r ELSE f[x]]
Drop(f, s) == Restrict(f, DOMAIN f \ {s})
NoResult == [neir |-> [modules |-> None, lang |-> None], artifacts |-> None]

Init ==
    /\ lang \in [Procs -> Languages] /\ policy \in [Procs -> Policies]
    /\ resolved = [p \in Procs |-> None]
    /\ entries = [p \in Procs |-> Empty] /\ disk = Empty
    /\ pc = [p \in Procs |-> "idle"] /\ kind = [p \in Procs |-> "Run"]
    /\ spec = [p \in Procs |-> None] /\ checks = [p \in Procs |-> None]
    /\ result = [p \in Procs |-> NoResult]
    /\ output = [p \in Procs |-> None]
    /\ calls = 0 /\ crossed = {} /\ used = [s \in Specs |-> {}]
-----------------------------------------------------------------------------
Goes(p, from, to) == pc[p] = from /\ pc' = [pc EXCEPT ![p] = to]

\* The object of the call changes, and with it the entry of the cache.
Update(p, r) ==
    /\ result' = [result EXCEPT ![p] = r]
    /\ entries' = IF spec[p] \in DOMAIN entries[p]
                  THEN [entries EXCEPT ![p][spec[p]] = r] ELSE entries

\* Cache.Set: with MaxSize entries one is evicted first, file and all, even if
\* the key is not new (the scores of evictLRU mix hits and time: any entry may
\* have the lowest), then the entry is stored and saved, if the file can be
\* written: nobody hears of the error.
Victims(p) ==
    IF Cardinality(DOMAIN entries[p]) >= MaxSize THEN DOMAIN entries[p] ELSE {None}

Set(p, s, r) ==
    \E victim \in Victims(p) :
        /\ entries' = [entries EXCEPT ![p] = Put(Drop(@, victim), s, r)]
        /\ \E saved \in BOOLEAN :
               disk' = IF saved THEN Put(Drop(disk, victim), s, r) ELSE Drop(disk, victim)

\* executeWithKernel: the kernel admits a call if none is running, and refuses
\* it otherwise.  No service of the pipeline has a lifecycle that could fail.
Call(p, k, s, c) ==
    /\ Goes(p, "idle", "validate") /\ calls < MaxCalls
    /\ kind' = [kind EXCEPT ![p] = k] /\ spec' = [spec EXCEPT ![p] = s]
    /\ checks' = [checks EXCEPT ![p] = c]
    /\ calls' = calls + 1
    /\ used' = [used EXCEPT ![s] = @ \cup {[lang |-> lang[p], checks |-> c]}]
    /\ output' = [output EXCEPT ![p] = None]
    /\ UNCHANGED <<config, resolved, entries, disk, result, crossed>>

\* A stage fails, by its own error (an invalid specification among them) or by
\* a hook's, and the call returns the error; what it cached stays.  When the
\* checks of the stage do not accept the specification, it can do nothing else.
StageFails(p) ==
    /\ \E stage \in {"validate", "policy", "generate", "write"} : Goes(p, stage, "idle")
    /\ UNCHANGED <<config, resolved, entries, disk, request, result, output, history>>

Validated(p) == IF kind[p] = "Validate" THEN "idle" ELSE "materialize"

\* Cache.Get; without SetMaxAge, which no caller uses, entries do not expire.
\* The call is past the schema and the hooks of the parser, whatever they say.
CacheHit(p) ==
    /\ Goes(p, "validate", Validated(p)) /\ spec[p] \in DOMAIN entries[p]
    /\ result' = [result EXCEPT ![p] = entries[p][spec[p]]]
    /\ crossed' = IF entries[p][spec[p]].neir.modules = None /\ resolved[p] # spec[p]
                  THEN crossed \cup {spec[p]} ELSE crossed
    /\ UNCHANGED <<config, resolved, entries, disk, request, output, calls, used>>

\* Mutant: the resolved specification is only remembered once.
ValidateSpec_once(p) ==
    LET r == [neir |-> [modules |-> None, lang |-> lang[p]], artifacts |-> None] IN
    /\ Goes(p, "validate", Validated(p)) /\ spec[p] \notin DOMAIN entries[p]
    /\ Accepts(checks[p], "parse", spec[p])
    /\ resolved' = [resolved EXCEPT ![p] = IF @ = None THEN spec[p] ELSE @]
    /\ result' = [result EXCEPT ![p] = r] /\ Set(p, spec[p], r)
    /\ UNCHANGED <<config, request, output, history>>

\* validateWithoutKernel: the modules are taken out of the result, to be put
\* back by materializeNEIR, and the result is cached without them.
ValidateSpec(p) ==
    LET r == [neir |-> [modules |-> None, lang |-> lang[p]], artifacts |-> None] IN
    /\ Goes(p, "validate", Validated(p)) /\ spec[p] \notin DOMAIN entries[p]
    /\ Accepts(checks[p], "parse", spec[p])
    /\ resolved' = [resolved EXCEPT ![p] = spec[p]]
    /\ result' = [result EXCEPT ![p] = r] /\ Set(p, spec[p], r)
    /\ UNCHANGED <<config, request, output, history>>

\* materializeNEIR, then the execution graph of the modules.
Materialize(p) ==
    /\ Goes(p, "materialize", "policy")
    /\ IF resolved[p] = None \/ result[p].neir.modules # None
       THEN UNCHANGED <<result, entries>>
       ELSE Update(p, [result[p] EXCEPT !.neir.modules = resolved[p]])
    /\ UNCHANGED <<config, resolved, disk, request, output, history>>

\* Mutant: a result that has its artifacts is not evaluated again.
EvaluatePolicies_cached(p) ==
    /\ Goes(p, "policy", IF result[p].artifacts # None
                          \/ PolicyPasses(policy[p], result[p].neir.modules)
                         THEN "generate" ELSE "idle")
    /\ UNCHANGED <<config, resolved, entries, disk, request, result, output, history>>

\* runPolicyEval looks at the project and the numbers of modules and services.
EvaluatePolicies(p) ==
    /\ Goes(p, "policy", IF PolicyPasses(policy[p], result[p].neir.modules)
                         THEN "generate" ELSE "idle")
    /\ UNCHANGED <<config, resolved, entries, disk, request, result, output, history>>

\* runSchedule, and runGenerate with its hooks unless the cached result has
\* artifacts.
Generate(p) ==
    LET r == [result[p] EXCEPT !.artifacts = result[p].neir] IN
    /\ Goes(p, "generate", "write")
    /\ IF result[p].artifacts # None THEN UNCHANGED <<result, entries, disk>>
       ELSE /\ Accepts(checks[p], "generate", spec[p])
            /\ result' = [result EXCEPT ![p] = r] /\ Set(p, spec[p], r)
    /\ UNCHANGED <<config, resolved, request, output, history>>

\* runReview and runWriteArtifacts; Run returns the result, or an AfterRun
\* hook's error.
WriteArtifacts(p) ==
    /\ Goes(p, "write", "idle")
    /\ output' = [output EXCEPT ![p] = result[p].artifacts]
    /\ UNCHANGED <<config, resolved, entries, disk, request, result, history>>

\* The process ends or is killed, in the middle of Cache.Set too, which leaves
\* a file that does not parse.  The next one reads the files that do, all of
\* them: MaxSize does not limit loadFromDisk.
Restart(p) ==
    /\ \E torn \in {{}} \cup {{spec[p], victim} : victim \in Victims(p)} :
        /\ torn # {} => pc[p] \in {"validate", "generate"}
        /\ disk' = Restrict(disk, DOMAIN disk \ torn)
    /\ entries' = [entries EXCEPT ![p] = disk']
    /\ \E l \in Languages, q \in Policies : /\ lang' = [lang EXCEPT ![p] = l]
                                            /\ policy' = [policy EXCEPT ![p] = q]
    /\ resolved' = [resolved EXCEPT ![p] = None]
    /\ pc' = [pc EXCEPT ![p] = "idle"]
    /\ spec' = [spec EXCEPT ![p] = None] /\ checks' = [checks EXCEPT ![p] = None]
    /\ result' = [result EXCEPT ![p] = NoResult] /\ output' = [output EXCEPT ![p] = None]
    /\ UNCHANGED <<kind, history>>

Stage(p) ==
    \/ CacheHit(p) \/ ValidateSpec(p) \/ Materialize(p) \/ EvaluatePolicies(p)
    \/ Generate(p) \/ WriteArtifacts(p) \/ StageFails(p)

Next ==
    \E p \in Procs :
        \/ \E s \in Specs, k \in {"Validate", "Run"}, c \in Checks : Call(p, k, s, c)
        \/ Stage(p) \/ Restart(p)

Spec == Init /\ [][Next]_vars
-----------------------------------------------------------------------------
TypeOK ==
    /\ lang \in [Procs -> Languages] /\ policy \in [Procs -> Policies]
    /\ resolved \in [Procs -> Specs \cup {None}]
    /\ \A p \in Procs : pc[p] \notin {"idle", "validate"} => result[p] \in Result
    /\ DOMAIN disk \subseteq Specs
    /\ \A s \in DOMAIN disk : disk[s] \in Result

Fresh(p) == [modules |-> spec[p], lang |-> lang[p]]

\* One of these configurations has checks that accept the specification.
SomeAccept(callers, stage, s) == \E c \in callers : Accepts(c.checks, stage, s)

\* A run with the cache writes what a run without it would, also after other
\* specifications, evictions, failures, restarts and runs of other processes;
\* unless the specification was called with other languages (they are not part
\* of the key), or some call found the entry of an unfinished one, without
\* modules, in a process that had resolved another specification since, or none.
\* Where a run without the cache would write nothing, because the schema or a
\* hook of this call refuses the specification, another call's accepted it: at
\* the parser and at the generator, nothing reaches the output unchecked.
CachedEqualsFresh ==
    \A p \in Procs :
        output[p] # None =>
            /\ \/ output[p] = Fresh(p)
               \/ spec[p] \in crossed
               \/ \E c \in used[spec[p]] : c.lang # lang[p]
            /\ \A stage \in {"parse", "generate"} :
                   SomeAccept(used[spec[p]], stage, spec[p])

\* Nothing is written that the process's own policies reject, whatever the
\* policies were under which the artifacts were generated and cached; with
\* the second exception, under which the modules evaluated need not be those
\* behind the artifacts.
PoliciesGuardOutput ==
    \A p \in Procs :
        output[p] # None => \/ PolicyPasses(policy[p], output[p].modules)
                            \/ spec[p] \in crossed
=============================================================================
