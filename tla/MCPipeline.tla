----------------------------- MODULE MCPipeline -----------------------------
EXTENDS Pipeline, TLC

CONSTANTS a, b

\* The strict policy rejects the modules of b, and a project without modules.
MCPolicyPasses(q, m) == q = "strict" => m = a

\* The strict checks refuse b, and a only when it has come to the generator.
MCAccepts(c, stage, s) == c = "strict" => s = a /\ stage = "parse"

Symmetry == Permutations(Procs)
=============================================================================
