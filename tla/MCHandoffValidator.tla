------------------------- MODULE MCHandoffValidator -------------------------
EXTENDS HandoffValidator, TLC

MCContract(n, expires, downstream, provenance) ==
    [nonce |-> n, supported |-> TRUE, signature |-> "good", expires |-> expires,
     digest |-> "match", requested |-> "write", authorized |-> {"read", "write"},
     downstream |-> downstream, provenance |-> provenance]

\* Per nonce a good contract that expires, one whose downstream handoff asks
\* for more, and one with a foreign provenance.
MCContracts ==
    UNION {{MCContract(n, 0, "none", "match"), MCContract(n, 1, "rotate", "match"),
            MCContract(n, 1, "read", "mismatch")} : n \in Nonces}

Symmetry == Permutations(Validators) \cup Permutations(Nonces)
=============================================================================
