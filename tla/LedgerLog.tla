----------------------------- MODULE LedgerLog -----------------------------
(***************************************************************************)
(* The queries of internal/controlplane/ledger.go over a snapshot of the   *)
(* ledger's events, as predicates on a sequence of event records.          *)
(***************************************************************************)
EXTENDS Sequences, Integers

\* Ledger.Decision scans from the end: event i is the latest authorization
\* decision recorded for d.  No such i exists when the scan finds nothing.
IsDecision(log, d, i) ==
    /\ i \in DOMAIN log
    /\ log[i].type = "AUTHORIZATION_DECISION" /\ log[i].dec = d
    /\ \A j \in DOMAIN log :
         log[j].type = "AUTHORIZATION_DECISION" /\ log[j].dec = d => j <= i

\* Ledger.HasExecution
HasExecution(log, d) ==
    \E i \in DOMAIN log : log[i].type = "EXECUTION_ALLOWED" /\ log[i].dec = d
=============================================================================
