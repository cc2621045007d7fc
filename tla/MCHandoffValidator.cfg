SPECIFICATION HandoffSpec
CONSTANTS
  Validators = {v1, v2}
  Contracts <- MCContracts
  Nonces = {n1, n2}
  Capabilities = {"read", "write", "rotate"}
  NoCapability = "none"
  NoContract = NoContract
  MaxTime = 1
  MaxResets = 1
  MaxCalls = 4
SYMMETRY Symmetry
CHECK_DEADLOCK FALSE
INVARIANTS ReplayNeedsRace NonceLedgerExact
