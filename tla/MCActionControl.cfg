\* An action, its rollback and a rival under the action's key; two overlapping
\* calls; failed commits, restarts and switches thrown between any two
\* steps.
\* The bounded supply of ids and time runs out, so a run may stop.
SPECIFICATION Spec
CONSTANTS
  Requests <- RollbackRequests
  Contexts <- People
  Groups <- MCGroups
  PacketIds = {p1, p2}
  Nonces = {n1, n2}
  Callers = {c1, c2}
  InitialRecords <- MCRecords
  FailTargets = {}
  PacketTTL = 1
  TokenTTL = 1
  MaxTime = 1
  MaxFaults = 2
  MaxSwitches = 2
  None = None
SYMMETRY Symmetric
INVARIANTS
  TypeOK
  OneOutcome
  ApprovedByAnother
  StartedBeforeExpiry
  TrailTellsState
  EffectsAccounted
  EffectsChain
  OnlyStragglers
  ReceiptKeysUnique
PROPERTIES
  ImplementsGatedAction
CHECK_DEADLOCK FALSE
