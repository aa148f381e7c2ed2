\* An administrator who clears the switch of one action type and throws the
\* one of the whole tenant.
\* The bounded supply of ids and time runs out, so a run may stop.
SPECIFICATION Spec
CONSTANTS
  Requests <- OneRequest
  Contexts <- People
  Groups <- MCGroups
  PacketIds = {p1}
  Nonces = {n1}
  Callers = {c1}
  InitialRecords <- MCRecords
  FailTargets = {}
  PacketTTL = 2
  TokenTTL = 2
  MaxTime = 1
  MaxFaults = 0
  MaxSwitches = 2
  None = None
INVARIANTS
  TenantSwitchHolds
CHECK_DEADLOCK FALSE
