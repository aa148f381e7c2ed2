\* Requests, budgets and retained artifacts, each with what can disturb it.
\* The end of time, of ids and of requests may leave no step.
SPECIFICATION Spec
CONSTANTS
  Contexts <- MCContexts
  Projects <- MCProjects
  Synthetic = "synthetic"
  Callers = {c1, c2}
  Limit = 2
  Window = 1
  TraceIds = {t1}
  Slots <- MCSlots
  Amounts <- MCAmounts
  Limits <- MCLimits
  ArtifactIds = {a1, a2}
  Retentions <- MCRetentions
  Paths = {p1}
  Workloads <- MCWorkloads
  MaxTime = 2
  MaxAdmitted = 4
  MaxFaults = 1
  None = None
  Purged = Purged
SYMMETRY Symmetric
INVARIANTS
  ControlsTypeOK
  WindowBound
  AnswersTraced
  UsageKept
  HeldStays
PROPERTIES
  RefusalsEarned
  KeptUntilExpiry
CHECK_DEADLOCK FALSE
