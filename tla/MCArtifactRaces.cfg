\* Overlapping requests, comparisons, resets and a restart.
\* The bounded supply of ids runs out, so a run may stop.
SPECIFICATION DeskSpec
CONSTANTS
  Contexts <- Counsel
  Projects <- MCProjects
  Groups <- MCGroups
  Creators <- MCAgents
  Agents <- MCAgents
  Tenants <- MCTenants
  Synthetic <- MCSynthetic
  ArtifactIds = {a1, a2}
  ItemIds = {i1, i2}
  Callers = {c1, c2}
  Production = FALSE
  LiveEnabled = TRUE
  MaxRestarts = 1
  None = None
SYMMETRY Symmetric
INVARIANTS
  DeskTypeOK
  DecisionBacked
  EventsTellStatus
CHECK_DEADLOCK FALSE
