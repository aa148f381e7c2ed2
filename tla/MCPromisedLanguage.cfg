\* A tag-along or a drag-along is promised and equal owners are drafted for.
\* The bounded supply of ids and time runs out, so a run may stop.
SPECIFICATION HandoffSpec
CONSTANTS
  Contexts <- OnlyBob
  Projects <- MCProjects
  Groups <- MCGroups
  Creators <- MCAgents
  Agents <- MCAgents
  Tenants <- MCTenants
  Synthetic <- MCSynthetic
  ArtifactIds = {a1, a2}
  ItemIds = {i1}
  Callers = {c1}
  Production = FALSE
  LiveEnabled = FALSE
  MaxRestarts = 0
  Engagements <- Selling
  None = None
SYMMETRY Symmetric
INVARIANTS
  PromisedLanguage
CHECK_DEADLOCK FALSE
