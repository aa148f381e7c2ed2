\* Every request that begins is finished; live comparison is switched off.
\* The bounded supply of ids runs out, so a run may stop.
SPECIFICATION FairDeskSpec
CONSTANTS
  Contexts <- Counsel
  Projects <- MCProjects
  Groups <- MCGroups
  Creators <- MCAgents
  Agents <- MCAgents
  Tenants <- MCTenants
  Synthetic <- MCSynthetic
  ArtifactIds = {a1}
  ItemIds = {i1, i2}
  Callers = {c1, c2}
  Production = FALSE
  LiveEnabled = FALSE
  MaxRestarts = 0
  None = None
PROPERTIES
  DecisionReachesArtifact
CHECK_DEADLOCK FALSE
