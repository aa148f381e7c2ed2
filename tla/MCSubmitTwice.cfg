\* Two requests submit one artifact.
\* The bounded supply of ids runs out, so a run may stop.
SPECIFICATION DeskSpec
CONSTANTS
  Contexts <- OneCounsel
  Projects <- MCProjects
  Groups <- MCGroups
  Creators <- MCAgents
  Agents <- MCAgents
  Tenants <- MCTenants
  Synthetic <- MCSynthetic
  ArtifactIds = {a1}
  ItemIds = {i1, i2}
  Callers = {c1, c2}
  Production = FALSE
  LiveEnabled = FALSE
  MaxRestarts = 0
  None = None
INVARIANTS
  OneItemPerArtifact
CHECK_DEADLOCK FALSE
