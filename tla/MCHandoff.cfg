\* A memo and an agreement of every venture surveyed; one request at a time.
\* The bounded supply of ids and time runs out, so a run may stop.
SPECIFICATION HandoffSpec
CONSTANTS
  Contexts <- OnlyBob
  Projects <- MCProjects
  Groups <- MCGroups
  Creators <- MCAgents
  Agents <- MCAgents
  Tenants <- MCTenants
  Synthetic <- MCSynthetic
  ArtifactIds = {a1, a2}
  ItemIds = {i1}
  Callers = {c1}
  Production = FALSE
  LiveEnabled = FALSE
  MaxRestarts = 0
  Engagements <- Survey
  None = None
SYMMETRY Symmetric
INVARIANTS
  HandoffTypeOK
  DraftsRestOnAcceptance
  OnlyDecidedTerms
  PaperAgreesWithMemo
  PaperSelfContained
  OneEntityPerJob
  LadderIffDissentBlocks
CHECK_DEADLOCK FALSE
