\* Sign-ins, logouts and decisions while the directory changes.
\* Spent flows and ids, and the end of time, may leave no step.
SPECIFICATION PortalSpec
CONSTANTS
  Contexts <- OnePartner
  Projects <- MCProjects
  Groups <- MCGroups
  Creators <- MCCreators
  Tenants <- MCTenants
  Synthetic = "synthetic"
  ItemIds = {i1}
  Invited <- MCInvited
  Foreign <- MCForeign
  HomeTenant <- MCHome
  Movers <- MCInvited
  FlowIds = {f1, f2}
  Callers = {c1, c2}
  SessionHours = 1
  MaxTime = 1
  MaxFaults = 1
  None = None
SYMMETRY Symmetric
INVARIANTS
  QualifiedDecisions
  PortalTypeOK
  StrangersDropped
PROPERTIES
  DecisionsFinal
  RecentMembersDecide
CHECK_DEADLOCK FALSE
