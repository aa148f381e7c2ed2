\* Two partners are signed in and one of them logs out.
\* Spent flows and ids, and the end of time, may leave no step.
SPECIFICATION PortalSpec
CONSTANTS
  Contexts <- TwoPartners
  Projects <- MCProjects
  Groups <- MCGroups
  Creators <- MCCreators
  Tenants <- MCTenants
  Synthetic = "synthetic"
  ItemIds = {}
  Invited <- MCInvited
  Foreign <- MCForeign
  HomeTenant <- MCHome
  Movers = {}
  FlowIds = {f1, f2}
  Callers = {c1}
  SessionHours = 1
  MaxTime = 0
  MaxFaults = 0
  None = None
PROPERTIES
  LogoutLeavesOthers
CHECK_DEADLOCK FALSE
