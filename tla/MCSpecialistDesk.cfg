\* Each manager's records, two drafts and two review items over three days.
\* When ids, days and decisions have run out there is no step.
SPECIFICATION Spec
CONSTANTS
  Contexts <- MCContexts
  Projects = {"aurora", "tidepool"}
  Groups <- MCGroups
  Creators <- MCCreators
  Tenants = {"tessera"}
  Synthetic = "synthetic"
  ItemIds = {i1, i2}
  None = None
  LimitUnit = 10
  FreshFor <- MCFreshFor
  Records <- MCRecords
  DraftIds = {d1, d2}
  MaxDay = 2
  MaxRecords = 2
SYMMETRY Symmetric
INVARIANTS
  SpecialistTypeOK
  Reproducible
  SupportOnlyWanes
  ReadyIsEvidenced
  CovenantsWithinRounding
  SubmitterNeverDecides
  ImminentEscalated
CHECK_DEADLOCK FALSE
