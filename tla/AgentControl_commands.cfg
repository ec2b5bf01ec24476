SPECIFICATION Spec
CONSTANTS
  acme = acme  beta = beta  laptop = laptop  renamed = renamed
  None = None
  Unreadable = Unreadable
  Deployments <- FourDeployments
  Links <- SomeLinks
  Linked <- FirstLinks
  MaxScan = 1
INVARIANTS
  TypeOK
  StateIsConsistent
  ReportsAreOfTheDevice
  SwitchIsObeyed
  UnlinkedIsRevoked
  StateIsReadable
PROPERTIES KeepsReporting StopIsHonoured
CHECK_DEADLOCK FALSE
