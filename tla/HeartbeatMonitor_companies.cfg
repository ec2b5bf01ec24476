SPECIFICATION Spec
CONSTANTS
  acme = acme  beta = beta  sched = sched  manual = manual
  None = None
  Companies <- TwoCompanies
  Kinds <- Alive
  Schedulers <- OneScheduler
  Endpoints <- Manual
  Deployments <- ManualOnly
  Timeout = 1
  ReportsEnd <- SomeReportsEnd
  MaxTime <- SomeMaxTime
  MaxPending = 1
INVARIANT ReportEndsEveryAbsence
