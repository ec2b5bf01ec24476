SPECIFICATION FairSpec
CONSTANTS
  acme = acme  beta = beta  sched = sched  manual = manual
  None = None
  Companies <- OneCompany
  Kinds <- Everything
  Schedulers <- OneScheduler
  Endpoints <- Manual
  Deployments <- SomeDeployments
  Timeout = 1
  ReportsEnd <- SomeReportsEnd
  MaxTime <- SomeMaxTime
  MaxPending = 2
INVARIANTS
  TypeOK
  AbsenceIsReal
  AbsencesAreSeparate
  RecoveryIsPaired
  LostMeansSilent
PROPERTY AbsenceNoticed
