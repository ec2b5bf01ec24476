SPECIFICATION Spec
CONSTANTS
  w1 = w1  w2 = w2  laptop = laptop  kiosk = kiosk  acme = acme  beta = beta  office = office
  NoIp = NoIp
  Nothing = Nothing
  Workers <- TwoWorkers
  Devices <- TwoDevices
  Companies <- TwoCompanies
  Ips <- OneIp
  MaxPer <- OneEach
  Window = 1
  OtpTtl = 1
  SessionTtl = 1
  MaxFailed = 2
  MaxRequests <- RequestBounds
  MaxTexts = 3
  MaxEvents <- EventBounds
  MaxTime = 2
SYMMETRY Symmetric
INVARIANTS
  TypeOK
  RequestsAreLimited
  AttemptsAreCounted
  OneSessionPerCode
  OnlyAuditorsAreServed
CHECK_DEADLOCK FALSE
