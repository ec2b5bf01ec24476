SPECIFICATION Spec
CONSTANTS
  w1 = w1  w2 = w2  laptop = laptop  kiosk = kiosk  acme = acme
  monday = monday  friday = friday
  None = None
  Workers <- TwoWorkers
  Devices <- TwoDevices
  Companies <- OneCompany
  Codes <- TwoCodes
  CompanyOf <- AllOfAcme
  MaxUses <- TwiceAndOnce
  MaxRequests = 3
SYMMETRY Symmetric
INVARIANTS
  UsesAreCounted
  OneActiveLink
  RequestsDoNotCollide
  LinkedIffAccepted
  LinkedIsNotWaiting
CHECK_DEADLOCK FALSE
