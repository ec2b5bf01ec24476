SPECIFICATION Spec
CONSTANTS
  w1 = w1  w2 = w2  laptop = laptop  old = old  new = new
  Nobody = Nobody
  Workers <- TwoWorkers
  Devices <- OneDevice
  Versions <- TwoVersions
  MaxTokens = 2
  MaxTime = 2
INVARIANTS
  TypeOK
  RotationIsKept
  LastDescriptionCounts
PROPERTIES RegistryGrows EventuallyRegistered
CHECK_DEADLOCK FALSE
