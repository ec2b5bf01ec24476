SPECIFICATION Spec
CONSTANTS
  laptop = laptop  desktop = desktop  acme = acme  beta = beta
  AnyDevice = AnyDevice
  Never = 1000
  Devices <- TwoDevices
  Companies <- TwoCompanies
  Own = acme
  Timeout = 1
  SessionEnd = 3
  Commands <- ExportOnly
  Filters <- LaptopOrAny
  Windows <- OneWindow
  Limits <- LimitOne
  AtStart <- TwoDevices
  LinkedAtStart <- LaptopLinked
  MaxChanges = 1
  MaxRows = 2
  MaxTime = 3
INVARIANT ActiveDevicesReported
CHECK_DEADLOCK FALSE
