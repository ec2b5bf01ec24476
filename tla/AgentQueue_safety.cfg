SPECIFICATION FairSpec
CONSTANTS
  hb = hb  ev = ev  unlink = unlink  reg = reg  old = old
  None = None
  Audit <- AuditTwo
  Revoke <- RevokeOne
  Other <- NoRequest
  Legacy <- LegacyOne
  Backoff = 2
  TornWrites = TRUE
INVARIANTS
  KeptPromise
  AppendsToCleanFile
PROPERTIES FirstDeliveryInOrder EventuallyDelivered
