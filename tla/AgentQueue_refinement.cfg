SPECIFICATION Spec
CONSTANTS
  hb = hb  ev = ev  unlink = unlink  reg = reg  old = old
  None = None
  Audit <- AuditTwo
  Revoke <- RevokeOne
  Other <- OtherOne
  Legacy <- LegacyOne
  Backoff = 1
  TornWrites = FALSE
PROPERTY OutboxSpec
