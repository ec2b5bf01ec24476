SPECIFICATION FairSpec
CONSTANTS
  hb = hb  ev = ev  unlink = unlink  reg = reg  old = old
  None = None
  Audit <- AuditOne
  Revoke <- RevokeOne
  Other <- NoRequest
  Legacy <- NoRequest
  Backoff = 1
  TornWrites = FALSE
PROPERTY RefusedNotQueuedForever
