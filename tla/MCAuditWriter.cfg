\* Two handlers; crashes, failed flushes, lost replies.
SPECIFICATION FairSpec
CONSTANTS
  Event = {e1, e2}
  Task = {t1, t2}
  NoTask = NoTask
  MaxRows = 2
  MayLoseReply = TRUE
  MayCrash = TRUE
INVARIANTS
  RowsAreRooted
  ChainVerifiesWhenHeard
  AckedIsDurable
  CheckpointsAreBacked
  ManifestsAreRuns
PROPERTIES
  ImplementsAuditLog
  NoRowDropped
  WriteReturns
CHECK_DEADLOCK FALSE
