\* Two request threads, failing commits and crashes; in turn and at once.
SPECIFICATION Spec
CONSTANTS
  Event = {e1, e2}
  Thread = {t1, t2}
  MaxRows = 2
  MaxUndone = 1
  Empty = Empty
  Garbled = Garbled
  MayFailCommit = TRUE
  MayCrash = TRUE
INVARIANTS
  RowsAreRooted
  ChainVerifiesInTurn
  AckedIsDurable
  ArchiveAfterCommit
  DualWrite
  ArchiveInOrder
PROPERTIES
  ImplementsAuditLog
SYMMETRY Symmetry
