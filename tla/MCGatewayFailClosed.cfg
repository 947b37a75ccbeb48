\* Only the gateway's audit fails: the level is changed all the same.
SPECIFICATION Spec
CONSTANTS
  Approver = {alice, bob}
  Blank = Blank
  Task = {t1, t2}
  NoTask = NoTask
  MaxRows = 2
  MayLoseReply = FALSE
  MayCrash = FALSE
  MayFailBackend = FALSE
  MayDrop = FALSE
INVARIANTS
  FailClosed
CHECK_DEADLOCK FALSE
