\* Two requests; everything between client, gateway, backend and stores fails.
SPECIFICATION Spec
CONSTANTS
  Approver = {alice, bob}
  Blank = Blank
  Task = {t1, t2}
  NoTask = NoTask
  MaxRows = 2
  MayLoseReply = TRUE
  MayCrash = TRUE
  MayFailBackend = TRUE
  MayDrop = TRUE
INVARIANTS
  OkIsAuditedTwice
  OkWasServed
  ForwardedWasServed
SYMMETRY Symmetry
CHECK_DEADLOCK FALSE
