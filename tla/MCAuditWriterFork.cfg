\* Replies of committed inserts get lost: the chain forks.
SPECIFICATION Spec
CONSTANTS
  Event = {e1, e2}
  Task = {t1, t2}
  NoTask = NoTask
  MaxRows = 3
  MayLoseReply = TRUE
  MayCrash = FALSE
INVARIANTS
  ChainVerifies
SYMMETRY Symmetry
CHECK_DEADLOCK FALSE
