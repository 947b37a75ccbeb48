\* Two request threads append concurrently: the chain forks.
SPECIFICATION Spec
CONSTANTS
  Event = {e1, e2}
  Thread = {t1, t2}
  MaxRows = 2
  MaxUndone = 0
  Empty = Empty
  Garbled = Garbled
  MayFailCommit = FALSE
  MayCrash = FALSE
INVARIANTS
  ChainVerifies
SYMMETRY Symmetry
