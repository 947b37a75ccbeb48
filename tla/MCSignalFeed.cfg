\* Two subscription slots, a kill that comes and goes, one failure of anything else.
SPECIFICATION FairSpec
CHECK_DEADLOCK FALSE
CONSTANTS
  Slot = {s1, s2}
  NoSlot = NoSlot
  ChannelSize = 1
  EventSize = 1
  CacheSize = 1
  Switches <- HardOnOff
  MaxBuilds = 2
  MaxSwitches = 2
  MaxFailures = 1
INVARIANTS
  ShownIsCached
  ConnectedIsTrue
  OneOrphanAtMost
  HardIsOver
PROPERTIES
  NeverBackwards
  OrphanEnds
  Recovers
