\* Three keys, channels of one and two requests; any fetch may fail.
SPECIFICATION FairSession
CONSTANTS
  Symbol = {A, B}
  Event = {e1}
  Nothing = Nothing
  LastPage = 1
  Digit = {7}
  FocusCapacity = 1
  IntelCapacity = 2
  EventCapacity = 1
  MaxKeys = 3
INVARIANTS
  LoadingIsBacked
  RiskNamesItsSymbol
  StripFollowsFocus
PROPERTIES
  ImplementsViews
  LoadingEnds
  UnattendedLocks
CHECK_DEADLOCK FALSE
