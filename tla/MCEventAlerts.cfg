\* Three events, of which a tick sees two; the list changes while it is read.
SPECIFICATION FairSpec
CONSTANTS
  Events = 3
  Severities = 2
  Scores = 2
  PageSize = 2
  MaxChanges = 2
  Subscriber = {s1}
  AlertLimit = 2
  Floor = 2
  Kept = {1}
  ChannelSize = 1
  MaxFailures = 1
INVARIANTS
  PagingIsExact
  AlertedOnce
  SeenArrives
PROPERTIES
  AlarmArrives
  OrphanEndsOnNews
