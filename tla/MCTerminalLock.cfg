\* The user comes back to a locked screen.
SPECIFICATION SessionSpec
CONSTANTS
  Symbol = {A}
  Event = {e1}
  Nothing = Nothing
  LastPage = 0
  Digit <- AskingDigits
  FocusCapacity = 1
  IntelCapacity = 1
  EventCapacity = 1
  MaxKeys = 2
PROPERTY AnyKeyResumes
CHECK_DEADLOCK FALSE
