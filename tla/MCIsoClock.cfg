SPECIFICATION Spec
CONSTANTS
  Days = 2
  DayLength = 3
INVARIANT ExpiredIsSeen
CHECK_DEADLOCK FALSE
