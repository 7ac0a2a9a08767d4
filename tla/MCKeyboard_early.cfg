CONSTANTS
  KBD_BUF_SIZE = 3
  Keys = {"q"}
  Repeating = {"q"}
  MaxEvents = 2
  EarlyKeys = TRUE
  FakeShifts = FALSE
SPECIFICATION FairSpec
PROPERTY InputConsumed
CHECK_DEADLOCK FALSE
