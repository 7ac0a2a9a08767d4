CONSTANTS
  KBD_BUF_SIZE = 3
  Keys = {"lshift", "caps", "q", "slash", "kp_slash"}
  Repeating = {"q", "slash", "kp_slash", "lshift"}
  MaxEvents = 4
  EarlyKeys = FALSE
  FakeShifts = FALSE
SPECIFICATION FairSpec
INVARIANT KeyboardTypeOK
INVARIANT NoSleepWithInput
PROPERTY DecodesWhatWasTyped
PROPERTY ImplementsCharQueue
PROPERTY InputConsumed
CHECK_DEADLOCK FALSE
