CONSTANTS
  M = 16
  W = 1
  RxLen = 3
  Iss <- MCIss
  MaxSend <- MCManySend
  MaxSends = 4
  MaxNet = 2
SPECIFICATION Spec
INVARIANT NothingMissing
CHECK_DEADLOCK FALSE
