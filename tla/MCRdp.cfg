CONSTANTS
  M = 16
  W = 1
  RxLen = 3
  Iss <- MCIss
  MaxSend <- MCMaxSend
  MaxSends = 2
  MaxNet = 2
SPECIFICATION Spec
INVARIANTS TypeOK OrderedOnce KeptUntilReceived
PROPERTY ImplementsChannels
CHECK_DEADLOCK FALSE
