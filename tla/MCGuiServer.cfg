SPECIFICATION LiveSpec
CONSTANTS
  c1 = c1
  c2 = c2
  c3 = c3
  Clients = {c1, c2, c3}
  None = None
  MaxClients = 2
  BufferSize = 3
  Length <- MCLength
  Ends <- MCEnds
  MaxReplies = 1
  Room = 1
INVARIANTS TypeOK InOrder
PROPERTIES Answered Forgotten Telemetry
CHECK_DEADLOCK FALSE
