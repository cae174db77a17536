CONSTANTS
  Prios = 2
  QueueLength = 2
  Writers = {w1, w2}
  Deliverer = w1
  Readers = {r1, r2}
  Router = r1
  MaxPackets = 4
  MaxFlushes = 1
SPECIFICATION Spec
INVARIANTS TypeOK EventPerPacket OneFate
PROPERTY InPriority
CHECK_DEADLOCK FALSE
