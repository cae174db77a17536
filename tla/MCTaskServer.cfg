CONSTANTS
  ConnMax = 3
  Buffers = {b1, b2}
  tm = tm
  re = re
  pg = pg
  ft = ft
  Flows = {tm, re, pg, ft}
  EphFlows = {e1, e2}
  NoFlow = NoFlow
  NoBuf = NoBuf
  Backlog = 1
  RxLen = 1
  FifoLen = 2
  PortOf <- MCPortOf
  MaxFrames = 4
SPECIFICATION FairSpec
INVARIANTS TypeOK OneOwner FlowsApart NoForgottenConn
PROPERTY QueuedPacketLeaves
CHECK_DEADLOCK FALSE
