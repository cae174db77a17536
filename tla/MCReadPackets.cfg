CONSTANTS
  ConnMax = 3
  Buffers = {b1, b2}
  tm = tm
  re = re
  pg = pg
  ft = ft
  Flows = {tm, pg}
  EphFlows = {e1}
  NoFlow = NoFlow
  NoBuf = NoBuf
  Backlog = 2
  RxLen = 2
  FifoLen = 2
  PortOf <- MCPortOf
  MaxFrames = 4
SPECIFICATION Spec
SYMMETRY BufferSymmetry
INVARIANT ReadPacketsFreed
CHECK_DEADLOCK FALSE
