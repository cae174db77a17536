CONSTANTS
  MaxEvents = 2
  gui = gui
  tcp = tcp
  Threads = {gui, tcp}
  GuiThread = gui
  Uplinks = {u1}
  Positions = {p1}
  f1 = f1
  i1 = i1
  Bands = {"tx"}
  Freqs = {f1}
  Ints = {i1}
  AsInt <- MCAsInt
  Sats = {s1}
  Modes = {"IDLE", "TRACKING"}
  None = None
  MaxClock = 4
SPECIFICATION Spec
INVARIANTS TypeOK AuditTrail Reported
PROPERTY ImplementsLog
CHECK_DEADLOCK FALSE
