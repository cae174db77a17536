CONSTANTS
  Kinds <- MCKinds
  Buffers = 2
  Seconds = 1
  MaxUploads = 2
  MaxCommands = 2
  Positions <- MCPositions
  MaxMoves = 3
  Hosts = {"A", "B"}
  Blocks = 2
  MaxFiles = 2
  MaxAccepts = 2
  MaxCalls = 3
SPECIFICATION Spec
INVARIANTS TypeOK UploadsInOrder RetransmitsLatest BuffersAccounted AntennaFollows PortsClosed DownlinkOnce DescriptorsAccounted
CHECK_DEADLOCK FALSE
