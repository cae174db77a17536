CONSTANTS
  Senders = {"a", "b", "c"}
  Node <- MCNode
  Idents = 2
  Lengths = {2, 11}
  Elements = 2
  QueueSize = 2
  MaxPackets = 3
  MaxFaults = 2
SPECIFICATION FairSpec
INVARIANTS TypeOK RoutedWhole AllArrive BuffersKept
PROPERTY ElementsFreed
CHECK_DEADLOCK FALSE
