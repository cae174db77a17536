CONSTANTS
  Senders = {s1, s2}
  Payloads <- MCPayloads
  Noise <- MCNoise
  Mtu = 4
  MaxFrames = 3
  MaxFaults = 2
SPECIFICATION Spec
INVARIANTS MtuArrives
SYMMETRY Threads
CHECK_DEADLOCK FALSE
