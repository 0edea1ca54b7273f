CONSTANTS
  Base = 2
  Pages <- TwoPages
  Version = {v0, v1}
  Unmapped = Unmapped
  NoLatch = NoLatch
  NoCommand = NoCommand
  QueueCapacity = 2
  CountModulus = 2
  Late <- RestartLate
  Faults = {}
SPECIFICATION Spec
INVARIANTS
  PointerFollowsWire
