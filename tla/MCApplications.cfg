CONSTANTS
  Modulus = 24
  WdtPeriod = 6
  MaxBusy = 2
  Period = 5
  FallbackPeriod = 2
  Capacity = 4
  FifoDepth = 2
  DrainWait = 7
  CountModulus = 2
  Script <- FiveWrites
  RetainedPeriod = 3
  MaxResets = 2
  MaxHz = 32000000
  SafeHz = 4000000
  Baud = 115200
  StatusPolls = 3
  Requests = {32000000, 24000000}
  NoResult = NoResult
  Readers = {r1}
  Unmapped = Unmapped
  NoLatch = NoLatch
  ReaderMax = 1
  Base = 2
  MaxEvents = 3
SPECIFICATION FlashedSpec
INVARIANTS
  OnSchedule
  FaultReported
  BoardConsistent
PROPERTIES
  NeverEarly
  LedsTell
  TestIsSound
  ClockIsReported
  StatusConverges
CHECK_DEADLOCK FALSE
