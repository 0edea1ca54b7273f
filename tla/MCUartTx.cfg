CONSTANTS
  Capacity = 2
  Modulus = 4
  Byte = {b0, b1}
  NoByte = NoByte
  FifoDepth = 2
  FifoLevel = 1
  MaxWrite = 3
SPECIFICATION Spec
INVARIANTS
  NoFifoOverrun
  NoLostWakeup
PROPERTIES
  ImplementsLine
  GoesQuiet
