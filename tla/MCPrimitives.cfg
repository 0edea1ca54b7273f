CONSTANTS
  Capacity = 4
  Modulus = 8
  Byte = {b0, b1}
  NoByte = NoByte
  QueueCapacity = 2
  Address = {a0, a1}
  Value = {v0, v1}
  NoCommand = NoCommand
  Context = {0, 1, 2}
  WordModulus = 2
  MemorySize = 4
  OctetValues = 2
SPECIFICATION MCSpec
INVARIANTS
  RingSafe
  MaskedIffInside
  MemoryRight
PROPERTIES
  ImplementsFifo
  ImplementsQueue
  ImplementsAtomicWord
