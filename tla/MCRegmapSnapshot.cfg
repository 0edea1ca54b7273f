CONSTANTS
  Readers = {r1, r2}
  Length = 2
  Value = {v0, v1}
  Unmapped = Unmapped
  NoBuffer = NoBuffer
  ReaderMax = 1
  Modulus = 2
SPECIFICATION Spec
INVARIANTS
  SnapshotSafe
PROPERTIES
  HeldImageStable
  ImplementsRegister
