CONSTANTS
  Cause = {c1, c2}
  Junk = Junk
  Level = {2, 3}
  Losses <- SomeLosses
  SeqModulus = 3
SPECIFICATION Spec
INVARIANTS
  ValidIsCommitted
  EvidenceKept
PROPERTIES
  Recovers
