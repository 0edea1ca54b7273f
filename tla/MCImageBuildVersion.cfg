CONSTANTS
  Cause = {c1}
  Junk = Junk
  Level = {}
  Losses = {}
  SeqModulus = 1
  TreeContent = {0, 1}
  Version = {0, 1}
  Erased = 1
  IdentityAddress = 3
  MaxRevision = 2
  MaxBuilds = 2
  NoHeader = NoHeader
SPECIFICATION BuildSpec
INVARIANT
  Reproducible
