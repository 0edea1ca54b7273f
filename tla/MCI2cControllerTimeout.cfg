CONSTANTS
  Entries = 2
  MaxTransfer = 2
  PollLimit = 2
  Address = {0, 1, 2, 3, 4, 5, 6}
  Present = {2, 5}
  CalledAddress = {0, 2}
  FirstA = 4
  LastA = 6
  FirstB = 1
  LastB = 3
SPECIFICATION MCSpec
PROPERTY
  SclLowReported
