\* A settlement that persists while the World quiesces.
CONSTANTS
  Rooms = {1}
  Users = {1}
  EpochMax = 1
  AttemptMax = 2
  RunMax = 1
  InstantMax = 3
  MaxLag = 0
  SettlementDelay = 1
  Lease = 1
  RetryBase = 1
  RetryMax = 2
  MaxFailures = 2
  MaxWorkers = 2
SPECIFICATION FairSpec
CHECK_DEADLOCK FALSE
PROPERTIES QuiescedSettlementDrains
