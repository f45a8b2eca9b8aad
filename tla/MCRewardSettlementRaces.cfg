\* Two rooms, two races of one user a restart between or within them, and late instants.
CONSTANTS
  Rooms = {1, 2}
  Users = {1}
  EpochMax = 2
  AttemptMax = 3
  RunMax = 2
  InstantMax = 4
  MaxLag = 1
  SettlementDelay = 0
  Lease = 1
  RetryBase = 1
  RetryMax = 2
  MaxFailures = 3
  MaxWorkers = 2
SPECIFICATION Spec
CHECK_DEADLOCK FALSE
INVARIANTS LanesAgree PaidOnce NeverStale RetryableHasAttempt
