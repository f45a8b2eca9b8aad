\* One room and three racers over two attempt ids: leases, retries and dead
\* letters, and the ids run out at the start or within a batch.
CONSTANTS
  Rooms = {1}
  Users = {1, 2, 3}
  EpochMax = 1
  AttemptMax = 2
  RunMax = 1
  InstantMax = 3
  MaxLag = 0
  SettlementDelay = 1
  Lease = 1
  RetryBase = 1
  RetryMax = 2
  MaxFailures = 2
  MaxWorkers = 3
SPECIFICATION FairSpec
CHECK_DEADLOCK FALSE
INVARIANTS InFlightHasWorker
PROPERTIES SettledIsPaid SettlementResolves
