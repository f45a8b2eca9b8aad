\* Two nicknames, three sockets, two moves, equipment writes.
SPECIFICATION Spec
CONSTANTS
    s1 = s1  s2 = s2  s3 = s3
    Names = {n1, n2}
    Sessions = {s1, s2, s3}
    Tokens = {tokenA}
    NoSession = NoSession  NoName = NoName  NoPermit = NoPermit
    IpOf <- OneAddress
    Capacity = 2
    GenMax = 4
    TransferMax = 3
    MaxLeases = 2
    MaxNow = 2
    TTL = 1
    Origins = {origin}
    MaxEpoch = 1
CONSTRAINT ClaimsOnly
SYMMETRY Interchangeable
INVARIANTS RegistryAgrees
PROPERTIES KeepsOwnership OwnerKeepsName
CHECK_DEADLOCK FALSE
