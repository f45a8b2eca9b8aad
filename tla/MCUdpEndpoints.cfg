\* One nickname that moves between sockets while datagrams are in flight;
\* one socket comes from another address.
SPECIFICATION UdpSpec
CONSTANTS
    s1 = s1  s2 = s2  s3 = s3
    Names = {n1}
    Sessions = {s1, s2, s3}
    Tokens = {tokenA}
    NoSession = NoSession  NoName = NoName  NoPermit = NoPermit
    Absent = Absent
    IpOf <- TwoAddresses
    Capacity = 1
    GenMax = 3
    TransferMax = 2
    MaxLeases = 1
    MaxNow = 1
    TTL = 1
    MaxEpoch = 3
    Transports = {"Game"}
    Origins <- TwoPorts
INVARIANTS SidecarAgrees RoutesAreCurrent
PROPERTIES MigrationsEnd RouteIsStable
CHECK_DEADLOCK FALSE
