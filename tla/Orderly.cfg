SPECIFICATION FairSpec
CONSTANTS
    MaxSockets = 4
    Environment = {"drop"}
INVARIANT TypeOK
INVARIANT RegisteredIsServed
INVARIANT RegistryMatches
INVARIANT OneHeartbeat
PROPERTY ClosedIsForgotten
PROPERTY ConnectReturns
CHECK_DEADLOCK FALSE
