SPECIFICATION FairSpec
CONSTANTS
    None = None
    Evs = {e1}
    Tasks = {t1, t2}
    ConnectorCount = 1
    MaxTransactions = 1
    Environment = {"overlap", "full_start", "drop", "reset"}
INVARIANT ChargingIsPlugged
INVARIANT LockDiscipline
PROPERTY CallsComplete
PROPERTY StopsComplete
