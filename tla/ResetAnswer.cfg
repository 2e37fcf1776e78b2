SPECIFICATION FairSpec
CONSTANTS
    None = None
    Evs = {e1}
    Tasks = {t1, t2, t3}
    ConnectorCount = 1
    MaxTransactions = 1
    Environment = {"reset"}
PROPERTY ResetIsAccepted
