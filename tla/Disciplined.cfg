SPECIFICATION FairSpec
CONSTANTS
    None = None
    Evs = {e1, e2}
    Tasks = {t1, t2, t3}
    ConnectorCount = 2
    MaxTransactions = 2
    Environment = {"fault"}
INVARIANT TypeOK
INVARIANT SessionsMatch
INVARIANT SessionNamesItsEv
INVARIANT StatusHonest
PROPERTY ImplementsFairLedger
PROPERTY AutoStopCompletes
