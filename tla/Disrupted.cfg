SPECIFICATION Spec
CONSTANTS
    None = None
    Evs = {e1, e2}
    Tasks = {t1, t2, t3}
    ConnectorCount = 2
    MaxTransactions = 2
    Environment = {"full_start", "drop", "reset", "fault"}
INVARIANT PlugAgreement
INVARIANT OwnEventsOnly
INVARIANT ServedByCharger
PROPERTY PlugNeverDisplaces
PROPERTY ImplementsLedger
SYMMETRY Symmetry
