SPECIFICATION FairSpec
CONSTANTS
    None = None
    Chargers = {k1}
    Evs = {e1, e2}
    ConnectorCount = 2
    Tasks = {t1, t2}
    MaxCrashes = 2
    Environment = {"crash"}
INVARIANT PlugsAgree
INVARIANT RowsMatch
PROPERTY RestartKeepsPlugs
PROPERTY ChargingEnds
