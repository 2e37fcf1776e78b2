SPECIFICATION Spec
CONSTANTS
    None = None
    Chargers = {k1}
    Evs = {e1, e2}
    ConnectorCount = 2
    Tasks = {t1, t2}
    MaxCrashes = 0
    Environment = {"delete_plugged", "delete_used", "fleet_changes"}
INVARIANT TypeOK
INVARIANT PoolsAreStored
INVARIANT OneEvPerConnector
SYMMETRY Symmetry
