SPECIFICATION Spec
CONSTANTS
    None = None
    Chargers = {k1}
    Evs = {e1, e2}
    ConnectorCount = 2
    Tasks = {t1}
    MaxCrashes = 0
    Environment = {"fleet_changes"}
INVARIANT SimulatorSurvives
