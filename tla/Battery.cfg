SPECIFICATION FairSpec
CONSTANTS
    Percent = 3600
    EvMaxes = {150}
    ChargerMaxes = {0, 50, 350}
    Targets = {80, 100, 110}
    FirstSocs = {65, 92}
    TicksMin = 4
    TicksMax = 6
    MaxStarts = 2
INVARIANT TypeOK
INVARIANT EnergyAccounted
INVARIANT StopsAtTarget
INVARIANT MeterHonest
INVARIANT SessionSocFollows
PROPERTY ChargeEnds
