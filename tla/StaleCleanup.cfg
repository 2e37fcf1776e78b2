SPECIFICATION FairSpec
CONSTANTS
    MaxSockets = 2
    Environment = {"drop"}
PROPERTY StaysRegistered
CHECK_DEADLOCK FALSE
