SPECIFICATION Spec
CONSTANTS
    MaxTransactions = 3
    MaxValues = 2
    MaxReconnects = 2
    MaxCrashes = 2
INVARIANT TypeOK
INVARIANT ManagerMatchesRows
INVARIANT AckedIsStored
INVARIANT RowsTellTheTruth
INVARIANT ForgottenStaysForgotten
PROPERTY RowsOnlyAdvance
CHECK_DEADLOCK FALSE
