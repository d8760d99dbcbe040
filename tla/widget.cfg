CONSTANTS
    Totals <- MCTotals
    Databases <- MCDatabases
    Defects <- MCDefects
    Tolerance <- MCTolerance
    MaxAttempts = 3
    MaxRounds = 2
    MaxOwn = 1
    MaxDrift = 1
SPECIFICATION Spec
INVARIANTS DefectIsFound NoFalseAlarm ReadIsFound
PROPERTY CheckEnds
CHECK_DEADLOCK FALSE
