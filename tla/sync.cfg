CONSTANTS
    Versions <- MCVersions
    Histories <- MCHistories
    Checkout <- MCCheckout
    TempDir <- MCTempDir
    ReportFiles = {"r1", "r2"}
    CommandLines <- MCCommandLines
    AnalysisOf <- MCAnalysisOf
    MaxCommands = 2
SPECIFICATION Spec
INVARIANTS EveryTestHasGuidance InventoryIsExact
    ReportIsOfItsFiles FailureKeepsReports OnlyMaterializeLeavesTemp
PROPERTY CommandEnds
CHECK_DEADLOCK FALSE
