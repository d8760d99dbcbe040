CONSTANTS
    Jobs = {j1}
    Invocations <- SinglePageInvocations
    Frameworks <- MCFrameworks
    Sites <- MCSites
    AnalyticsHosts <- MCAnalytics
    Numbers <- MCNumbers
    Singular <- MCSingular
    Names <- MCNames
    Words <- MCWords
    Leftovers <- MCLeftovers
    CustomerPaths <- MCCustomerPaths
    MaxTime = 1
SPECIFICATION Spec
INVARIANT EveryPageGetsItsFile
CHECK_DEADLOCK FALSE
