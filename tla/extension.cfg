CONSTANTS
    Jobs = {j1, j2}
    Invocations <- MCInvocations
    Frameworks <- MCFrameworks
    Sites <- MCSites
    AnalyticsHosts <- MCAnalytics
    Numbers <- MCNumbers
    Singular <- MCSingular
    Names <- MCNames
    Words <- MCWords
    Leftovers <- MCLeftovers
    CustomerPaths <- MCCustomerPaths
    MaxTime = 1
SYMMETRY Symmetry
SPECIFICATION Spec
INVARIANTS ManifestIsComplete ExitCodeIsHonest ScaffoldIsEarned NoiseStaysOut
PROPERTY CustomerFilesSurvive
CHECK_DEADLOCK FALSE
