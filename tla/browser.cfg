SPECIFICATION Spec
CONSTANTS
    Worker = {w1, w2}
    Record = {"screenshot", "trace"}
    MaxTests = 2
    MaxCrashes = 1
SYMMETRY Workers
CHECK_DEADLOCK FALSE
INVARIANTS
    LeaksAreErrors
    ArtifactsTellFailure
    CrashCostsOneTest
    LoginOncePerSession
