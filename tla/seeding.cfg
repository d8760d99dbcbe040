SPECIFICATION SeedingSpec
CONSTANTS
    Worker = {w1, w2}
    Kind <- AllKinds
    DbKind = {"tenant", "alarm"}
    DeletableKind = {"tenant"}
    Scenario <- Scenarios
    Api = {a1}
    MaxPosts = 1
    MaxId = 2
    MaxTests = 2
    MaxRestarts = 1
CHECK_DEADLOCK FALSE
INVARIANTS
    HandlesStayValid
    NothingOutlivesItsTest
PROPERTIES
    CleanupIsOwn
    SeededRowsGo
