CONSTANTS
    Terminals = {"one", "two"}
    Offers <- MCOffers
    Origin <- MCOrigin
    Sites <- MCSites
    Schema <- MCSchema
    Endpoints <- MCEndpoints
    MaxPages = 4
    MaxCommands = 4
    MaxEdits = 1
SPECIFICATION Spec
INVARIANTS ReportKeepsTrack CrawlIsBreadthFirst LocatorsFind EveryEntryHasItsFile
CHECK_DEADLOCK FALSE
