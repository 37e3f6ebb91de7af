SPECIFICATION FairSpec
CONSTANTS
    first = first
    second = second
    Pipeline = {first, second}
    NoPipeline = NoPipeline
    Faults = {"crash", "torn", "auth", "spawn", "pane"}
    MaxCrashes = 3
INVARIANTS
    TypeOK
    FinalReportOnce
    LockGuardsRun
    ClaimIsDurable
    DrivesOnlyClaimed
PROPERTIES
    FinalIsDelivered
CHECK_DEADLOCK FALSE
