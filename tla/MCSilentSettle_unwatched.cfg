SPECIFICATION FairSpec
CONSTANTS
    scout = scout
    spare = spare
    look = look
    one = one
    two = two
    Lane = {one}
    NoTask = NoTask
    NoRow = NoRow
    Instance = {scout, spare}
    Started = {scout}
    Task = {look}
    Faults = {}
PROPERTIES
    WatchedUntilReported
CHECK_DEADLOCK FALSE
