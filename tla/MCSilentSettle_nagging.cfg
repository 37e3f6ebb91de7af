SPECIFICATION Spec
CONSTANTS
    scout = scout
    spare = spare
    look = look
    one = one
    two = two
    Lane = {one, two}
    NoTask = NoTask
    NoRow = NoRow
    Instance = {scout, spare}
    Started = {scout}
    Task = {look}
    Faults = {}
INVARIANTS
    NudgedOnceOnly
CHECK_DEADLOCK FALSE
