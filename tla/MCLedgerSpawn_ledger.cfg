SPECIFICATION Spec
CONSTANTS
    first = first
    second = second
    terminal = terminal
    left = left
    right = right
    worker = worker
    planner = planner
    twin = twin
    Worker = worker
    Planner = planner
    Hub = Hub
    NoSurface = NoSurface
    NoName = NoName
    Command = {first, second}
    Console = {terminal}
    Split = {left, right}
    Temporary = {twin}
    Role = {worker, planner}
    Kind <- Kinds
    MaxPanes = 2
    MaxCommands = 3
    MaxTwins = 1
    Faults = {"tree", "split", "send", "die"}
SYMMETRY Commands
INVARIANTS
    TypeOK
    SpawnRulesKept
    SurfacesUnique
CHECK_DEADLOCK FALSE
