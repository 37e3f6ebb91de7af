SPECIFICATION Spec
CONSTANTS
    orchestrator = orchestrator
    scout = scout
    old = old
    new = new
    helper = helper
    NoLink = NoLink
    NoAsk = NoAsk
    first = first
    second = second
    Client = {old, new, helper}
    NameOf <- Names
    Hub = orchestrator
    Slot = {1}
    Ask = {first, second}
    Asker <- Askers
    Asked <- Askeds
    AllowPeers = FALSE
    MaxQueue = 1
    Faults = {"die", "broker", "prune", "slow"}
INVARIANTS
    TypeOK
    AnsweredByAsked
    EdgesSound
    EdgeIsWaitedFor
    ConnectedIsRegistered
CHECK_DEADLOCK FALSE
