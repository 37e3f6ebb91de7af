SPECIFICATION FairSpec
CONSTANTS
    fin = fin
    stg = stg
    del = del
    again = again
    peer = peer
    orchestrator = orchestrator
    driver = driver
    alice = alice
    bob = bob
    stage = stage
    final = final
    NoTask = NoTask
    NoFile = NoFile
    Msg = {del, again}
    Envelope <- Letters
    Hub = orchestrator
    Runners = {driver}
    Specialist = {alice}
    StageTasks = {stage}
    Ticks = {1}
    Faults = {}
    MaxTries = 2
PROPERTIES
    DelegateIsShown
CHECK_DEADLOCK FALSE
