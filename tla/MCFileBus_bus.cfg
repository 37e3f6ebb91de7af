SPECIFICATION FairSpec
CONSTANTS
    fin = fin
    stg = stg
    del = del
    again = again
    peer = peer
    orchestrator = orchestrator
    driver = driver
    alice = alice
    bob = bob
    stage = stage
    final = final
    NoTask = NoTask
    NoFile = NoFile
    Msg = {fin, stg, del, peer}
    Envelope <- Letters
    Hub = orchestrator
    Runners = {driver}
    Specialist = {alice}
    StageTasks = {stage}
    Ticks = {1}
    Faults = {"crash", "caller", "lost", "follow", "pane"}
    MaxTries = 2
INVARIANTS
    TypeOK
    AcceptedIsStored
    OneHolder
PROPERTIES
    MailboxKept
    ClearedAfterShown
    PendingIsTaken
    ResurfacedAfterRestart
CHECK_DEADLOCK FALSE
