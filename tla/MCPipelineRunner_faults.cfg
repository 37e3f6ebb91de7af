SPECIFICATION ResumedSpec
CONSTANTS
    N = 2
    Inputs <- ChainInputs
    Pool <- SharedPool
    AskForms <- ChoiceAsk
    Instance = {alice, bob}
    NoInstance = NoInstance
    alice = alice
    bob = bob
    Policies = {"stop"}
    Faults = {"crash", "pane", "drift", "inputs", "reserve", "spawn", "delegate", "wait", "rotten", "ack"}
    AnswerWhileDriving = FALSE
    MaxMail = 2
    MaxAnswers = 1
INVARIANTS
    TypeOK
    Coherent
    NoAutomaticRetry
    DispatchRecordedFirst
    ResultMatchesReport
PROPERTIES
    AckOnlyPersisted
    ResultsFinal
    AnswerIsSentOn
    DriverEnds
CHECK_DEADLOCK FALSE
