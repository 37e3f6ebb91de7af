SPECIFICATION Spec
CONSTANTS
    N = 3
    Inputs <- ForkInputs
    Pool <- OwnPool
    AskForms <- PlainAsk
    Instance = {alice, bob}
    NoInstance = NoInstance
    alice = alice
    bob = bob
    Policies = {"stop", "continue"}
    Faults = {"crash", "drift", "reserve", "spawn", "wait"}
    AnswerWhileDriving = FALSE
    MaxMail = 3
    MaxAnswers = 1
INVARIANTS
    DependenciesHonoured
    ReturnedIsSettled
PROPERTIES
    ContractKept
CHECK_DEADLOCK FALSE
