SPECIFICATION Spec
CONSTANTS
    N = 2
    Inputs <- ChainInputs
    Pool <- SharedPool
    AskForms <- PlainAsk
    Instance = {alice, bob}
    NoInstance = NoInstance
    alice = alice
    bob = bob
    Policies = {"stop"}
    Faults = {}
    AnswerWhileDriving = TRUE
    MaxMail = 2
    MaxAnswers = 1
PROPERTIES
    ResultsFinal
CHECK_DEADLOCK FALSE
