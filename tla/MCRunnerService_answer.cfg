SPECIFICATION Spec
CONSTANTS
    first = first
    second = second
    Pipeline = {first, second}
    NoPipeline = NoPipeline
    Faults = {}
    MaxCrashes = 0
PROPERTIES
    AnswerResumes
CHECK_DEADLOCK FALSE
