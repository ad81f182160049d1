CONSTANTS
    Prompts = {a, b}
    Resets = {r1}
    Sessions = {s1, s2}
    StreamedOutput = TRUE
    Faults = {"createFail", "refuse", "abortFail", "deleteFail"}
    Nil = Nil
SPECIFICATION FairSpec
CHECK_DEADLOCK FALSE
INVARIANTS
    AnswerIsComplete
PROPERTIES
    RegisterSpec
    EverythingEnds
