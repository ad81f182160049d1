CONSTANTS
    Prompts = {a, b}
    Resets = {}
    Sessions = {s1, s2}
    StreamedOutput = TRUE
    Faults = {"createFail", "createLost", "openFail", "misread", "postLost", "sessionLost", "eof"}
    Nil = Nil
SPECIFICATION Spec
SYMMETRY Symmetry
CHECK_DEADLOCK FALSE
INVARIANTS
    TypeOK
    LockOwnership
    LockHasReleaser
    OneAnswerAtATime
    NewestIsCancellable
    AcceptedAtMostOnce
    BootstrappedAtMostOnce

    
