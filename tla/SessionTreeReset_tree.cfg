CONSTANTS
    Sessions = {root, s1, s2, s3, s4}
    Root = root
    MaxAttempts = 2
    MaxPrompts = 1
SPECIFICATION Spec
CHECK_DEADLOCK FALSE
SYMMETRY Symmetry
INVARIANTS
    LeftoversAreLate
    NoOrphans
PROPERTY AskedBeforeDeleted
