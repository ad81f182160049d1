CONSTANTS
    Sessions = {root, s1}
    Root = root
    MaxAttempts = 2
    MaxPrompts = 0
SPECIFICATION Spec
CHECK_DEADLOCK FALSE
INVARIANT TryingAgainHelps
