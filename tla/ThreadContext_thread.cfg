CONSTANTS
    MaxThread = 4
    Window = 2
    MaxRestarts = 1
    MaxUnderWay = 3
    Policies <- MCPolicies
SPECIFICATION Spec
CHECK_DEADLOCK FALSE
INVARIANTS
    NothingSkipped
    SpeaksWhenInvited
    NothingAnsweredTwice
    ContainsItsMessage
