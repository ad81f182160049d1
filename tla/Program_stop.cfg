CONSTANTS
    Environments <- MCTwoBots
    Requests = {}
    Slugs = {"alerts"}
    Tokens = {"t1"}
    Bodies = {}
    PublicChannels = {}
    PrivateGroups = {}
SPECIFICATION Spec
CHECK_DEADLOCK FALSE
INVARIANT StopIsNoFailure
