CONSTANTS
    Environments <- MCEnvironments
    Requests = {q1}
    Slugs = {"alerts", "my-bot-1", "nobody"}
    Tokens = {"t1", "t2", ""}
    Bodies <- MCBodies
    PublicChannels = {"general"}
    PrivateGroups = {"ops"}
SPECIFICATION FairSpec
CHECK_DEADLOCK FALSE
INVARIANTS
    StatusTellsTheTruth
    AnswerTellsTheTruth
PROPERTY EndsWhenToldOrFailed
