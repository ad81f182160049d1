CONSTANTS
    TextParts = {"prompt text", "text 1", "text 2"}
    ToolParts = {"tool"}
    ReasoningParts = {"reasoning"}
    Messages = {"prompt", "answer"}
    Assistants = {"answer"}
    MessageOf <- MCMessageOf
    MaxText <- MCMaxText
    Capacity = 1
SPECIFICATION FairSpec
INVARIANTS
    NoEcho TextAddsUp
    ShowsWhatIsRendered NothingTwice ToolsShownOnce WholeAnswer
PROPERTY ReplyEnds
CHECK_DEADLOCK FALSE
