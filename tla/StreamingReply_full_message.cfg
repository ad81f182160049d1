CONSTANTS
    TextParts = {"text 1", "text 2"}
    ToolParts = {}
    ReasoningParts = {}
    Messages = {"answer"}
    Assistants = {"answer"}
    MessageOf <- MCMessageOf
    MaxText <- MCMaxText
    Capacity = 1
SPECIFICATION FairSpec
INVARIANT RendersAFullMessage
CHECK_DEADLOCK FALSE
