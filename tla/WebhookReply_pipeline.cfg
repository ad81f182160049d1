CONSTANTS
    Texts <- MCTexts
    MaxLines = 4
    MaxUpdates = 2
    Capacity = 1
SPECIFICATION FairSpec
CHECK_DEADLOCK FALSE
INVARIANTS
    ResultTellsTheTruth
    NoticeGivesWay
PROPERTIES
    PipelineSpec
    ShownGrows
    PipelineEnds
