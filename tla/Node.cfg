SPECIFICATION NodeSpec
CONSTANTS
    JsonKeys <- MCKeys
    Docs <- MCDocs
    MaxDepth = 5
    Reports <- MCReports
    InfoLists <- MCInfoLists
    Timeout = 1
    MaxNow = 1
INVARIANTS
    DeltaSettles
    ViewShowsReport
    ViewConsistent
    InfosSurvive
CHECK_DEADLOCK FALSE
