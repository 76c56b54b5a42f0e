SPECIFICATION ValuesSpec
CONSTANTS
    Devices = {d1, d2}
    Mapping <- Templates
    Numbers <- Samples
    Text = text
    None = none
    MaxTime = 4
    Leaves <- SmallLeaves
    Targets <- SmallTargets
    Limit <- NarrowLimits
    Unit <- Eighths
    Floats <- SmallFloats
    Shortest <- ShortTexts
    Model <- SmallModel
    Deltas <- SmallDeltas
    GoValues <- SmallValues
    FormatArgs <- SmallArgs
    ArgValues <- SmallArguments
INVARIANTS
    SolutionSolves
    DeltaExact
    FormatStable
    MappingsAgree
PROPERTY SuppressedIsNearPublished
CHECK_DEADLOCK FALSE
