\* ASSERT_SIMILAR_EMD_HISTOGRAM above its tolerance.
CONSTANTS
    Identifier <- MCIdentifier
    Commands <- MCCompareCommands
    Versions <- OnlyGL45
    TextureUnit = {0, 1}
    Binding = {0}
    MaxCommands = 3
    Assertions = TRUE
    NoCommand = NoCommand
SPECIFICATION Spec
INVARIANT ErrorsFailTheRun
CHECK_DEADLOCK FALSE
