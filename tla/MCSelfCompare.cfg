\* ASSERT_EQUAL of a buffer with itself.
CONSTANTS
    Identifier <- MCIdentifier
    Commands <- MCBufferCommands
    Versions <- OnlyGL45
    TextureUnit = {0}
    Binding = {0}
    MaxCommands = 3
    Assertions = TRUE
    NoCommand = NoCommand
SPECIFICATION Spec
INVARIANT BuffersCanBeCompared
CHECK_DEADLOCK FALSE
