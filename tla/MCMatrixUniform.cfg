\* SET_UNIFORM of a matrix type in a Debug build.
CONSTANTS
    Identifier <- MCIdentifier
    Commands <- MCCommands
    Versions <- OnlyGL45
    TextureUnit = {0}
    Binding = {0}
    MaxCommands = 7
    Assertions = TRUE
    NoCommand = NoCommand
SPECIFICATION Spec
INVARIANT AssertionsNeverFail
CHECK_DEADLOCK FALSE
