\* Three textures, two units.
CONSTANTS
    Identifier <- MCIdentifier
    Commands <- MCCommands
    Versions <- OnlyGL45
    TextureUnit = {0, 1}
    Binding = {0}
    MaxCommands = 5
    Assertions = TRUE
    NoCommand = NoCommand
SPECIFICATION BoundSpec
INVARIANT TexturesStayBound
CHECK_DEADLOCK FALSE
