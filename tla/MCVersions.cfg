\* OpenGL 4.2 has no shader storage buffers, OpenGL ES 2.0 no glReadBuffer either.
CONSTANTS
    Identifier <- MCIdentifier
    Commands <- MCOldCommands
    Versions <- OldVersions
    TextureUnit = {0}
    Binding = {0}
    MaxCommands = 3
    Assertions = TRUE
    NoCommand = NoCommand
SPECIFICATION Spec
INVARIANT CallsAreSupported
CHECK_DEADLOCK FALSE
