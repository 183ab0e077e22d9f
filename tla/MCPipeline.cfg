\* OpenGL 4.5, which has compute shaders, and OpenGL ES 2.0, which has one color attachment.
CONSTANTS
    Identifier <- MCIdentifier
    Commands <- MCCommands
    Versions <- NewAndOld
    TextureUnit = {0}
    Binding = {0}
    MaxCommands = 9
    Assertions = TRUE
    NoCommand = NoCommand
SPECIFICATION Spec
INVARIANT TypeOK
INVARIANT LockStep
INVARIANT ExecutorNeverMisses
INVARIANT OneScope
INVARIANT ChainOfShaders
INVARIANT ProgramsRunAsBuilt
INVARIANT AttachmentsAreDrawnTo
CHECK_DEADLOCK FALSE
