\* Buffers, renderbuffers, textures and samplers: created, bound, compared, read, dumped.
CONSTANTS
    Identifier <- MCIdentifier
    Commands <- MCObjectCommands
    Versions <- OnlyGL45
    TextureUnit = {0, 1}
    Binding = {0}
    MaxCommands = 6
    Assertions = TRUE
    NoCommand = NoCommand
SPECIFICATION Spec
INVARIANT DeclaredSizesAreReal
INVARIANT NothingStaysMapped
INVARIANT QueriesHaveATarget
INVARIANT NoOrphans
INVARIANT LockStep
INVARIANT OneScope
PROPERTY KeepsSingleAssignment
PROPERTY OnlyPixelReadsLeakFramebuffers
PROPERTY OtherUnitsKeepTheirTexture
CHECK_DEADLOCK FALSE
