\* ASSERT_PIXELS and DUMP_RENDERBUFFER with two renderbuffers of different sizes.
CONSTANTS
    Identifier <- MCIdentifier
    Commands <- MCImageCommands
    Versions <- OnlyGL45
    TextureUnit = {0, 1}
    Binding = {0}
    MaxCommands = 3
    Assertions = TRUE
    NoCommand = NoCommand
SPECIFICATION Spec
INVARIANT PixelsAreReadAtOwnExtent
CHECK_DEADLOCK FALSE
