\* Numbers on and beyond each limit; lists of two entries, segments of four literals.
CONSTANTS
    Identifier <- MCIdentifier
    TextureUnit <- MCUnits
    Binding <- MCUnits
    TokensAt <- MCTokensAt
    MaxList = 2
    MaxLiterals = 4
    MaxValues = 2
    UINT8_MAX = 0
    INT_MAX = 4
    UINT32_MAX = 8
    LONG_MAX = 9
SPECIFICATION Spec
INVARIANT TypeOK
INVARIANT BuiltFromGivenValues
INVARIANT ProducesScripts
INVARIANT AttachmentsAreOneToOne
PROPERTY BuffersAreAsDeclared
PROPERTY ParseEnds
CHECK_DEADLOCK FALSE
