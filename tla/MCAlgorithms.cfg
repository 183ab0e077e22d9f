\* Scripts of four characters, buffers of three words, images of three pixels.
CONSTANTS
    Scripts <- MCScripts
    Builds = {TRUE, FALSE}
    Sizes = {4, 8, 12}
    Formats <- MCFormats
    MaxDiffering = 2
    Pixels <- MCPixels
    Channels = 2
    NumBins = 3
    Images <- MCImages
    Logs <- MCLogs
    LineOffset = 5
SPECIFICATION MCSpec
INVARIANT PlaceIsReal
INVARIANT OnlyLayoutIsSkipped
INVARIANT StringsEndAtTheirQuote
INVARIANT ReadsStayInBuffers
INVARIANT SkippedBytesAreIgnored
INVARIANT DifferencesAreReported
INVARIANT DumpedOnceInOrder
INVARIANT DistanceIsTheLeastCost
INVARIANT OnlyPlacesAreRewritten
PROPERTY PeekedTokenComesNext
PROPERTY CallsReturn
CHECK_DEADLOCK FALSE
