\* The buffers of MCAlgorithms.cfg, without scripts, images and logs.
CONSTANTS
    Scripts = {}
    Builds = {TRUE}
    Sizes = {4, 8, 12}
    Formats <- MCFormats
    MaxDiffering = 2
    Pixels <- MCPixels
    Channels = 2
    NumBins = 3
    Images = {}
    Logs = {}
    LineOffset = 5
SPECIFICATION MCSpec
INVARIANT ByteEntriesAreCompared
CHECK_DEADLOCK FALSE
