\* Two devices (and a third read out of bounds), OpenGL, a Release build.
CONSTANTS
    MaxDevices = 2
    ArgumentLists <- MCArgumentLists
    Assertions = FALSE
    TargetsGL = TRUE
SPECIFICATION Spec
INVARIANT TypeOK
INVARIANT NothingLeaks
INVARIANT RunsOnItsOwnContext
INVARIANT NothingIsIgnored
PROPERTY KeepsItsPromise
CHECK_DEADLOCK FALSE
