\* A session 2 established and released: the release command must name
\* the session the release request names.
CONSTANTS
    Nil = Nil
    Frames <- MCReleaseFrames
    WriteMayFail = FALSE
    MaxFrames = 2
SPECIFICATION Spec
PROPERTY ImplementsAbstractDispatcher
CHECK_DEADLOCK FALSE
