\* Three frames drawn from eleven kinds of session traffic (establishment and
\* release requests among them), handled by concurrent goroutines whose
\* writes may fail.  The process waits in SCTPRead once the peer is done.
CONSTANTS
    Nil = Nil
    Frames <- MCSessionFrames
    WriteMayFail = TRUE
    MaxFrames = 3
SPECIFICATION Spec
INVARIANT TypeOK
INVARIANT SetupAnswersEstablishmentRequest
PROPERTY EveryFrameHandled
CHECK_DEADLOCK FALSE
