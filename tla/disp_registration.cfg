\* The registration frames of spec.md 8, an undecodable NGAP frame and an
\* undecodable NAS-PDU.
CONSTANTS
    Nil = Nil
    Frames <- MCRegistrationFrames
    WriteMayFail = FALSE
    MaxFrames = 3
SPECIFICATION Spec
INVARIANT NoFrameTerminatesProcess
CHECK_DEADLOCK FALSE
