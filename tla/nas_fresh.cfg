\* A fresh UEContext (zero COUNTs, no context): activation, new-context
\* header, tampering, the peer re-keying, uplink decoding.
CONSTANTS
    IntegrityAlg = "NIA2"
    CipheringAlg = "NEA2"
    Starts <- MCStartFresh
    MaxUp = 4
    MaxDown = 3
    MaxTamper = 1
    MaxRekey = 1
SPECIFICATION Spec
INVARIANT DLCountTracksPeer
INVARIANT MacVerdictSound
INVARIANT DownlinkVerifies
