\* Long-running contexts about to wrap the 8-bit SQN (COUNT 254), and the
\* SQN, the 16-bit overflow and the 24-bit COUNT together (COUNT 2^24-2).
CONSTANTS
    IntegrityAlg = "NIA2"
    CipheringAlg = "NEA2"
    Starts <- MCStartsNearWrap
    MaxUp = 4
    MaxDown = 4
    MaxTamper = 1
    MaxRekey = 0
SPECIFICATION Spec
INVARIANT TypeOK
INVARIANT DLCountTracksPeer
INVARIANT MacVerdictSound
INVARIANT DownlinkVerifies
