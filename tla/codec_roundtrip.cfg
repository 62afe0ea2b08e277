\* Payloads of up to three whole rules (every operation code, every
\* component size), each then damaged at most once: a byte overwritten with
\* 0, 80, 0x99 (no component type) or 0xff, or the last byte cut off.  RG
\* contexts, NSSAI lists, PFCP IE values, PLMNs, TAI lists and GPRS Timer
\* 2 octets are fixed per state by MCCodecs.
CONSTANTS
    Nil = Nil
    Precedences = {7}
    CorruptBytes = {0, 80, 153, 255}
    MaxRules = 3
    MaxCorruptions = 1
SPECIFICATION CodecSpec
INVARIANT TypeOK
INVARIANT RoundTrip
INVARIANT LineIDRoundTrip
INVARIANT BuiltLineIDValid
INVARIANT AttachedUEPresentsItsGLI
INVARIANT NssaiListsDecode
INVARIANT RejectedNssaiSortedByCause
INVARIANT PfcpIEsRoundTrip
INVARIANT PlmnIdentityPerTS
INVARIANT TaiListDecodesEachTac
INVARIANT GPRSTimer2PerTS
CHECK_DEADLOCK FALSE
