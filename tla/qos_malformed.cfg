\* As qos_roundtrip: is every once-damaged payload rejected or decoded exactly?
CONSTANTS
    Nil = Nil
    Precedences = {7}
    CorruptBytes = {0, 80, 153, 255}
    MaxRules = 2
    MaxCorruptions = 1
SPECIFICATION Spec
INVARIANT MalformedPayloadRejected
CHECK_DEADLOCK FALSE
