\* One UE, two slots: session creation up to exhaustion, deletion with the
\* uint8 lookup, Remove, extended states, QoS rules, the semaphore.
CONSTANTS
    UEs = {u1}
    AMFs = {a1}
    AmfIds = {7}
    SessionIds <- MCSessionIds
    NumSlots = 2
    ExtStates <- MCExtStates
    Nil = Nil
    Unspecified = Unspecified
SPECIFICATION Spec
INVARIANT SlotFlagMatchesSession
INVARIANT QosRulesOnlyForLiveSessions
