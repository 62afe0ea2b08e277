\* One UE: a session established, then the UE context removed.
CONSTANTS
    UEs = {u1}
    AMFs = {a1}
    AmfIds = {7}
    SessionIds = {1}
    NumSlots = 1
    ExtStates = {"Established", "Released"}
    Nil = Nil
    Unspecified = Unspecified
SPECIFICATION Spec
INVARIANT NoEstablishedWithoutSession
