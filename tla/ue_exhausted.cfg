\* One UE with one slot (15 in the code): a caller takes its session ids
\* from NewPDUSessionID until the slots run out.
CONSTANTS
    UEs = {u1}
    AMFs = {a1}
    AmfIds = {7}
    SessionIds = {1}
    NumSlots = 1
    ExtStates = {"Established", "Released"}
    Nil = Nil
    Unspecified = Unspecified
SPECIFICATION Spec
INVARIANT SessionIdsInSlots
