\* Two UEs with distinct AMF-UE-NGAP ids, two AMFs: attach, re-attach to
\* another AMF, store, detach and Remove in any interleaving.
CONSTANTS
    UEs = {u1, u2}
    AMFs = {a1, a2}
    AmfIds = {5, 6}
    SessionIds = {1}
    NumSlots = 1
    ExtStates = {"Established", "Released"}
    Nil = Nil
    Unspecified = Unspecified
SPECIFICATION Spec
SYMMETRY MCSymmetry
INVARIANT TypeOK
INVARIANT IndexEntriesPointBack
INVARIANT StoredUEsFindable
