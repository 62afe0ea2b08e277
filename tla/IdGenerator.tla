----------------------------- MODULE IdGenerator -----------------------------
(***************************************************************************)
(* IDGenerator of src/pkg/types/id_generator.go: RAN UE NGAP ids or TEIDs  *)
(* handed out from [minValue, maxValue] as Standard + Offset.  Allocate    *)
(* holds the generator's Mutex for its whole body, so each call is one     *)
(* step whatever goroutines call it.                                       *)
(*                                                                         *)
(* Standard, Offset and Threshold are int64/uint64 in the code; the range  *)
(* here is a few ids, far from either width, so the conversions between    *)
(* them are the identity.                                                  *)
(***************************************************************************)
EXTENDS Naturals, Sequences

CONSTANTS
    MinValue,      \* minValue of NewIDGenerator
    MaxValue,      \* maxValue of NewIDGenerator
    MaxAllocate    \* bound on the number of Allocate calls

ASSUME /\ MinValue \in Nat /\ MaxValue \in Nat /\ MinValue <= MaxValue
       /\ MaxAllocate \in Nat

VARIABLES
    standard,    \* idGenerator.Standard
    offset,      \* idGenerator.Offset
    threshold,   \* idGenerator.Threshold
    allocated    \* the results of the Allocate calls so far: [id, err]

vars == <<standard, offset, threshold, allocated>>

\* NewIDGenerator(minValue, maxValue): Offset 0, and a Threshold of the
\* number of ids in the range.
NewIDGenerator(minValue, maxValue) ==
    [standard |-> minValue, offset |-> 0, threshold |-> maxValue - minValue + 1]

Init ==
    LET g == NewIDGenerator(MinValue, MaxValue)
    IN /\ standard = g.standard
       /\ offset = g.offset
       /\ threshold = g.threshold
       /\ allocated = <<>>

\* Allocate(): the error is set only when Offset equals Threshold; the id
\* Standard + Offset is returned and Offset incremented either way.
Allocate ==
    /\ Len(allocated) < MaxAllocate
    /\ allocated' = Append(allocated, [id |-> standard + offset,
                                       err |-> offset = threshold])
    /\ offset' = offset + 1
    /\ UNCHANGED <<standard, threshold>>

Next == Allocate

Spec == Init /\ [][Next]_vars

-----------------------------------------------------------------------------
\* Every id Allocate returns without an error lies in [minValue, maxValue],
\* the range NewIDGenerator was given: once the range is used up, every
\* call reports the exhaustion.  This is about Allocate's equality test of
\* Offset against Threshold and the increment it makes on the error path.
AllocatedIdsInRange ==
    \A i \in DOMAIN allocated :
        ~allocated[i].err => allocated[i].id \in MinValue .. MaxValue

=============================================================================
