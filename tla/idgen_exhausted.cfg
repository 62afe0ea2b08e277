\* A generator of three ids (1..3), called six times.
CONSTANTS
    MinValue = 1
    MaxValue = 3
    MaxAllocate = 6
SPECIFICATION Spec
INVARIANT AllocatedIdsInRange
