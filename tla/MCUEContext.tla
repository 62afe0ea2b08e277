----------------------------- MODULE MCUEContext -----------------------------
(* Model-checking instance of UEContext.                                   *)
EXTENDS UEContext

\* The extended states the handlers store (ue.go PDUSessionState*)
MCExtStates == {"Established", "Released"}

\* Session ids callers pass: 0 (NewPDUSessionID when full), the slots 1 and 2,
\* and 257, which uint8() truncates to slot 1.
MCSessionIds == {0, 1, 2, 257}

\* UEs and AMFs are interchangeable.
MCSymmetry == Permutations(UEs) \cup Permutations(AMFs)
=============================================================================
