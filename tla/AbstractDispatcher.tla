------------------------- MODULE AbstractDispatcher -------------------------
(***************************************************************************)
(* What spec.md promises of the procedure dispatcher (4.4, 4.5, 5, 7),    *)
(* with no goroutines, no UEContext and no crash in it.                    *)
(*                                                                         *)
(* The peer sends frames on one association, which delivers them in       *)
(* order.  The dispatcher receives them in that order and answers every    *)
(* received frame once, in any order (5: the dispatcher must tolerate      *)
(* out-of-order and concurrent delivery).  An answer is the one builder    *)
(* the transition table names for the frame, or nothing: an ignored        *)
(* procedure or NAS message, a transition aborted by a missing IE, or a    *)
(* write that failed (7).  Nothing ends the dispatcher (7).                *)
(***************************************************************************)
EXTENDS Naturals, Sequences

CONSTANTS Frames, Nil, MaxFrames

VARIABLES inbox,     \* frames sent and not yet received
          received,  \* the frames received, in receive order
          answered,  \* numbers of the received frames already answered
          out        \* responses emitted at the I/O boundary, in order

avars == <<inbox, received, answered, out>>

Response(kind, k, session) == [kind |-> kind, answers |-> k, session |-> session]

\* The responses the transition table allows for the k-th frame f (4.5):
\* NGSetup, the SecurityModeCommand of a RegistrationRequest, the initial
\* context setup after SecurityModeComplete, and the setup and release
\* commands naming the PDU session the 5GSM request names (4.4, 8).
SpecResponses(k, f) ==
    CASE f.proc = "NGSetupRequest" ->
            {Response("NGSetupResponse", k, Nil)}
      [] f.proc = "InitialUEMessage" /\ f.nas = "RegistrationRequest" ->
            {Response("DownlinkNASTransport", k, Nil)}
      [] f.proc = "UplinkNASTransport" /\ f.nas = "SecurityModeComplete" ->
            {Response("InitialContextSetupRequest", k, Nil)}
      [] f.proc = "UplinkNASTransport" /\ f.nas = "ULNASTransport"
            /\ f.sm = "PDUSessionEstablishmentRequest" ->
            {Response("PDUSessionResourceSetupRequest", k, f.session)}
      [] f.proc = "UplinkNASTransport" /\ f.nas = "ULNASTransport"
            /\ f.sm = "PDUSessionReleaseRequest" ->
            {Response("PDUSessionResourceReleaseCommand", k, f.session)}
      [] OTHER -> {}

AInit ==
    /\ inbox = <<>>
    /\ received = <<>>
    /\ answered = {}
    /\ out = <<>>

\* The peer sends a frame.
Send(f) ==
    /\ Len(received) + Len(inbox) < MaxFrames
    /\ inbox' = Append(inbox, f)
    /\ UNCHANGED <<received, answered, out>>

\* The dispatcher takes the next frame off the association.
Receive ==
    /\ inbox # <<>>
    /\ inbox' = Tail(inbox)
    /\ received' = Append(received, Head(inbox))
    /\ UNCHANGED <<answered, out>>

\* The k-th frame is answered: one response of the table, or none.
Answer(k) ==
    /\ k \in DOMAIN received \ answered
    /\ \E r \in {<<>>} \cup {<<x>> : x \in SpecResponses(k, received[k])} :
         out' = out \o r
    /\ answered' = answered \cup {k}
    /\ UNCHANGED <<inbox, received>>

ANext ==
    \/ \E f \in Frames : Send(f)
    \/ Receive
    \/ \E k \in 1..MaxFrames : Answer(k)

\* Every frame delivered is received, and every received frame answered.
ASpec ==
    /\ AInit /\ [][ANext]_avars
    /\ WF_avars(Receive)
    /\ \A k \in 1..MaxFrames : WF_avars(Answer(k))

=============================================================================
