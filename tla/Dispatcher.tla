----------------------------- MODULE Dispatcher -----------------------------
(***************************************************************************)
(* The transport loop and the procedure dispatcher of src/main.go, with    *)
(* the builders of src/build.go they call.                                 *)
(*                                                                         *)
(* main reads frames from the one accepted association in order.  A frame  *)
(* the outer decoder rejects ends main, and so the process.  Every other   *)
(* frame is handed to a new goroutine with a fresh UEContext (InitTest),   *)
(* which runs end2end_serverHandler and writes at most one response with   *)
(* SendData.  The goroutines share nothing but the association, so each    *)
(* handler is one atomic step here, and the steps of different frames     *)
(* interleave in any order.  A panic in any goroutine ends the process.    *)
(*                                                                         *)
(* A frame is a record: the NGAP procedure, the NAS message it carries     *)
(* (Nil for none, "Undecodable" for bytes PlainNasDecode cannot parse),    *)
(* and for a ULNASTransport the 5GSM message, its PDU session id and its   *)
(* request type.  A response records its NGAP kind, the frame it answers,  *)
(* the PDU session id it names, and whether its NAS part is protected.     *)
(***************************************************************************)
EXTENDS Naturals, Sequences, FiniteSets

CONSTANTS Frames,        \* the frames the peer may send
          Nil,
          WriteMayFail,  \* SendData's write to the association may fail
          MaxFrames      \* frames the peer sends

VARIABLES inbox,     \* frames sent by the peer and not yet read (SCTP keeps order)
          received,  \* received[k]: the k-th frame main read
          pending,   \* numbers of the frames whose goroutine has not finished
          out,       \* responses written to the association, in write order
          alive      \* the process is running

vars == <<inbox, received, pending, out, alive>>

\* Outcomes of one goroutine: the process ends, or the responses it writes.
Crash == [crash |-> TRUE, responses |-> <<>>]
Silent == [crash |-> FALSE, responses |-> <<>>]
Reply(r) == [crash |-> FALSE, responses |-> <<r>>]

Response(kind, k, session, protected) ==
    [kind |-> kind, answers |-> k, session |-> session, protected |-> protected]

\* InitTest/InitTestUe: ue.Init and RGAttach leave CurrentAMF nil and
\* SecurityContextAvailable false, with NEA0/NIA0 selected.  Every frame
\* is handled with such a context, so nas.Encode returns the plain
\* encoding (security.go 24-25) and nas.Decode flags a MAC failure and
\* decodes the unciphered remainder (security.go 129-135).
FreshUECurrentAMF == Nil
FreshUESecurityContextAvailable == FALSE

\* nas.Decode, as the handlers see its result: the GMM message type, or
\* "nil" when PlainNasDecode cannot parse the payload and leaves GmmMessage
\* nil (the switch on GetMessageType then dereferences it), or "unknown"
\* when a parse that half succeeds yields a type no case names.
DecodeNas(f) ==
    IF f.nas = "Undecodable" THEN {"nil", "unknown"} ELSE {f.nas}

\* buildNGSetupResponse: a successful outcome of NG Setup with the AMF
\* name, served GUAMI list, relative capacity and PLMN support list given.
BuildNGSetupResponse(k) == Response("NGSetupResponse", k, Nil, FALSE)

\* sendNGSetupResponse: the fixed AMF name, GUAMI and PLMN support list for
\* PLMN 207/90 (NgapConvert's PlmnIdToNgap), built and encoded, then sent.
SendNGSetupResponse(k) == Reply(BuildNGSetupResponse(k))

\* BuildSecurityModeCommand: buildSecurityModeCommnad ends in
\* PlainNasEncode, and BuildDownlinkNasTransport wraps it as it is.
BuildSecurityModeCommand(k) ==
    Reply(Response("DownlinkNASTransport", k, Nil, FALSE))

\* BuildInitialContextSetupRequest copies ue.CurrentAMF.ServedGuamiList:
\* a nil dereference for the fresh UEContext.
BuildInitialContextSetupRequest(k) ==
    IF FreshUECurrentAMF = Nil THEN Crash
    ELSE Reply(Response("InitialContextSetupRequest", k, Nil, FALSE))

\* BuildRegistrationAccept calls itself before anything else: the stack
\* overflows, a fatal error no recover can stop.
BuildRegistrationAccept(k) == Crash

\* Faulty variant: the setup request built from ue.CurrentAMF, as
\* BuildInitialContextSetupRequest is.
BuildPDUSessionResourceSetupRequestUsesCurrentAMF(k, id) ==
    IF FreshUECurrentAMF = Nil THEN Crash
    ELSE Reply(Response("PDUSessionResourceSetupRequest", k, id, FALSE))

\* buildPDUSessionResourceSetupRequest(ue, id, nasPdu): the NGAP setup
\* request with the NAS PDU, one setup item for id (a fixed SST and
\* transfer) and a fixed UE aggregate maximum bit rate.
buildPDUSessionResourceSetupRequest(k, id, protected) ==
    Response("PDUSessionResourceSetupRequest", k, id, protected)

\* BuildPDUSessionResourceSetupRequest(ue, id): the establishment accept in
\* a DLNASTransport through nas.Encode, protected when the UE has a
\* security context, then the setup request around it.
BuildPDUSessionResourceSetupRequest(k, id) ==
    Reply(buildPDUSessionResourceSetupRequest(k, id, FreshUESecurityContextAvailable))

\* BuildPDUSessionResourceReleaseCommand(ue, id): the release command for id
\* in a DLNASTransport through nas.Encode, then the NGAP release command,
\* whose to-release item buildPDUSessionResourceReleaseCommand hard-codes
\* to session 1.
BuildPDUSessionResourceReleaseCommand(k, id) ==
    Reply(Response("PDUSessionResourceReleaseCommand", k, 1,
                   FreshUESecurityContextAvailable))

\* BuildUplinkNASTransport: the AMF and RAN UE NGAP ids, the NAS PDU and,
\* from agfUserLocationInfo, the WAGF user location of the UE's Global
\* Line ID (set by InitTestUe, so never the nil of an empty GlobalID).
BuildUplinkNASTransport(k) == Response("UplinkNASTransport", k, Nil, FALSE)

\* SendToAmf(amf, pkt): nothing is written for a nil AMF (nor for one
\* without an SCTP connection); a write error is only logged.
SendToAmf(amf, r) == IF amf = Nil THEN Silent ELSE Reply(r)

\* SendDeregistrationRequest: BuildDeregistrationRequest, then
\* SendUplinkNASTransport, which builds the Uplink NAS Transport before
\* SendToAmf looks at ue.CurrentAMF.
SendDeregistrationRequest(k) ==
    SendToAmf(FreshUECurrentAMF, BuildUplinkNASTransport(k))

\* Faulty variant: no request-type check.
HandleGMMMsgULNASTransportNoRequestTypeCheck(k, f) ==
    CASE f.sm = "PDUSessionEstablishmentRequest" ->
            BuildPDUSessionResourceSetupRequest(k, f.session)
      [] f.sm = "PDUSessionReleaseRequest" ->
            BuildPDUSessionResourceReleaseCommand(k, 1)
      [] f.sm = "PDUSessionReleaseComplete" -> SendDeregistrationRequest(k)
      [] OTHER -> Silent

\* end2end_handleGMMMsgULNASTransport: the request type is checked for
\* every 5GSM message but the two release messages; the release command
\* names session 1 whatever the request said.
HandleGMMMsgULNASTransport(k, f) ==
    CASE f.sm \notin {"PDUSessionReleaseRequest", "PDUSessionReleaseComplete"}
            /\ f.requestType # "InitialRequest" -> Silent
      [] f.sm = "PDUSessionEstablishmentRequest" ->
            BuildPDUSessionResourceSetupRequest(k, f.session)
      [] f.sm = "PDUSessionReleaseRequest" ->
            BuildPDUSessionResourceReleaseCommand(k, 1)
      [] f.sm = "PDUSessionReleaseComplete" -> SendDeregistrationRequest(k)
      [] OTHER -> Silent

\* handleUplinkNASTransport, for the NAS-PDU IE.
HandleUplinkNASTransport(k, f) ==
    { CASE m = "nil" -> Crash
        [] m = "SecurityModeComplete" -> BuildInitialContextSetupRequest(k)
        [] m = "ULNASTransport" -> HandleGMMMsgULNASTransport(k, f)
        [] OTHER -> Silent                 \* RegistrationComplete, Deregistration, others
      : m \in DecodeNas(f) }

\* handleInitialUEMessage, for the NAS-PDU IE.
HandleInitialUEMessage(k, f) ==
    { CASE m = "nil" -> Crash
        [] m = "RegistrationRequest" -> BuildSecurityModeCommand(k)
        [] OTHER -> Silent
      : m \in DecodeNas(f) }

\* handleInitialContextSetupResponse: the RAN UE NGAP id copied into the
\* UEContext, then BuildRegistrationAccept and SendData.
HandleInitialContextSetupResponse(k) == BuildRegistrationAccept(k)

\* end2end_serverHandler: the outcomes of handling the k-th frame f.
ServerHandler(k, f) ==
    CASE f.proc = "NGSetupRequest" -> {SendNGSetupResponse(k)}
      [] f.proc = "InitialUEMessage" /\ f.nas # Nil -> HandleInitialUEMessage(k, f)
      [] f.proc = "UplinkNASTransport" /\ f.nas # Nil -> HandleUplinkNASTransport(k, f)
      [] f.proc = "InitialContextSetupResponse" -> {HandleInitialContextSetupResponse(k)}
      [] OTHER -> {Silent}

-----------------------------------------------------------------------------
Init ==
    /\ inbox = <<>>
    /\ received = <<>>
    /\ pending = {}
    /\ out = <<>>
    /\ alive = TRUE

\* The peer sends a frame on the association.
PeerSend(f) ==
    /\ Len(received) + Len(inbox) < MaxFrames
    /\ inbox' = Append(inbox, f)
    /\ UNCHANGED <<received, pending, out, alive>>

\* Faulty variant: the goroutine numbered before the frame is counted.
ReadFrameNumberedEarly ==
    /\ alive
    /\ inbox # <<>>
    /\ inbox' = Tail(inbox)
    /\ received' = Append(received, Head(inbox))
    /\ IF Head(inbox).proc = "Undecodable"
       THEN alive' = FALSE /\ UNCHANGED pending
       ELSE pending' = pending \cup {Len(received)} /\ UNCHANGED alive
    /\ UNCHANGED out

\* One iteration of main's read loop: ReadData, lib_ngap.Decoder, and
\* either the return out of main or a goroutine for the frame.
ReadFrame ==
    /\ alive
    /\ inbox # <<>>
    /\ inbox' = Tail(inbox)
    /\ received' = Append(received, Head(inbox))
    /\ IF Head(inbox).proc = "Undecodable"
       THEN alive' = FALSE /\ UNCHANGED pending
       ELSE pending' = pending \cup {Len(received')} /\ UNCHANGED alive
    /\ UNCHANGED out

\* The goroutine of the k-th frame: InitTest, end2end_serverHandler and its
\* SendData, whose failure is logged and the response lost.
HandleFrame(k) ==
    /\ alive
    /\ k \in pending
    /\ \E o \in ServerHandler(k, received[k]) :
         /\ alive' = ~o.crash
         /\ \/ out' = out \o o.responses
            \/ WriteMayFail /\ o.responses # <<>> /\ UNCHANGED out
    /\ pending' = pending \ {k}
    /\ UNCHANGED <<inbox, received>>

Next ==
    \/ \E f \in Frames : PeerSend(f)
    \/ ReadFrame
    \/ \E k \in pending : HandleFrame(k)

\* The Go scheduler runs every runnable goroutine eventually, and main
\* reads whatever the association delivers.
Fairness ==
    /\ WF_vars(ReadFrame)
    /\ \A k \in 1..MaxFrames : WF_vars(HandleFrame(k))

Spec == Init /\ [][Next]_vars /\ Fairness

-----------------------------------------------------------------------------
TypeOK ==
    /\ inbox \in Seq(Frames)
    /\ received \in Seq(Frames)
    /\ pending \subseteq 1..Len(received)
    /\ \A i \in DOMAIN out : out[i].answers \in 1..Len(received)
    /\ alive \in BOOLEAN

\* Every PDUSessionResourceSetupRequest written answers a frame that asked
\* for exactly that session with request type InitialRequest (spec.md 8:
\* the setup item's PDUSessionID is the requested id).  This relates the
\* responses, written by goroutines in any order, to the frames they
\* answer; it is about end2end_handleGMMMsgULNASTransport's request-type
\* check and the id it passes to BuildPDUSessionResourceSetupRequest.
SetupAnswersEstablishmentRequest ==
    \A i \in DOMAIN out :
        out[i].kind = "PDUSessionResourceSetupRequest" =>
            LET f == received[out[i].answers]
            IN /\ f.proc = "UplinkNASTransport"
               /\ f.sm = "PDUSessionEstablishmentRequest"
               /\ f.requestType = "InitialRequest"
               /\ out[i].session = f.session

\* The refinement mapping: a frame is answered once its goroutine has
\* finished, and a response is seen without the protection flag of its
\* NAS part, which the abstract table leaves open.
Abstract == INSTANCE AbstractDispatcher WITH
    answered <- DOMAIN received \ pending,
    out <- [i \in DOMAIN out |->
              [kind |-> out[i].kind, answers |-> out[i].answers,
               session |-> out[i].session]]

\* The dispatcher implements the abstract one of spec.md 4.5: frames are
\* read in order, each goroutine answers its frame at most once with the
\* builder the transition table names for it (the setup and release
\* commands naming the requested session), and, under the scheduler's
\* fairness, every frame read is eventually answered.  This is about
\* main's read loop, the goroutine per frame, end2end_serverHandler's
\* dispatch and the ids the builders put in the response.
ImplementsAbstractDispatcher == Abstract!ASpec

\* No frame the peer sends ends the process (spec.md 7: no error in this
\* core terminates the process).  This is about the return out of main on
\* an outer decode error and about panics in the per-frame goroutines.
NoFrameTerminatesProcess == alive

\* Every frame the peer sends is eventually read and its goroutine
\* finishes, so the association keeps being served.  This is about main's
\* read loop and about every handler path ending, neither blocking nor
\* taking the process down with it.
EveryFrameHandled ==
    \A k \in 1..MaxFrames :
        (Len(received) + Len(inbox) >= k)
            ~> (Len(received) >= k /\ k \notin pending)

=============================================================================
