---------------------------- MODULE MCDispatcher ----------------------------
(***************************************************************************)
(* Frames for the dispatcher runs.                                         *)
(***************************************************************************)
EXTENDS Dispatcher

Frame(proc, nas, sm, session, requestType) ==
    [proc |-> proc, nas |-> nas, sm |-> sm, session |-> session,
     requestType |-> requestType]

\* A NAS-less NGAP frame.
Ngap(proc) == Frame(proc, Nil, Nil, Nil, Nil)

\* A 5GSM message in a ULNASTransport in an UplinkNASTransport.
Sm(sm, session, requestType) ==
    Frame("UplinkNASTransport", "ULNASTransport", sm, session, requestType)

\* The frames of a registered subscriber's session traffic: setup, session
\* establishment (initial and non-initial request types, two ids), release
\* of session 1 (request and complete), deregistration and the outcomes
\* the dispatcher ignores.
MCSessionFrames ==
    { Ngap("NGSetupRequest"),
      Frame("InitialUEMessage", "RegistrationRequest", Nil, Nil, Nil),
      Frame("UplinkNASTransport", "RegistrationComplete", Nil, Nil, Nil),
      Sm("PDUSessionEstablishmentRequest", 1, "InitialRequest"),
      Sm("PDUSessionEstablishmentRequest", 2, "InitialRequest"),
      Sm("PDUSessionEstablishmentRequest", 2, "ExistingPduSession"),
      Sm("PDUSessionReleaseRequest", 1, Nil),
      Sm("PDUSessionReleaseComplete", 1, Nil),
      Frame("UplinkNASTransport", "DeregistrationRequest", Nil, Nil, Nil),
      Ngap("UEContextReleaseRequest"),
      Ngap("PDUSessionResourceSetupResponse") }

\* The frames of the registration of spec.md 8, a frame the outer NGAP
\* decoder rejects and an UplinkNASTransport whose NAS-PDU does not parse.
MCRegistrationFrames ==
    { Ngap("NGSetupRequest"),
      Frame("InitialUEMessage", "RegistrationRequest", Nil, Nil, Nil),
      Frame("UplinkNASTransport", "SecurityModeComplete", Nil, Nil, Nil),
      Ngap("InitialContextSetupResponse"),
      Ngap("Undecodable"),
      Frame("UplinkNASTransport", "Undecodable", Nil, Nil, Nil) }

\* Session establishment and release for session 2.
MCReleaseFrames ==
    { Sm("PDUSessionEstablishmentRequest", 2, "InitialRequest"),
      Sm("PDUSessionReleaseRequest", 2, Nil) }
=============================================================================
