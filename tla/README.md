# TLA+ models of sim-amf

sim-amf is a protocol simulator for the network side of a 5G mobility
peer. It accepts an SCTP association and decodes NGAP PDUs. It tunnels NAS
messages inside them and answers each procedure with a PDU built by
`build.go`. This directory holds TLA+ models of the parts of `src/` whose
behaviour depends on state and ordering, together with the TLC
configurations that check them.

## The system's parts and how they interact

| part | source | state | operations |
|---|---|---|---|
| NAS replay counter | `pkg/types/counter.go` | one 32-bit word holding the 24-bit COUNT (16-bit overflow, 8-bit SQN) | `MaskTo24Bits`, `Set`, `Get`, `AddOne`, `GetSQN`, `SetSQN`, `GetOverflow`, `SetOverflow` |
| NAS security codec | `pkg/nas/security.go` | `ULCount`, `DLCount`, `SecurityContextAvailable`, `MacFailed`, algorithms and keys of a `UEContext` | `Encode` (downlink: cipher, SQN, MAC, header, `ULCount++`), `Decode` (uplink: new-context reset, wrap detection, MAC check, decipher) |
| UE context | `pkg/context/ue.go` | ids, PDU-session slots 1..15, session and extended-state maps, QoS-rule map, current/previous AMF, deregistration semaphore, timers | `Init`, `RGAttach`, `InitNasSecurityCapability`, `Remove`, `NewPDUSessionID`, `CreatePDUSession`, `DeletePDUSession`, `AttachAMF`, `DetachAMF`, extended-state stores, QoS-rule store/delete, `Enable/DisableIntegrityProtection` |
| AMF context | `pkg/context/amf.go` | `sync.Map` AMF-UE-NGAP-id → UE, TNL associations, overload flag | store/load/delete UE, TNL add/find/delete, overload start/stop, GUAMI compare |
| Authorized QoS rules codec | `pkg/types/authorized_qos_rules.go` | none (pure) | `DecodeAuthorizedQosRules`, `DecodePacketFilterComponents` |
| NGAP/NAS builders | `build.go` | reads the UE context, clears `PreviousAMF`, advances `ULCount` through `Encode` | one builder per procedure |
| dispatcher and I/O loop | `main.go` | one fresh `UEContext` per received frame | read loop spawning a goroutine per frame; `end2end_serverHandler` and the handlers it calls |
| id generator | `pkg/types/id_generator.go` | `Standard`, `Offset`, `Threshold` under a mutex | `NewIDGenerator`, `Allocate` (unused by `main`) |
| NAS/NGAP value conversions | `pkg/util/conversion.go` | none (pure) | `NasSnssaiToModels`, `NasRejectedSnssaiToModels`, the Allowed, Configured and Rejected NSSAI list decoders, `NasTaiListToModels`, `GPRSTimer2ContentToSeconds`, `PlmnIdToNgap`, the six NGAP bit string conversions (not modelled) |
| RG context and line identity | `pkg/types/rg_context.go`, `InitGlobalLineID` of `pkg/context/ue.go` | none (pure) | `Valid`; building or parsing the Line ID, GLI and GLI SUPI |
| PFCP IE codecs | `free5gc/lib/pfcp/pfcpType/MACAddress.go`, `QFI.go`, `CasaLBUSliceID.go` | none (pure) | `MarshalBinary`, `MarshalTo`, `MarshalLen`, `UnmarshalBinary`, the flag tests |

`main.go` reads frames from the association and hands every frame to a
new goroutine with a freshly initialised `UEContext`. The handler decodes
the NAS PDU with `nas.Decode` and calls one builder. The builders that
carry protected NAS (`BuildDLNASTransport`, `BuildDeregistrationRequest`)
go through `nas.Encode`, which advances the context's `ULCount`. The NAS
security codec therefore couples a UE context, the builders and the
handlers. It was the part modelled first.

## Modules

| module | models | state | actions |
|---|---|---|---|
| `NasCount` | `counter.go` | none (operators) | one operator per method of `types.Count` |
| `NasSecurity` | `security.go`, the security fields of `ue.go`, the NAS-encoding builders of `build.go` | `ulCount`, `dlCount`, `secCtx`, `macFailed`, and the peer's COUNTs and messages | `EnableIntegrityProtection`, `DisableIntegrityProtection`, `BuildDLNASTransport`, `BuildDeregistrationRequest`, `DecodeUplink`; peer: `PeerSend`, `PeerActivate`, `PeerReceive`, `TamperUplink` |
| `UEContext` | `ue.go`, `amf.go` | per UE: id, attached AMF, slot flags, sessions, extended states, QoS rules, Establishing flag, semaphore; per AMF: the UE index | `Init`, `SetAmfUeNgapId`, `AttachAMF`, `DetachAMF`, `StoreUEContextAMFUENGAPID`, `EmptyUEContext`, `CreatePDUSession`, `DeletePDUSession`, `Remove`, the extended-state and QoS-rule stores, `EstablishmentEnable/Disable`, `Take/GiveBinarySemaphoreDeregistration` |
| `IdGenerator` | `id_generator.go` | `standard`, `offset`, `threshold`, the results returned so far | `Allocate` (one step: it holds the mutex throughout) |
| `QosRules` | `authorized_qos_rules.go` | none (recursive operators) | `DecodeAuthorizedQosRules` and its loops, plus a reference encoder written from the rule grammar of `spec.md` 4.3/4.4 |
| `Dispatcher` | `main.go` and the builders of `build.go` it calls | the peer's unread frames, the frames read, the goroutines still running, the responses written, whether the process is alive | `PeerSend`, `ReadFrame` (one read-loop iteration), `HandleFrame(k)` (the goroutine of frame k) |
| `AbstractDispatcher` | what `spec.md` 4.4, 4.5, 5 and 7 promise of the dispatcher (written from the spec, not the code) | frames sent, frames received, frames answered, responses | `Send`, `Receive`, `Answer(k)` |
| `LineIdentity` | `rg_context.go`, `pdu_session_type.go`, `InitGlobalLineID` and its byte helpers in `ue.go` | none (operators) | `Valid`, `BuildLineID`, `BuildGLISUPI`, `ParseGLISUPI`, `Base64`, `InitGlobalLineID`, `InitMobileIdentity`, `RGAttach`, `InitTestUe` |
| `NssaiCodec` | the NAS NSSAI decoders of `conversion.go` | none (recursive operators) | `NasSnssaiToModels`, `NasRejectedSnssaiToModels`, `NasAllowed/Configured/RejectedNssaiToModels` |
| `NgapConvert` | `PlmnIdToNgap`, `NasTaiListToModels` and `GPRSTimer2ContentToSeconds` of `conversion.go` | none (operators) | `PlmnIdToNgap`, `HexDecode` (`hex.DecodeString`), `NasTaiListToModels` with its loop `TacsFrom` and `PlmnIDToString` (free5gc `nasConvert`), `GPRSTimer2ContentToSeconds` and its constants |
| `PfcpTypes` | the MAC Address, QFI and Casa LBU slice id PFCP IEs | none (recursive operators) | `Has` (the four flag tests), `MarshalLen`, `MarshalBinary`/`MarshalFrom`, `ParseMACAddress`/`UnmarshalFrom`, the QFI and LBU slice id marshal and unmarshal |

Notes on each module:

* `NasCount`: a COUNT is a natural number, and every mask and shift is
  written as the arithmetic it performs.
* `NasSecurity`:
  * `Encode` translates `nas.Encode` and `Decode` translates `nas.Decode`.
    `ReceiveCount` is the COUNT part of `Decode`: the new-context reset, the
    wrap check and `SetSQN`.
  * The peer, a UE following TS 24.501/33.501, is environment. MACs are
    abstract: NIA0 gives the zero MAC, a real algorithm gives a value unique
    to the COUNT and the direction, and a corrupted MAC matches none.
  * `Starts` is the set of start states: a fresh context, or one that has
    already exchanged a given number of messages.
  * The module is the library contract of the codec: `DecodeUplink` is
    one call of `nas.Decode` on the UE context for the next uplink message,
    in the order the association delivers. `main.go` never exercises it:
    each frame is handled on a fresh `UEContext` with no security context,
    so no UE of the program decodes two messages or holds a context.
    `PeerActivate` is the peer taking a new context on its own; it is
    environment, not code.
* `UEContext`: a Go map is a function whose domain is the set of keys
  present. The queries `GetPDUSessionStatus` and
  `LoadUEContextAMFUENGAPID` are operators, and the properties read the
  state through them. None of the operations has a caller in `src`, so
  the environment may call them with a few arguments in any order. Each
  action is the method as written; `Next` narrows only the arguments: QoS
  rules and the Established state are stored for a session that exists,
  and the peer gives each UE its own AMF-UE-NGAP id. The semaphore is the
  channel of capacity 1: `Take` blocks on an empty one, `Give` on a full
  one.
* `QosRules`: a Go slice is a sequence; `At` and `Skip` are `b[i]` and
  `b[k:]`. Every decoder returns `Ok(v)`, `Panic` or `Rejected` (nil). The
  `uint8` and `uint16` sums keep their width (`% 2^8`, `% 2^16`).
  `MCQosRules` builds payloads from whole rules through the encoder, then
  damages them once (a byte overwritten, or the last byte cut).
* `Dispatcher`:
  * Every frame is handled by its own goroutine with a fresh `UEContext`
    (`InitTest`). Its `CurrentAMF` is nil and it has no security context.
  * The goroutines share only the association, so each handler is one
    atomic step, and the steps of different frames interleave freely.
  * A handler's outcome is `Crash` (a panic or a stack overflow, which ends
    the process), `Silent`, or `Reply(r)`. A reply write may fail when
    `WriteMayFail`; the response is then lost.
  * A frame the NGAP decoder rejects makes `main` return, so the process
    ends.
  * After a PDUSessionReleaseComplete, `SendDeregistrationRequest` builds
    the Deregistration Request and the Uplink NAS Transport around it.
    `SendToAmf` then drops the frame, because the fresh UE's `CurrentAMF`
    is nil. The frame goes unanswered.
* `AbstractDispatcher` and the refinement: `Dispatcher` instantiates it
  with `answered` as the frames read whose goroutine has finished, and
  each response stripped of its NAS protection flag. The abstract module
  answers each received frame at most once, in any order, with the
  response the transition table of `spec.md` 4.5 names or with nothing.
  A silent handler and a failed write both map to the answer with nothing.
  The flag is dropped because `main` sends the SecurityModeCommand
  unprotected, which `spec.md` 8 describes otherwise. The refinement is
  checked by `disp_release`, whose frames establish and release session 2;
  it fails there on the release id.
* `IdGenerator`: the range is a few ids, far from the int64 and uint64
  widths, so the conversions between them are the identity. A
  `Threshold` that wraps (`maxValue - minValue + 1` overflowing uint64) is
  not reached.
* `LineIdentity`: a Go string is a sequence of byte values, `s[i]` is
  `s[i+1]` and `s[a:b]` is `SubSeq(s, a+1, b)`. A reslice past the end is
  a panic outcome. `Valid` keeps the code's operator precedence: `(L && C)
  || (L && R) && (C && R)` lets a Line ID with only a remote id through.
  The GLI SUPI is the digit sequence that `%x` and `%d` print. The GLI is
  the base64 digit sequence. `InitTestUe` is an operator from a context to
  the identity fields of a fresh UE. Those fields are the Line ID, the
  GLI text, the SUPI, the MAC, the identity type and the mobile identity.
  Of the NAI, only its user id (the GLI text) is kept. `MCCodecs` fixes one `RGContext` per run
  (`rgCtx`), drawn from ids of length 0, 1, 2, 63 and 64, including
  non-printable and 0x02 bytes.

* `NssaiCodec`: an IE value is a byte sequence, and its length field is
  that sequence's length. A decoder returns `NssaiDecoded(v)`, or
  `NssaiPanic` for an index past the end. An SD is the hex digit sequence
  of its bytes. `MCCodecs` encodes S-NSSAI lists following TS 24.501
  9.11.2.8 and 9.11.3.46 and fixes one per state (`nssaiIn`), in the
  states that hold no RG context. The lists are: every list of up to
  three of SST-only, SST+SD and mapped S-NSSAIs; lists of 8, 9, 16 and 17;
  and rejected lists with causes 0, 1 and a reserved 2.
* `NgapConvert`: the MCC and MNC texts are the sequences of their digit
  values, and the hex text `PlmnIdToNgap` assembles is the sequence of
  its hex digits (`f` is 15). `MCCodecs` fixes one MCC and MNC per state
  (`plmnIn`): 207/90, which `main` advertises, and 001/01, 310/26 and
  999/99. A TAI list (`taiIn`) is one of these PLMNs, packed by
  `PlmnIdToNgap` (NAS and NGAP share the octet layout), then one to three
  TACs from three. `PlmnIDToString` belongs to free5gc's `nasConvert`,
  which is not in the repository; it is written from its behaviour. A
  GPRS Timer 2 input (`timerIn`) is any of the 256 octets.
* `PfcpTypes`: a `net.HardwareAddr` is a record saying whether it is nil
  and holding its bytes (its capacity taken as its length). A codec call
  returns `Done(v)`, `Failed` (an error) or `PanicOut`. `MCCodecs` fixes
  one PFCP value per state (`pfcpIn`), in the states that hold neither an
  RG context nor an NSSAI list. The values are: a MAC Address IE for every
  non-empty set of the four addresses, each address distinct; QFIs 0, 9,
  255; and LBU slice ids 0, 258, 65535.

`MC*` modules give the constants of the runs. In `MCCodecs` a state
holds at most one fixed input. The QoS payloads are built and damaged only
in the states that hold none, because no property relates a payload to
another input.

## Runs

| run | expect | properties | what it shows |
|---|---|---|---|
| nas_fresh | pass | `DLCountTracksPeer`, `MacVerdictSound`, `DownlinkVerifies` | From a fresh context: activation, a new-context uplink header, tampering, one re-keying, 4 uplink and 3 downlink messages. The COUNTs stay in step and every MAC verdict is right. |
| nas_wraps | pass | `TypeOK` and the three above | From COUNT 254 and 2^24-2, four messages each way cross the SQN wrap and the 24-bit wrap. |
| ue_sessions | pass | `SlotFlagMatchesSession`, `QosRulesOnlyForLiveSessions` | Session calls on one UE with ids 0, 1, 2 and 257, two slots and exhaustion, keep the slot flags and the QoS rules in step with the sessions. |
| ue_amf_index | pass | `TypeOK`, `IndexEntriesPointBack`, `StoredUEsFindable` | With unique ids, two UEs attaching, re-attaching, storing, detaching and removing on two AMFs keep the AMF index right. |
| ue_exhausted | violation | `SessionIdsInSlots` | With every slot taken, `NewPDUSessionID` returns 0 and `CreatePDUSession` makes session 0. |
| ue_remove_extended | violation | `NoEstablishedWithoutSession` | `Remove` leaves an Established extended state for a session it deleted. |
| codec_roundtrip | pass | `TypeOK`, `RoundTrip`, `LineIDRoundTrip`, `BuiltLineIDValid`, `AttachedUEPresentsItsGLI`, `NssaiListsDecode`, `RejectedNssaiSortedByCause`, `PfcpIEsRoundTrip`, `PlmnIdentityPerTS`, `TaiListDecodesEachTac`, `GPRSTimer2PerTS` | Payloads of up to three rules, of every operation code and component size, decode to the rules they encode. For every RG context `Valid` accepts, the Line ID built from its circuit and remote ids parses back to the same GLI SUPI without a panic, and `Valid` accepts it in their place. The UE that `InitTestUe` sets up presents a SUCI whose NAI carries its own GLI. `BuildDeregistrationRequest` can therefore never find `MobileIdentity` nil. Allowed and Configured NSSAI lists decode, within their limits of 8 and 16, to what was sent, up to the first mapped S-NSSAI. Rejected lists are sorted by cause with the SSTs sent. A MAC Address IE marshals into the flags and its addresses in flag order, in `MarshalLen` bytes, and parses back with the same flags; QFIs and LBU slice ids come back as sent. The PLMN identity of the NG Setup Response has the octet layout of TS 24.008 figure 10.5.13. A TAI list decodes to one TAI per TAC sent, each with the PLMN sent and a TAC text starting with the TAC's octets. Every GPRS Timer 2 octet converts to the seconds of TS 24.008 table 10.5.163a. |
| qos_malformed | violation | `MalformedPayloadRejected` | One damaged byte makes the decoder panic, or accept a rule and leave bytes unread. |
| disp_sessions | pass | `TypeOK`, `SetupAnswersEstablishmentRequest`, `EveryFrameHandled` | Three frames of session traffic, including establishment and release requests, handled concurrently with writes that may fail. Every setup request answers a matching establishment request, and every frame is read and handled. |
| disp_release | violation | `ImplementsAbstractDispatcher` | A release request for session 2 is answered with a release command for session 1, which the abstract dispatcher does not allow. |
| disp_registration | violation | `NoFrameTerminatesProcess` | The registration of `spec.md` 8, an undecodable NGAP frame and an undecodable NAS-PDU: each ends the process. |
| idgen_exhausted | violation | `AllocatedIdsInRange` | A generator of ids 1..3 called six times: the fourth call reports the error, the fifth returns 5 without one. |

Every property of a passing run has a mutant in `PROJECT.json`. A mutant is
a faulty variant of a mapped operator, defined just before it, and TLC
finds the property violated under the run's own cfg. Examples:

* a wrap check on `>=`, or a stale MAC COUNT;
* `Remove` keeping the slot flags;
* an `AttachAMF` that skips the detach;
* the DQR bit left unshifted;
* a precedence read on an equal length;
* no request-type check;
* a setup request built from the nil `CurrentAMF`;
* a remote id parsed from its length byte;
* a 129-byte Line ID limit;
* `RGAttach` called before `InitGlobalLineID` in `InitTestUe`;
* an NSSAI loop stopping one S-NSSAI early;
* a rejected S-NSSAI's length without its header byte;
* `HasUDES` shifting by 2 instead of 3;
* the MCC's first two digits packed high nibble first;
* the TAI loop stepping by four bytes;
* the decihour unit of GPRS Timer 2 counted in hours.

### Bounds

* NAS: four messages each way from COUNT 254 or 2^24-2 cross each wrap and
  send after it. One tampering and one re-keying reach the MAC-failure and
  new-context paths.
* UEContext: two slots are enough to reach exhaustion. Ids 0 and 257 are
  the values outside the slots, and 257 aliases slot 1 under `uint8`. Two
  UEs and two AMFs reach the re-attach to another AMF. One slot is enough
  to exhaust the allocator.
* QoS: three rules cover the loop carrying a buffer from one rule to the
  next, and a rule between two others. The seven rule shapes use every operation code and every component
  size. Overwrite values 0, 80, 153 and 255 give zero lengths, the
  precedence-80 rejection, and header bytes with other operation codes and
  filter counts (255 carries the reserved code 7).
* Line identity: circuit and remote ids of 63 bytes build a Line ID of
  130 bytes, exactly `Valid`'s limit. Ids of 64 bytes cross the per-id
  limit. An id holding 0x02 exercises the parser's split at the first
  0x02. The MAC is the text `InitTestUe` configures. Its 17 bytes are
  what make the MAC fallback of `InitMobileIdentity` leave the identity
  nil.
* NSSAI: lists of 8/9 and 16/17 S-NSSAIs sit on either side of each
  decoder's limit. A mapped S-NSSAI in ninth place checks that the limit
  ends the loop after eight real entries.
* PFCP: every non-empty set of addresses reaches every flag test on both
  sides of each offset; distinct addresses make a swapped order visible.
* TAI lists: one TAC takes the last-TAC branch alone; two and three put
  the four-byte branch before it. Distinct TACs make an offset error
  visible.
* Dispatcher: three frames, drawn from eleven kinds, give two concurrent
  goroutines next to a frame still unread. Two frames, an establishment
  and a release of session 2, reach the release id.
* Id generator: three ids and six calls reach the call that reports the
  error and the call after it.

### Fairness

`disp_sessions` checks liveness (`EveryFrameHandled`), and `disp_release`
the refinement with the fairness of `AbstractDispatcher`. Both assume weak fairness of
`ReadFrame` and of every `HandleFrame(k)`. The justification:

* `main` loops on `ReadData` whenever data is there.
* The Go scheduler eventually runs every runnable goroutine.

The peer's `PeerSend` is not fair: the peer may stop sending. Once it
stops, `main` waits in `SCTPRead`, so the dispatcher runs say
`CHECK_DEADLOCK FALSE`. The QoS runs say the same, because each of their
states is a finished input.

## Findings

* `Remove` does not record the Released extended state.
* `NewPDUSessionID` returns 0 once the slots are taken, and
  `CreatePDUSession` accepts 0 (`spec.md` 4.1 asks for "none").
* The release command names session 1 whatever the request names
  (`main.go` 442-443, `build.go` 646).
* `Allocate` reports exhaustion once, then hands out ids past the range.
* `DecodeAuthorizedQosRules` indexes without bounds checks and advances by
  the declared length, not by the bytes read.
* Handling SecurityModeComplete dereferences the nil `CurrentAMF`. Handling
  InitialContextSetupResponse recurses without end in
  `BuildRegistrationAccept`. An NGAP frame the decoder rejects makes
  `main` return, and an unparsable NAS-PDU is dereferenced as a nil
  `GmmMessage`. Each ends the process.

`InitMobileIdentity` never sets `MobileIdentity` for a MAC: the MAC branch
declares its own `mobileIdentity5GSContents` (`ue.go` 388), and the final
length test reads the outer, empty one. `LineIdentity` models this; no
property reaches the branch, because `InitTestUe` always sets a Line ID.

`main.go` 179 calls `ue.Init()`, but `Init` takes the RAN UE NGAP id
(`ue.go` 298): the repository as given does not build. The model follows
`Init`'s body.

`rg_context.go` has defects that no caller reaches, because `main` never
calls `Valid`:

* `Valid` panics on a one-byte Line ID.
* The exclusion test lets a Line ID with only a remote id through.
* The 0x02 form's range check has an empty body.

The NSSAI decoders have no caller in `src`. Two of their behaviours are
noted but not checked as violations:

* An S-NSSAI with a mapped part reads as length 0. The Allowed and
  Configured decoders then pad their result with empty S-NSSAIs up to the
  limit.
* A rejected S-NSSAI with an SD that is not the last of its list takes
  every remaining byte as its SD. `RejectedNssaiSortedByCause` compares
  SSTs and causes, which this leaves right.

The PFCP IE codecs have no caller in `src`. Read from the code, and not
checked as violations:

* `UnmarshalBinary` copies each address into the nil `HardwareAddr` of a
  fresh `MACAddress`, which copies nothing. A parsed IE keeps its flags
  and loses its addresses, and marshalling it again panics at
  `SourceMACAddress[:6]`. `PfcpIEsRoundTrip` therefore compares flags only.
* A MAC Address IE with no address marshals to one byte, which
  `UnmarshalBinary` rejects (`l < 2`).
* `CasaLBUSliceID.UnmarshalBinary` reads the slice id before checking the
  length. A 2- or 3-byte value with the Casa vendor id panics instead of
  returning an error.

`NasTaiListToModels` has no caller in `src`. Read from the code, and not
checked as violations:

* Each TAC is three octets, but the loop reads four (`buf[offset :
  offset+4]`) while stepping by three. Every TAC text but the last ends
  with the first octet of the next TAC. `TaiListDecodesEachTac` therefore
  checks that each text starts with its TAC, and that the last one is
  exact.
* Lists of type 0x01 and 0x02 decode to no TAI, without an error.

`PlmnIdToNgap` packs a three-digit MNC as MNC digit 1 over MCC digit 3,
then digit 3 over digit 2. TS 24.008 figure 10.5.13 puts MNC digit 3 over
MCC digit 3, then digit 2 over digit 1. `main` only encodes the
two-digit 207/90, so `PlmnIdentityPerTS` covers two-digit MNCs only.

## What is not modelled

* `command.go`. Also the six NGAP bit string conversions (a buffer, one
  `binary.BigEndian.PutUintN` and a fixed bit length each) and three conversions of `conversion.go`:
  `StringToNgap` (a byte copy), `GUTI5GToMobileIdentity5GS` (a copy of the
  GUTI octets) and `NgapAllowedNssaiToModels` (a loop over free5gc's
  `SNssaiToModels`, which is outside the repository).
* The logger.
* The clearing of `PreviousAMF` and `PreviousAMFIndex` after the builders
  copy its name into an OldAMF IE (`build.go` 200-210 and 272-282).
  Nothing in `src` ever sets `PreviousAMF`, so the branch is unreachable.
  The NGAP IE lists the builders assemble are also left out: `Dispatcher`
  keeps only the message kind, the session id and whether the NAS PDU is
  protected.
* The vendored free5gc additions under `src/free5gc` other than the PFCP
  IE codecs: type declarations, the Casa DHCPv6 and ICMPv6 IEs (their
  bodies are parsed by external libraries), and service handlers that the
  simulator does not call.
* The SCTP transport beyond an in-order frame queue and a write that may
  fail. Read errors make `main` spin, which is listed as a hazard; in the
  model it would only be stuttering.
* Timers, the AMF's TNL associations and overload state, and the GUAMI
  comparison. None of them has a caller in `src`. The overload and GUAMI
  operations only copy IEs or compare encodings. The TNL list's one
  subtle behaviour, two dual-stack endpoints whose address texts join to
  the same key, is listed as a hazard.
* The start-up of `main` (listen, accept, SCTP parameters). `Dispatcher`
  starts from an accepted association. The unchecked listen and accept
  errors are listed as a hazard.

