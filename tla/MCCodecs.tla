------------------------------ MODULE MCCodecs ------------------------------
(***************************************************************************)
(* The byte codecs checked together: the QoS rule payloads of MCQosRules,  *)
(* the line identities of residential gateway contexts, and the NSSAI IEs  *)
(* of NAS, the PFCP IEs and the NGAP PLMN identity.  Each run state      *)
(* holds one input of the last four kinds: an RG context, an NSSAI list,  *)
(* a PFCP IE value, or an MCC and MNC.                                     *)
(***************************************************************************)
EXTENDS MCQosRules, LineIdentity, NssaiCodec, PfcpTypes, NgapConvert

\* Circuit and remote ids: none, the least and greatest permissible bytes,
\* a 0x02 byte (the remote tag), and the longest id Valid takes and one
\* byte more.
MCLineIds ==
    {<<>>, <<32>>, <<126, 32>>, <<2>>, [i \in 1 .. 63 |-> 126],
     [i \in 1 .. 64 |-> 32]}

\* The MAC address text InitTestUe configures, "02:42:d5:32:74:11".
MCMacText == <<48, 50, 58, 52, 50, 58, 100, 53, 58, 51, 50, 58, 55, 52, 58, 49, 49>>

\* RG contexts as a configuration gives them: circuit and remote ids, no
\* Line ID, the MAC address as text.
MCRGContexts ==
    [rgType : {RGTypeFNRG}, lineType : {LineTypePON}, lineID : {<<>>},
     circuitID : MCLineIds, remoteID : MCLineIds, mac : {MCMacText},
     pduSessionType : {"IPv4"}]

\* No RG context: the states that hold an NSSAI list instead.
NoRGContext ==
    [rgType |-> "none", lineType |-> "none", lineID |-> <<>>, circuitID |-> <<>>,
     remoteID |-> <<>>, mac |-> <<>>, pduSessionType |-> "none"]

\* S-NSSAIs as a peer encodes them (TS 24.501 9.11.2.8): SST alone, SST
\* and SD, and SST with a mapped HPLMN SST, the form the decoder has no
\* case for.
MCSnssaiSst == [sst |-> 1, sd |-> <<>>, mapped |-> <<>>]
MCSnssaiSd == [sst |-> 2, sd |-> <<0, 16, 255>>, mapped |-> <<>>]
MCSnssaiMapped == [sst |-> 1, sd |-> <<>>, mapped |-> <<1>>]

\* Allowed and Configured NSSAI values: every list of up to three of them,
\* and lists at and past the limits of 8 and 16.
MCNssaiLists ==
    UNION {[1 .. n -> {MCSnssaiSst, MCSnssaiSd, MCSnssaiMapped}] : n \in 0 .. 3}
    \cup {[i \in 1 .. 8 |-> MCSnssaiSst], [i \in 1 .. 9 |-> MCSnssaiSd],
          [i \in 1 .. 9 |-> IF i = 9 THEN MCSnssaiMapped ELSE MCSnssaiSst],
          [i \in 1 .. 16 |-> MCSnssaiSst], [i \in 1 .. 17 |-> MCSnssaiSd]}

\* Rejected S-NSSAIs (TS 24.501 9.11.3.46): causes 0, 1 and a reserved 2.
MCRejectedSst == [sst |-> 1, sd |-> <<>>, cause |-> 0]
MCRejectedSd == [sst |-> 2, sd |-> <<0, 16, 255>>, cause |-> 1]
MCRejectedOther == [sst |-> 3, sd |-> <<>>, cause |-> 2]

MCRejectedLists ==
    UNION {[1 .. n -> {MCRejectedSst, MCRejectedSd, MCRejectedOther}] : n \in 1 .. 3}
    \cup {[i \in 1 .. 9 |-> IF i % 2 = 0 THEN MCRejectedSd ELSE MCRejectedSst]}

\* PFCP IE values: a MAC Address IE for every non-empty set of the four
\* addresses, each address distinct; QFIs and LBU slice ids at the ends of
\* their ranges and one whose two octets differ.
MCMacOf(x) == <<2, 66, 0, 0, 0, x>>
MCPfcpValues ==
    {[kind |-> "mac", fields |-> S] : S \in SUBSET {SOUR, DEST, USOU, UDES} \ {{}}}
    \cup {[kind |-> "qfi", v |-> q] : q \in {0, 9, 255}}
    \cup {[kind |-> "lbu", v |-> n] : n \in {0, 258, 65535}}
NoPfcpValue == [kind |-> "none"]

\* The MAC Address IE a PFCP peer fills in for a set of address fields.
MCMacIE(S) ==
    [flags |-> SumSet(S),
     addr |-> [x \in {SOUR, DEST, USOU, UDES} |->
                 IF x \in S THEN HardwareAddr(MCMacOf(x)) ELSE NilAddr]]

\* MCCs and two-digit MNCs as digit values: 207/90, which main.go's NG
\* Setup Response advertises, the test PLMN 001/01, and 310/26 and 999/99.
MCPlmns ==
    {[mcc |-> <<2, 0, 7>>, mnc |-> <<9, 0>>], [mcc |-> <<0, 0, 1>>, mnc |-> <<0, 1>>],
     [mcc |-> <<3, 1, 0>>, mnc |-> <<2, 6>>], [mcc |-> <<9, 9, 9>>, mnc |-> <<9, 9>>]}
NoPlmn == [mcc |-> <<>>, mnc |-> <<>>]

\* Partial tracking area identity lists of type 0x00 (TS 24.501
\* 9.11.3.9): one of the PLMNs above, then one to three TACs of three
\* octets each, from a small set of TACs.
MCTacs == {<<0, 0, 1>>, <<18, 52, 86>>, <<255, 255, 254>>}
MCTaiLists ==
    [plmn : MCPlmns, tacs : UNION {[1 .. n -> MCTacs] : n \in 1 .. 3}]
NoTai == [plmn |-> NoPlmn, tacs |-> <<>>]

\* GPRS Timer 2 contents: every octet.
MCTimerContents == 0 .. 255
NoTimer == -1


\* The RG context the simulator is configured with, the NSSAI list a peer
\* sends, the PFCP IE value marshalled, the PLMN encoded, the TAI list or
\* the GPRS Timer 2 value received, fixed for the run.  A state holds at
\* most one of them; the QoS rule payloads of MCQosRules are built and
\* decoded in the states that hold none, since no property relates them.
VARIABLES rgCtx, nssaiIn, pfcpIn, plmnIn, taiIn, timerIn

inputs == <<rgCtx, nssaiIn, pfcpIn, plmnIn, taiIn, timerIn>>
codecVars == <<vars, inputs>>
NoInput == <<NoRGContext, <<>>, NoPfcpValue, NoPlmn, NoTai, NoTimer>>

InputsAre(t) ==
    /\ rgCtx = t[1] /\ nssaiIn = t[2] /\ pfcpIn = t[3]
    /\ plmnIn = t[4] /\ taiIn = t[5] /\ timerIn = t[6]

\* One input taken from its set, the others at their sentinels.
OneInput(k, S) == \E v \in S : InputsAre([NoInput EXCEPT ![k] = v])

CodecInit ==
    /\ Init
    /\ \/ InputsAre(NoInput)
       \/ OneInput(1, MCRGContexts)
       \/ OneInput(2, MCNssaiLists \cup MCRejectedLists)
       \/ OneInput(3, MCPfcpValues)
       \/ OneInput(4, MCPlmns)
       \/ OneInput(5, MCTaiLists)
       \/ OneInput(6, MCTimerContents)

CodecNext == inputs = NoInput /\ Next /\ UNCHANGED inputs

CodecSpec == CodecInit /\ [][CodecNext]_codecVars

\* The Line ID InitGlobalLineID builds from a valid context's circuit and
\* remote ids, handed back to it as a configured Line ID, is taken apart
\* without a panic into the same GLI SUPI.  This is about the builder and
\* the parser of InitGlobalLineID agreeing on the tag, length and value
\* layout, the parser's split at the first 0x02 included.
LineIDRoundTrip ==
    Valid(rgCtx) = Accept =>
        LET built == InitGlobalLineID(rgCtx.lineID, rgCtx.circuitID, rgCtx.remoteID)
            again == InitGlobalLineID(built.lineID, <<>>, <<>>)
        IN ~again.panic /\ again.supi = built.supi

\* A context Valid accepts with circuit and remote ids stays valid when
\* the Line ID InitGlobalLineID builds from them is configured instead:
\* Valid's 0x01/0x02 forms, its length bytes and its 130-byte limit
\* accept everything the builder makes of ids of up to 63 bytes.
BuiltLineIDValid ==
    Valid(rgCtx) = Accept =>
        Valid([rgCtx EXCEPT
                 !.lineID = InitGlobalLineID(rgCtx.lineID, rgCtx.circuitID,
                                             rgCtx.remoteID).lineID,
                 !.circuitID = <<>>, !.remoteID = <<>>]) = Accept

\* A UE that InitTestUe sets up from a context Valid accepts presents a
\* SUCI whose NAI carries its own GLI.  BuildDeregistrationRequest reads
\* ue.MobileIdentity when the UE has no GUTI, so it never finds it nil.
\* This is about InitTestUe setting the Line ID before RGAttach, and about
\* InitMobileIdentity's choice between the GLI and the MAC, whose text is
\* never six bytes long.
AttachedUEPresentsItsGLI ==
    Valid(rgCtx) = Accept =>
        /\ ~InitGlobalLineID(rgCtx.lineID, rgCtx.circuitID, rgCtx.remoteID).panic
        /\ LET ue == InitTestUe(rgCtx)
           IN ue.mobileIdentity = [type |-> IdentityTypeSuci, userid |-> ue.gliStr]

-----------------------------------------------------------------------------
\* The IE value of an S-NSSAI list: length byte and contents of each.
EncodeSnssai(e) ==
    LET contents == <<e.sst>> \o e.sd \o e.mapped IN <<Len(contents)>> \o contents
EncodeRejectedSnssai(e) ==
    <<(IF e.sd = <<>> THEN 1 ELSE 4) * 16 + e.cause, e.sst>> \o e.sd
EncodeList(L, Enc(_)) == FlattenSeq([i \in DOMAIN L |-> Enc(L[i])])

\* The models.Snssai an S-NSSAI decodes to.
ModelSnssai(e) == Snssai(e.sst, Hex(e.sd))

LOCAL AtMost(n, limit) == IF n < limit THEN n ELSE limit

\* A list decoder's result for L, under its limit: no panic, at most limit
\* S-NSSAIs, the S-NSSAIs ahead of the first one with a mapped part read
\* as they were sent, and all of them, up to the limit, when none has.
DecodesAsSent(res, L, limit) ==
    LET firstMapped == SelectInSeq(L, LAMBDA e : e.mapped # <<>>)
        k == IF firstMapped = 0 THEN Len(L) ELSE firstMapped - 1
    IN /\ ~res.panic
       /\ AtMost(k, limit) <= Len(res.value) /\ Len(res.value) <= limit
       /\ \A i \in 1 .. AtMost(k, limit) : res.value[i] = ModelSnssai(L[i])
       /\ firstMapped = 0 => Len(res.value) = AtMost(Len(L), limit)

\* An Allowed or Configured NSSAI decodes, without a panic and within its
\* limit of 8 or 16, to the S-NSSAIs the peer sent, up to the first with a
\* mapped HPLMN part (which NasSnssaiToModels has no case for).  This is
\* about NasSnssaiToModels's lengths and SD slice and about the offset,
\* count and limit of the loops of NasAllowedNssaiToModels and
\* NasConfiguredNssaiToModels.
NssaiListsDecode ==
    nssaiIn \in MCNssaiLists =>
        /\ DecodesAsSent(NasAllowedNssaiToModels(EncodeList(nssaiIn, EncodeSnssai)),
                         nssaiIn, MaxAllowedNssai)
        /\ DecodesAsSent(NasConfiguredNssaiToModels(EncodeList(nssaiIn, EncodeSnssai)),
                         nssaiIn, MaxConfiguredNssai)

\* A Rejected NSSAI decodes, without a panic, into the S-NSSAIs rejected in
\* the PLMN and those rejected in the registration area, each with the SST
\* sent, in the order sent, reserved causes dropped and at most 8 read.
\* This is about the length nibble and the offset NasRejectedSnssaiToModels
\* returns, which place every following S-NSSAI, and about the cause
\* switch of NasRejectedNssaiToModels.
RejectedNssaiSortedByCause ==
    nssaiIn \in MCRejectedLists =>
        LET res == NasRejectedNssaiToModels(EncodeList(nssaiIn, EncodeRejectedSnssai))
            read == SubSeq(nssaiIn, 1, AtMost(Len(nssaiIn), MaxAllowedNssai))
            Ssts(c) == LET sel == SelectSeq(read, LAMBDA e : e.cause = c)
                       IN [i \in DOMAIN sel |-> sel[i].sst]
            SstsOf(l) == [i \in DOMAIN l |-> l[i].sst]
        IN /\ ~res.panic
           /\ SstsOf(res.value.inPlmn) = Ssts(CauseNotAvailableInCurrentPlmn)
           /\ SstsOf(res.value.inTai) = Ssts(CauseNotAvailableInCurrentRegistrationArea)

\* A PFCP IE the simulator marshals is read back by the IE's own parser.  A
\* MAC Address IE marshals, without an error or a panic, into MarshalLen
\* bytes: the flags, then each address present in the order SOUR, DEST,
\* USOU, UDES; ParseMACAddress accepts those bytes with the same flags.  A
\* QFI and an LBU slice id come back as sent.  This is about the four Has
\* tests, the offsets of MarshalTo and UnmarshalBinary, and MarshalLen,
\* which counts the non-nil addresses while MarshalTo writes the flagged
\* ones.  (The addresses themselves do not come back: see README.)
PfcpIEsRoundTrip ==
    /\ pfcpIn.kind = "mac" =>
         LET ie == MCMacIE(pfcpIn.fields)
             out == MarshalBinary(ie)
             layout == <<ie.flags>> \o
                 FlattenSeq([i \in 1 .. 4 |-> IF AddressFields[i] \in pfcpIn.fields
                                              THEN MCMacOf(AddressFields[i]) ELSE <<>>])
         IN /\ out.out = "done"
            /\ out.value = layout
            /\ ParseMACAddress(out.value).out = "done"
            /\ ParseMACAddress(out.value).value.flags = ie.flags
    /\ pfcpIn.kind = "qfi" => UnmarshalQFI(MarshalQFI(pfcpIn.v)) = Done(pfcpIn.v)
    /\ pfcpIn.kind = "lbu" =>
         UnmarshalLBUSliceID(MarshalLBUSliceID(pfcpIn.v)) = Done(pfcpIn.v)

\* The PLMN identity of the served GUAMI and PLMN support item that
\* sendNGSetupResponse puts in its NG Setup Response is the three octets of
\* TS 24.008 figure 10.5.13 (TS 38.413 9.3.3.5): MCC digit 2 over digit 1,
\* the filler F over MCC digit 3, MNC digit 2 over digit 1.  This is about
\* the digit order PlmnIdToNgap assembles its hex text in and the nibble
\* order hex.DecodeString packs it with.  Two-digit MNCs only: for three
\* digits the code's order differs from the figure (see README).
PlmnIdentityPerTS ==
    plmnIn # NoPlmn =>
        LET mcc == plmnIn.mcc
            mnc == plmnIn.mnc
        IN /\ ~PlmnIdPanics(mcc, mnc)
           /\ PlmnIdToNgap(mcc, mnc) =
                <<mcc[2] * 16 + mcc[1], FillerDigit * 16 + mcc[3], mnc[2] * 16 + mnc[1]>>

\* The Partial tracking area identity list IE value of a TAI list input:
\* type 0x00 and the number of elements less one, the PLMN in the octets
\* of TS 24.008 figure 10.5.13 (PlmnIdToNgap's, checked above), the TACs.
TaiListIE(t) ==
    <<Len(t.tacs) - 1>> \o PlmnIdToNgap(t.plmn.mcc, t.plmn.mnc) \o FlattenSeq(t.tacs)

\* A TAI list of type 0x00 decodes, without a panic, into one TAI per TAC
\* sent, in order, each with the PLMN sent; each TAC text starts with the
\* hex of the three octets sent and the last is exactly that.  This is
\* about the offset NasTaiListToModels starts at and steps by, its test
\* for the last TAC, and the digit order of the PLMN it reads.  (Every
\* TAC text but the last also carries the next TAC's first octet: see
\* README.)
TaiListDecodesEachTac ==
    taiIn # NoTai =>
        LET res == NasTaiListToModels(TaiListIE(taiIn))
            n == Len(taiIn.tacs)
        IN /\ ~res.panic
           /\ Len(res.value) = n
           /\ \A i \in 1 .. n :
                 /\ res.value[i].plmnId = [mcc |-> taiIn.plmn.mcc, mnc |-> taiIn.plmn.mnc]
                 /\ IsPrefix(Hex(taiIn.tacs[i]), res.value[i].tac)
           /\ res.value[n].tac = Hex(taiIn.tacs[n])

\* TS 24.008 table 10.5.163a: bits 6 to 8 of a GPRS Timer 2 octet are the
\* unit (2 seconds, 1 minute, decihours, deactivated; any other unit read
\* as 1 minute) and bits 1 to 5 the binary value.
Ts24008Timer2Unit == [u \in 0 .. 7 |-> CASE u = 0 -> 2
                                        [] u = 2 -> 360
                                        [] u = 7 -> 0
                                        [] OTHER -> 60]

\* Every GPRS Timer 2 octet converts to the seconds table 10.5.163a gives
\* it.  This is about GPRSTimer2ContentToSeconds's masks, derived one
\* from the other, its unit constants shifted into bits 6 to 8, and the
\* seconds of each unit.
GPRSTimer2PerTS ==
    timerIn # NoTimer =>
        GPRSTimer2ContentToSeconds(timerIn) =
            (timerIn % 32) * Ts24008Timer2Unit[timerIn \div 32]
=============================================================================
