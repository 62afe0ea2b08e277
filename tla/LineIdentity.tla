---------------------------- MODULE LineIdentity ----------------------------
(***************************************************************************)
(* The line identity of a residential gateway: RGContext.Valid of          *)
(* src/pkg/types/rg_context.go, and InitGlobalLineID with the byte helpers *)
(* of src/pkg/context/ue.go that build the Line ID from the circuit and    *)
(* remote ids, or take a given Line ID apart, and derive the GLI SUPI.     *)
(*                                                                         *)
(* A Go string or []byte is a sequence of byte values; s[i] is s[i+1] and  *)
(* s[a:b] is SubSeq(s, a+1, b).  Valid ranges over strings, which yields   *)
(* runes: a byte 0x80 or above starts a rune of value 0x80 or above, and   *)
(* every comparison below is with a value under 0x80, so ranging over the  *)
(* bytes decides the same way.  A reslice or index past the end is a       *)
(* run-time panic.                                                         *)
(*                                                                         *)
(* The SUPI is a sequence of the digits it prints, each a value 0..15:     *)
(* fmt's %x prints a byte as two hex digits, %d a byte in decimal.  The    *)
(* GLI is the base64 text of the AGF id and the Line ID, as a sequence of  *)
(* base64 digits (0..63, and Pad for '=').                                 *)
(***************************************************************************)
EXTENDS Naturals, Sequences, SequencesExt

LOCAL Byte(s, i) == s[i + 1]
LOCAL From(s, a) == SubSeq(s, a + 1, Len(s))
LOCAL Slice(s, a, b) == SubSeq(s, a + 1, b)

\* Outcomes of Valid.
Accept == "accept"
Reject == "reject"
ValidPanic == "panic"

RGTypeFNRG == "FN_RG"
RGType5GRG == "5G_RG"
LineTypeDSL == "DSL"
LineTypePON == "PON"
\* PDUSessionTypeIPv4 .. PDUSessionTypeReserved of pdu_session_type.go.
PDUSessionTypes == {"IPv4", "IPv6", "IPv4v6", "Unstructured", "Ethernet", "Reserved"}

\* Permissible values of a circuit or remote id byte: 0x20-0x7e.
Printable(s) == \A i \in DOMAIN s : s[i] \in 32 .. 126

\* Go index of the first byte 0x02 of s, or -1.
IndexOfRemoteTag(s) == SelectInSeq(s, LAMBDA x : x = 2) - 1

(***************************************************************************)
(* The Line ID checks of Valid.  The 0x01 form is split at the first 0x02 *)
(* after the circuit id's length byte; the 0x02 form's length-byte range   *)
(* check has an empty body, so only its length match is enforced.         *)
(***************************************************************************)
ValidLineIDCircuitForm(l) ==
    IF Len(l) < 2 THEN ValidPanic                     \* ctx.LineID[2:]
    ELSE LET key == IndexOfRemoteTag(From(l, 2))
         IN IF key >= 0 /\ key + 4 > Len(l) THEN ValidPanic   \* LineID[key+4:]
            ELSE LET comps == IF key >= 0
                              THEN <<Slice(l, 2, key + 2), From(l, key + 4)>>
                              ELSE <<From(l, 2)>>
                 IN IF \/ key >= 0 /\ Byte(l, key + 3) \notin 1 .. 63
                       \/ key >= 0 /\ Len(comps[2]) # Byte(l, key + 3)
                       \/ Byte(l, 1) \notin 1 .. 63
                       \/ Len(comps[1]) # Byte(l, 1)
                       \/ \E i \in DOMAIN comps : ~Printable(comps[i])
                    THEN Reject ELSE Accept

ValidLineIDRemoteForm(l) ==
    IF Len(l) < 2 THEN ValidPanic                     \* ctx.LineID[1]
    ELSE IF Len(From(l, 2)) # Byte(l, 1) \/ ~Printable(From(l, 2))
         THEN Reject ELSE Accept

ValidLineID(l) ==
    CASE Byte(l, 0) = 1 -> ValidLineIDCircuitForm(l)
      [] Byte(l, 0) = 2 -> ValidLineIDRemoteForm(l)
      [] OTHER -> Reject

\* Faulty variant: the Global Line Identifier bound taken as 129 bytes.
MaxLineIDLengthOffByOne == 129

\* TR-470 Figure 18: a Line ID is at most 130 bytes.
MaxLineIDLength == 130

(***************************************************************************)
(* RGContext.Valid.  Go's && binds tighter than ||, so the exclusion test *)
(* reads (L and C) or ((L and R) and (C and R)): a Line ID with only a     *)
(* remote id passes it.                                                    *)
(***************************************************************************)
Valid(ctx) ==
    LET L == Len(ctx.lineID) # 0
        C == Len(ctx.circuitID) # 0
        R == Len(ctx.remoteID) # 0
    IN IF \/ ctx.rgType \notin {RGTypeFNRG, RGType5GRG}
          \/ ctx.lineType \notin {LineTypePON, LineTypeDSL}
          \/ ~L /\ ~C /\ ~R
          \/ (L /\ C) \/ ((L /\ R) /\ (C /\ R))
          \/ Len(ctx.lineID) > MaxLineIDLength
       THEN Reject
       ELSE IF L /\ ValidLineID(ctx.lineID) # Accept THEN ValidLineID(ctx.lineID)
       ELSE IF \/ Len(ctx.circuitID) > 63 \/ ~Printable(ctx.circuitID)
               \/ Len(ctx.remoteID) > 63 \/ ~Printable(ctx.remoteID)
               \/ ctx.mac = <<>>
               \/ ctx.pduSessionType \notin PDUSessionTypes
            THEN Reject
       ELSE Accept

-----------------------------------------------------------------------------
\* StringToNgap, AppendStringToNgap and AppendNgapByte copy bytes one by
\* one: a concatenation.
AppendNgapByte(x, y) == x \o y

\* fmt.Sprintf("%x", b): two hex digits per byte.
Hex(b) == FlattenSeq([i \in DOMAIN b |-> <<b[i] \div 16, b[i] % 16>>])

\* fmt.Sprintf("%d", v) of a byte.
Decimal(v) ==
    IF v < 10 THEN <<v>>
    ELSE IF v < 100 THEN <<v \div 10, v % 10>>
    ELSE <<v \div 100, (v \div 10) % 10, v % 10>>

\* lineIDSource == fmt.Sprintf("%05d", 77)
LineIDSource == <<0, 0, 0, 7, 7>>

\* The bytes of lineIDSource, as StringToNgap copies them.
LineIDSourceBytes == <<48, 48, 48, 55, 55>>

\* base64.StdEncoding.EncodeToString: three bytes to four digits, the last
\* group padded with '='.
Pad == 64
RECURSIVE Base64(_)
Base64(b) ==
    CASE Len(b) >= 3 ->
            <<b[1] \div 4, (b[1] % 4) * 16 + b[2] \div 16,
              (b[2] % 16) * 4 + b[3] \div 64, b[3] % 64>> \o Base64(From(b, 3))
      [] Len(b) = 2 ->
            <<b[1] \div 4, (b[1] % 4) * 16 + b[2] \div 16, (b[2] % 16) * 4, Pad>>
      [] Len(b) = 1 -> <<b[1] \div 4, (b[1] % 4) * 16, Pad, Pad>>
      [] OTHER -> <<>>

\* One tagged component: tag, byte(len(id)) and the id's bytes.
LineIDComponent(tag, id) == <<tag, Len(id) % 256>> \o id

\* The Line ID and GLI SUPI built from the circuit and remote ids.
BuildLineID(circuit, remote) ==
    (IF circuit # <<>> THEN LineIDComponent(1, circuit) ELSE <<>>)
        \o (IF remote # <<>> THEN LineIDComponent(2, remote) ELSE <<>>)

BuildGLISUPI(circuit, remote) ==
    LineIDSource
        \o (IF circuit # <<>> THEN <<1>> \o Hex(circuit) ELSE <<>>)
        \o (IF remote # <<>> THEN <<2>> \o Hex(remote) ELSE <<>>)

\* Faulty variant: the remote id taken from one byte earlier, its length
\* byte included.
ParseGLISUPIFromLengthByte(l) ==
    LET key == IndexOfRemoteTag(From(l, 2))
    IN IF key >= 0
       THEN LineIDSource \o <<1>> \o Hex(Slice(l, 2, key + 2))
                         \o <<2>> \o Hex(From(l, key + 3))
       ELSE LineIDSource \o Decimal(Byte(l, 0)) \o Hex(From(l, 2))

\* The GLI SUPI taken from a given Line ID: split at the first 0x02 after
\* the first two bytes, or the first byte in decimal and the rest in hex.
\* Defined for Line IDs of at least two bytes, and at least four past a
\* 0x02 found; shorter ones panic in srcLineID[2:] or srcLineID[key+4:].
ParseGLISUPI(l) ==
    LET key == IndexOfRemoteTag(From(l, 2))
    IN IF key >= 0
       THEN LineIDSource \o <<1>> \o Hex(Slice(l, 2, key + 2))
                         \o <<2>> \o Hex(From(l, key + 4))
       ELSE LineIDSource \o Decimal(Byte(l, 0)) \o Hex(From(l, 2))

ParsePanics(l) ==
    \/ Len(l) < 2
    \/ LET key == IndexOfRemoteTag(From(l, 2)) IN key >= 0 /\ key + 4 > Len(l)

\* InitGlobalLineID(mac, srcLineID, circuit, remote): the Line ID, the GLI
\* (the base64 text of the AGF id and the Line ID) and the GLI SUPI, or a
\* panic.
InitGlobalLineID(srcLineID, circuit, remote) ==
    LET lineID == IF srcLineID = <<>> THEN BuildLineID(circuit, remote)
                  ELSE srcLineID
    IN IF srcLineID # <<>> /\ ParsePanics(srcLineID)
       THEN [panic |-> TRUE, lineID |-> <<>>, gli |-> <<>>, supi |-> <<>>]
       ELSE [panic |-> FALSE, lineID |-> lineID,
             gli |-> Base64(AppendNgapByte(LineIDSourceBytes, lineID)),
             supi |-> IF srcLineID = <<>> THEN BuildGLISUPI(circuit, remote)
                      ELSE ParseGLISUPI(srcLineID)]


-----------------------------------------------------------------------------
(***************************************************************************)
(* The identity a UE presents, set up by InitTestUe of main.go: the Line   *)
(* ID, GLI and GLI SUPI from InitGlobalLineID, then RGAttach, which ends   *)
(* in InitMobileIdentity.  A UE is the record of the fields these write;  *)
(* the NAI is its user id, the GLI text, with the fixed type, routing and *)
(* realm parts left out.                                                   *)
(***************************************************************************)
IdentityTypeSuci == "SUCI"              \* MobileIdentity5GSTypeSuci
IdentityTypeMacAddress == "MAC"         \* MobileIdentity5GSTypeMacAddress
SupiFormatGLI == "GLI"
NoIdentity == "none"
NilMobileIdentity == [type |-> NoIdentity]    \* a nil *MobileIdentity5GS

\* &context.UEContext{}: every field its zero value.
FreshUE ==
    [lineID |-> <<>>, gliStr |-> <<>>, supi |-> <<>>, mac |-> <<>>,
     supiType |-> NoIdentity, identityType |-> NoIdentity,
     mobileIdentity |-> NilMobileIdentity]

\* InitMobileIdentity: a SUCI with the GLI NAI when the UE has a Line ID.
\* For a MAC only the identity type is set: the branch fills a
\* mobileIdentity5GSContents of its own (ue.go:388) that shadows the one
\* the final length test reads, so MobileIdentity stays nil, as it also
\* does on the early return for a MAC that is not six bytes.
InitMobileIdentity(ue) ==
    CASE ue.lineID # <<>> ->
            [ue EXCEPT !.supiType = SupiFormatGLI,
                       !.identityType = IdentityTypeSuci,
                       !.mobileIdentity = [type |-> IdentityTypeSuci,
                                           userid |-> ue.gliStr]]
      [] ue.mac # <<>> -> [ue EXCEPT !.identityType = IdentityTypeMacAddress]
      [] OTHER -> ue

\* RGAttach copies the context's fields (of them only the MAC is read
\* here), sets the security capability and the timers, and sets up the
\* mobile identity.
RGAttach(ue, ctx) == InitMobileIdentity([ue EXCEPT !.mac = ctx.mac])

\* Faulty variant: RGAttach called before InitGlobalLineID has set the
\* Line ID.
InitTestUeAttachFirst(ctx) ==
    LET g == InitGlobalLineID(ctx.lineID, ctx.circuitID, ctx.remoteID)
    IN IF g.panic THEN FreshUE
       ELSE [RGAttach(FreshUE, ctx) EXCEPT !.lineID = g.lineID,
                                           !.gliStr = g.gli, !.supi = g.supi]

\* InitTestUe(ue) on a fresh UE: the line identity, then RGAttach; a
\* panic of InitGlobalLineID leaves the UE as it was.
InitTestUe(ctx) ==
    LET g == InitGlobalLineID(ctx.lineID, ctx.circuitID, ctx.remoteID)
    IN IF g.panic THEN FreshUE
       ELSE RGAttach([FreshUE EXCEPT !.lineID = g.lineID, !.gliStr = g.gli,
                                     !.supi = g.supi], ctx)

=============================================================================
