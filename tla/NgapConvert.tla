----------------------------- MODULE NgapConvert -----------------------------
(***************************************************************************)
(* PlmnIdToNgap of src/pkg/util/conversion.go, which sendNGSetupResponse   *)
(* (main.go) uses for the PLMN identity of the served GUAMI and of the     *)
(* PLMN support item; the NAS TAI list decoder NasTaiListToModels, the     *)
(* GPRS Timer 2 conversion GPRSTimer2ContentToSeconds of the same file.   *)
(*                                                                         *)
(* The MCC and MNC are decimal texts, taken as the sequences of their      *)
(* digit values; strings.Split(s, "") gives one string per digit.  The     *)
(* hex text PlmnIdToNgap assembles is the sequence of its hex digit        *)
(* values (0..15, "f" being 15), and hex.DecodeString turns each pair into *)
(* one byte.  An index past the end of a digit list is a run-time panic.   *)
(***************************************************************************)
EXTENDS Naturals, Sequences, Bitwise

LOCAL LI == INSTANCE LineIdentity
LOCAL From(s, a) == SubSeq(s, a + 1, Len(s))
LOCAL Slice(s, a, b) == SubSeq(s, a + 1, b)

\* hex.DecodeString on a text of hex digits: each pair is one byte, high
\* digit first.  (Its error, for a digit outside 0-9a-f, cannot arise from
\* decimal texts and is ignored by the caller.)
HexDecode(h) == [i \in 1 .. Len(h) \div 2 |-> h[2 * i - 1] * 16 + h[2 * i]]

\* The filler digit "f" of a two-digit MNC.
FillerDigit == 15

\* mcc[i] or mnc[i] past the end of the split text.
PlmnIdPanics(mcc, mnc) ==
    \/ Len(mcc) < 3
    \/ Len(mnc) < 2
    \/ Len(mnc) # 2 /\ Len(mnc) < 3

\* Faulty variant: the MCC's first two digits taken high nibble first.
PlmnIdToNgapMccInOrder(mcc, mnc) ==
    LET hexString ==
            IF Len(mnc) = 2
            THEN <<mcc[1], mcc[2], FillerDigit, mcc[3], mnc[2], mnc[1]>>
            ELSE <<mcc[1], mcc[2], mnc[1], mcc[3], mnc[3], mnc[2]>>
    IN HexDecode(hexString)

\* PlmnIdToNgap(pmcc, pmnc): the three octets of ngapPlmnId.Value.
PlmnIdToNgap(mcc, mnc) ==
    LET hexString ==
            IF Len(mnc) = 2
            THEN <<mcc[2], mcc[1], FillerDigit, mcc[3], mnc[2], mnc[1]>>
            ELSE <<mcc[2], mcc[1], mnc[1], mcc[3], mnc[3], mnc[2]>>
    IN HexDecode(hexString)

-----------------------------------------------------------------------------
(* NasTaiListToModels(nasTais).  The IE value is a sequence of byte        *)
(* values; a TAC of a models.Tai is the hex text hex.EncodeToString makes  *)
(* of its bytes (LineIdentity's Hex), and a PLMN id its digit sequences.   *)

TaiPanic == [panic |-> TRUE]
TaiDecoded(v) == [panic |-> FALSE, value |-> v]

\* nasConvert.PlmnIDToString(buf[1:4]) (free5gc nasConvert, not vendored
\* here), split by the caller into Mcc = [:3] and Mnc = [3:]: the digits
\* MCC 1, 2, 3 and MNC 1, 2, 3 of the TS 24.008 octets, the third MNC digit
\* dropped when it is the filler F.
PlmnIDToString(b) ==
    LET d == <<b[1] % 16, b[1] \div 16, b[2] % 16,
               b[3] % 16, b[3] \div 16, b[2] \div 16>>
        text == IF d[6] = FillerDigit THEN SubSeq(d, 1, 5) ELSE d
    IN [mcc |-> SubSeq(text, 1, 3), mnc |-> From(text, 3)]

\* Faulty variant: the offset steps over four bytes, the length read.
RECURSIVE TacsFromStepFour(_, _)
TacsFromStepFour(buf, offset) ==
    IF offset >= Len(buf) THEN <<>>
    ELSE <<LI!Hex(IF offset + 4 > Len(buf) THEN From(buf, offset)
                  ELSE Slice(buf, offset, offset + 4))>>
         \o TacsFromStepFour(buf, offset + 4)

\* The loop of case 0x00: while offset < len(buf), a TAC of buf[offset:]
\* when fewer than four bytes are left and of buf[offset:offset+4]
\* otherwise, and offset += 3.
RECURSIVE TacsFrom(_, _)
TacsFrom(buf, offset) ==
    IF offset >= Len(buf) THEN <<>>
    ELSE <<LI!Hex(IF offset + 4 > Len(buf) THEN From(buf, offset)
                  ELSE Slice(buf, offset, offset + 4))>>
         \o TacsFrom(buf, offset + 3)

\* The type of list is bits 6-8 of buf[0]; only type 0x00 (one PLMN, then
\* its TACs) is decoded, 0x01 and 0x02 decode to no TAI and others are
\* logged.  buf[0] of an empty value, and buf[1:4] of a shorter one, panic.
NasTaiListToModels(buf) ==
    CASE Len(buf) = 0 -> TaiPanic
      [] buf[1] \div 32 = 0 /\ Len(buf) < 4 -> TaiPanic
      [] buf[1] \div 32 = 0 ->
            LET plmnId == PlmnIDToString(Slice(buf, 1, 4))
                tacs == TacsFrom(buf, 4)
            IN TaiDecoded([i \in DOMAIN tacs |-> [plmnId |-> plmnId, tac |-> tacs[i]]])
      [] OTHER -> TaiDecoded(<<>>)

-----------------------------------------------------------------------------
(* GPRSTimer2ContentToSeconds(content), TS 24.008 10.5.7.4.                *)

SecondsPerMinute == 60
SecondsPerHour == SecondsPerMinute * 60
SecondsPerDecihour == SecondsPerHour \div 10

GPRSTimer2ValueMask == 31                  \* (0x01 << 5) - 1
GPRSTimer2UintMask == 255 - GPRSTimer2ValueMask   \* ^GPRSTimer2ValueMask
GPRSTimer2UintIncrementedInMultiplesOf2Seconds == 0
GPRSTimer2UintIncrementedInMultiplesOf1Minute == 32
GPRSTimer2UintIncrementedInMultiplesOfDecihours == 64
GPRSTimer2UintDeactivated == 224

\* Faulty variant: the decihour unit counted in hours.
GPRSTimer2ContentToSecondsDecihourAsHour(content) ==
    LET value == content & GPRSTimer2ValueMask
    IN CASE content & GPRSTimer2UintMask = GPRSTimer2UintIncrementedInMultiplesOf2Seconds
              -> value * 2
         [] content & GPRSTimer2UintMask = GPRSTimer2UintIncrementedInMultiplesOfDecihours
              -> value * SecondsPerHour
         [] content & GPRSTimer2UintMask = GPRSTimer2UintDeactivated -> 0
         [] OTHER -> value * SecondsPerMinute

\* The switch on the unit bits; 1 minute and every other unit fall to
\* the default, multiples of one minute.
GPRSTimer2ContentToSeconds(content) ==
    LET value == content & GPRSTimer2ValueMask
    IN CASE content & GPRSTimer2UintMask = GPRSTimer2UintIncrementedInMultiplesOf2Seconds
              -> value * 2
         [] content & GPRSTimer2UintMask = GPRSTimer2UintIncrementedInMultiplesOfDecihours
              -> value * SecondsPerDecihour
         [] content & GPRSTimer2UintMask = GPRSTimer2UintDeactivated -> 0
         [] OTHER -> value * SecondsPerMinute

=============================================================================
