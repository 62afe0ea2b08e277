----------------------------- MODULE NssaiCodec -----------------------------
(***************************************************************************)
(* The NAS NSSAI decoders of src/pkg/util/conversion.go: one S-NSSAI       *)
(* (NasSnssaiToModels, NasRejectedSnssaiToModels) and the list decoders   *)
(* of the Allowed, Configured and Rejected NSSAI IEs built on them.        *)
(*                                                                         *)
(* The IE value is a sequence of byte values, and its length field         *)
(* (GetLen) is the length of that value, as the NAS decoder sets it.  A    *)
(* decoder returns NssaiDecoded(v), or NssaiPanic for an index or a slice *)
(* past the end of the buffer.  The SD of a models.Snssai is the text     *)
(* hex.EncodeToString makes of its bytes, the hex digit sequence of       *)
(* LineIdentity's Hex.                                                     *)
(***************************************************************************)
EXTENDS Naturals, Sequences

LOCAL LI == INSTANCE LineIdentity
LOCAL From(s, a) == SubSeq(s, a + 1, Len(s))
LOCAL Slice(s, a, b) == SubSeq(s, a + 1, b)

NssaiPanic == [panic |-> TRUE]
NssaiDecoded(v) == [panic |-> FALSE, value |-> v]

\* models.Snssai{Sst, Sd}; the zero value has SST 0 and the empty SD.
Snssai(sst, sd) == [sst |-> sst, sd |-> sd]
ZeroSnssai == Snssai(0, <<>>)

\* One S-NSSAI read from the head of buf, and the bytes it took.
SnssaiRead(s, length) == [snssai |-> s, length |-> length]

\* NasSnssaiToModels(buf): the length byte selects SST alone (1) or SST and
\* SD (4); any other length is logged and read as the zero S-NSSAI of
\* length 0.
NasSnssaiToModels(buf) ==
    CASE Len(buf) = 0 -> NssaiPanic                              \* buf[0]
      [] buf[1] = 1 /\ Len(buf) < 2 -> NssaiPanic                \* buf[1]
      [] buf[1] = 1 -> NssaiDecoded(SnssaiRead(Snssai(buf[2], <<>>), 2))
      [] buf[1] = 4 /\ Len(buf) < 5 -> NssaiPanic                \* buf[2:5]
      [] buf[1] = 4 ->
            NssaiDecoded(SnssaiRead(Snssai(buf[2], LI!Hex(Slice(buf, 2, 5))), 5))
      [] OTHER -> NssaiDecoded(SnssaiRead(ZeroSnssai, 0))

\* Faulty variant: the loop stops one S-NSSAI before its limit.
RECURSIVE DecodeNssaiFromEarlyStop(_, _, _, _, _)
DecodeNssaiFromEarlyStop(buf, offset, total, limit, acc) ==
    IF offset >= Len(buf) THEN NssaiDecoded(acc)
    ELSE LET r == NasSnssaiToModels(From(buf, offset))
         IN IF r.panic THEN NssaiPanic
            ELSE IF total + 1 = limit - 1
                 THEN NssaiDecoded(Append(acc, r.value.snssai))
                 ELSE DecodeNssaiFromEarlyStop(buf, offset + r.value.length,
                          total + 1, limit, Append(acc, r.value.snssai))

\* The loop of NasAllowedNssaiToModels and NasConfiguredNssaiToModels: read
\* S-NSSAIs from buf[offset:] while offset < GetLen(), and stop after limit
\* of them.
RECURSIVE DecodeNssaiFrom(_, _, _, _, _)
DecodeNssaiFrom(buf, offset, total, limit, acc) ==
    IF offset >= Len(buf) THEN NssaiDecoded(acc)
    ELSE LET r == NasSnssaiToModels(From(buf, offset))
         IN IF r.panic THEN NssaiPanic
            ELSE IF total + 1 = limit
                 THEN NssaiDecoded(Append(acc, r.value.snssai))
                 ELSE DecodeNssaiFrom(buf, offset + r.value.length,
                          total + 1, limit, Append(acc, r.value.snssai))

\* Limits of the two list decoders (TS 24.501: at most 8 allowed and 16
\* configured S-NSSAIs).
MaxAllowedNssai == 8
MaxConfiguredNssai == 16

NasAllowedNssaiToModels(buf) == DecodeNssaiFrom(buf, 0, 0, MaxAllowedNssai, <<>>)
NasConfiguredNssaiToModels(buf) ==
    DecodeNssaiFrom(buf, 0, 0, MaxConfiguredNssai, <<>>)

-----------------------------------------------------------------------------
\* nasMessage.RejectedSnssaiCauseNotAvailableInCurrentPlmn and
\* ...NotAvailableInCurrentRegistrationArea.
CauseNotAvailableInCurrentPlmn == 0
CauseNotAvailableInCurrentRegistrationArea == 1

\* Faulty variant: the length of an S-NSSAI with an SD taken as its
\* contents alone, without the length-and-cause byte.
NasRejectedSnssaiToModelsShortLength(buf) ==
    LET len == buf[1] \div 16
        cause == buf[1] % 16
    IN CASE len = 1 /\ Len(buf) < 2 -> NssaiPanic
         [] len = 1 -> NssaiDecoded([snssai |-> Snssai(buf[2], <<>>), length |-> 2,
                                cause |-> cause])
         [] len \in {2, 3, 4} /\ (Len(buf) < 2 \/ len + 1 > Len(buf)) -> NssaiPanic
         [] len \in {2, 3, 4} ->
               NssaiDecoded([snssai |-> Snssai(buf[2],
                            LI!Hex(IF len + 1 >= Len(buf) THEN Slice(buf, 2, len + 1)
                                   ELSE From(buf, 2))),
                        length |-> len, cause |-> cause])
         [] OTHER -> NssaiDecoded([snssai |-> ZeroSnssai, length |-> 0, cause |-> cause])

\* NasRejectedSnssaiToModels(buf): the high nibble of the first byte is the
\* contents' length, the low nibble the cause.  For a length of 2 to 4 the
\* SD is buf[2:len+1] when that reaches the end of buf, and all of buf[2:]
\* otherwise; the S-NSSAI's length is len+1 either way.
NasRejectedSnssaiToModels(buf) ==
    LET len == buf[1] \div 16
        cause == buf[1] % 16
    IN CASE len = 1 /\ Len(buf) < 2 -> NssaiPanic
         [] len = 1 -> NssaiDecoded([snssai |-> Snssai(buf[2], <<>>), length |-> 2,
                                cause |-> cause])
         [] len \in {2, 3, 4} /\ (Len(buf) < 2 \/ len + 1 > Len(buf)) -> NssaiPanic
         [] len \in {2, 3, 4} ->
               NssaiDecoded([snssai |-> Snssai(buf[2],
                            LI!Hex(IF len + 1 >= Len(buf) THEN Slice(buf, 2, len + 1)
                                   ELSE From(buf, 2))),
                        length |-> len + 1, cause |-> cause])
         [] OTHER -> NssaiDecoded([snssai |-> ZeroSnssai, length |-> 0, cause |-> cause])

\* The loop of NasRejectedNssaiToModels: each rejected S-NSSAI goes to the
\* PLMN or the registration-area list by its cause, any other cause drops
\* it; at most 8 are read.
RECURSIVE DecodeRejectedFrom(_, _, _, _)
DecodeRejectedFrom(buf, offset, total, acc) ==
    IF offset >= Len(buf) THEN NssaiDecoded(acc)
    ELSE LET r == NasRejectedSnssaiToModels(From(buf, offset))
         IN IF r.panic THEN NssaiPanic
            ELSE LET s == r.value.snssai
                     acc2 == CASE r.value.cause = CauseNotAvailableInCurrentPlmn ->
                                     [acc EXCEPT !.inPlmn = Append(@, s)]
                               [] r.value.cause = CauseNotAvailableInCurrentRegistrationArea ->
                                     [acc EXCEPT !.inTai = Append(@, s)]
                               [] OTHER -> acc
                 IN IF total + 1 = MaxAllowedNssai THEN NssaiDecoded(acc2)
                    ELSE DecodeRejectedFrom(buf, offset + r.value.length,
                                            total + 1, acc2)

NasRejectedNssaiToModels(buf) ==
    DecodeRejectedFrom(buf, 0, 0, [inPlmn |-> <<>>, inTai |-> <<>>])

=============================================================================
