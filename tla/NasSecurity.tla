----------------------------- MODULE NasSecurity -----------------------------
(***************************************************************************)
(* The NAS security codec of src/pkg/nas/security.go (Encode, Decode)      *)
(* acting on the security fields of one UEContext, and the peer at the     *)
(* other end of the NAS signalling connection.                             *)
(*                                                                         *)
(* The simulator sends with ue.ULCount (Encode, direction downlink) and    *)
(* receives with ue.DLCount (Decode, direction uplink).  The peer is not   *)
(* code of this repository: it is the UE side as TS 24.501/33.501 define   *)
(* it, keeping its own uplink COUNT and its own estimate of the downlink   *)
(* COUNT from the received SQN.  MACs and ciphertexts are abstract: a MAC  *)
(* is determined by algorithm, COUNT and direction, a ciphertext by the    *)
(* COUNT it was ciphered with.                                             *)
(***************************************************************************)
EXTENDS Naturals, Integers, Sequences, NasCount

CONSTANTS
    IntegrityAlg,      \* ue.IntegrityAlg: "NIA0" (security.AlgIntegrity128NIA0) or "NIA2"
    CipheringAlg,      \* ue.CipheringAlg: "NEA0" or "NEA2"
    Starts,            \* start states: [context |-> both ends hold a security
                       \* context, count |-> COUNT of both directions]
    MaxUp,             \* bound on uplink messages sent by the peer
    MaxDown,           \* bound on downlink messages encoded by the simulator
    MaxTamper,         \* bound on uplink messages whose MAC the network corrupts
    MaxRekey           \* bound on new security contexts taken by the peer

ASSUME /\ IntegrityAlg \in {"NIA0", "NIA2"}
       /\ CipheringAlg \in {"NEA0", "NEA2"}
       /\ Starts \subseteq [context : BOOLEAN, count : 0 .. (2^24 - 1)]
       /\ {MaxUp, MaxDown, MaxTamper, MaxRekey} \subseteq Nat

\* Security header types (free5gc/lib/nas: SecurityHeaderType*)
Plain                 == 0
IntegrityProtected    == 1
ProtectedAndCiphered  == 2
ProtectedNewContext   == 3
CipheredNewContext    == 4
NewContextHeaders     == {ProtectedNewContext, CipheredNewContext}

\* security.DirectionUplink / security.DirectionDownlink
Uplink   == 0
Downlink == 1

\* NASMacCalculate: NIA0 yields the all-zero MAC, a real algorithm a MAC that
\* differs for every COUNT and direction.  Corrupt is a MAC no sender computes.
NoMac   == -2
Corrupt == -1
MacOf(count, dir) == IF IntegrityAlg = "NIA0" THEN 0 ELSE 1 + 2 * count + dir

\* NASEncrypt: NEA0 leaves the payload as it is; otherwise the ciphertext is
\* recovered only by deciphering with the COUNT it was ciphered with.
NoCipher == -1
CipherOf(count) == IF CipheringAlg = "NEA0" THEN NoCipher ELSE count

\* A message on the wire.  count is the COUNT its sender used (-1 for plain).
Message == [hdr : 0 .. 4, framed : BOOLEAN, sqn : 0 .. 255, mac : Int,
            cipher : Int, count : Int, tampered : BOOLEAN]
PlainMsg == [hdr |-> Plain, framed |-> FALSE, sqn |-> 0, mac |-> NoMac,
             cipher |-> NoCipher, count |-> -1, tampered |-> FALSE]

\* ue.SecurityHeaderType as InitNasSecurityCapability leaves it
UESecurityHeaderType == Plain

VARIABLES
    ulCount,     \* ue.ULCount.Count
    dlCount,     \* ue.DLCount.Count
    secCtx,      \* ue.SecurityContextAvailable
    macFailed,   \* ue.MacFailed
    peerCtx,     \* the peer holds a security context
    peerUL,      \* the peer's uplink COUNT
    peerDL,      \* the peer's estimate of the downlink COUNT
    peerNew,     \* the peer's next message announces a new security context
    upl,         \* uplink messages in flight, in sending order
    dnl,         \* downlink messages in flight, in sending order
    lastRx,      \* what the simulator's last Decode of an uplink message saw
    lastTx,      \* what the peer's last check of a downlink message saw
    sentUp, sentDown, tampers, rekeys

vars == <<ulCount, dlCount, secCtx, macFailed, peerCtx, peerUL, peerDL,
          peerNew, upl, dnl, lastRx, lastTx, sentUp, sentDown, tampers, rekeys>>

NoRx == [protected |-> FALSE, count |-> -1, used |-> -1, tampered |-> FALSE,
         secCtx |-> FALSE, plainOk |-> TRUE]
NoTx == [kind |-> "none", count |-> -1, est |-> -1, ok |-> TRUE]

-----------------------------------------------------------------------------
(* The codec                                                               *)

\* Faulty variants of Encode: the SQN taken after the increment, and the MAC
\* computed with the uplink direction.
EncodeSqnAfterAdd(hdr, newSecurityContext) ==
    IF ~secCtx
    THEN [msg |-> PlainMsg, ul |-> ulCount, dl |-> dlCount]
    ELSE [msg |-> [hdr |-> hdr, framed |-> TRUE, sqn |-> GetSQN(AddOne(ulCount)),
                   mac |-> MacOf(ulCount, Downlink), cipher |-> CipherOf(ulCount),
                   count |-> ulCount, tampered |-> FALSE],
          ul |-> AddOne(ulCount), dl |-> dlCount]
EncodeWrongDirection(hdr, newSecurityContext) ==
    IF ~secCtx
    THEN [msg |-> PlainMsg, ul |-> ulCount, dl |-> dlCount]
    ELSE [msg |-> [hdr |-> hdr, framed |-> TRUE, sqn |-> GetSQN(ulCount),
                   mac |-> MacOf(ulCount, Uplink), cipher |-> CipherOf(ulCount),
                   count |-> ulCount, tampered |-> FALSE],
          ul |-> AddOne(ulCount), dl |-> dlCount]

\* nas.Encode(ue, msg, newSecurityContext): the message, ULCount and DLCount
Encode(hdr, newSecurityContext) ==
    IF ~secCtx
    THEN [msg |-> PlainMsg, ul |-> ulCount, dl |-> dlCount]
    ELSE LET c == IF newSecurityContext THEN Set(ulCount, 0, 0) ELSE ulCount
             d == IF newSecurityContext THEN Set(dlCount, 0, 0) ELSE dlCount
         IN [msg |-> [hdr |-> hdr, framed |-> TRUE, sqn |-> GetSQN(c),
                      mac |-> MacOf(Get(c), Downlink), cipher |-> CipherOf(Get(c)),
                      count |-> Get(c), tampered |-> FALSE],
             ul |-> AddOne(c), dl |-> d]

\* Whether deciphering (or not) with COUNT c recovers the plain message
Recovers(m, deciphered, c) ==
    IF m.cipher = NoCipher THEN ~deciphered \/ CipheringAlg = "NEA0"
                           ELSE deciphered /\ c = m.cipher

\* Faulty variants of ReceiveCount: a wrap seen on an equal SQN, no wrap
\* detection at all, and an overflow not truncated to its 16 bits.
ReceiveCountWrapOnEqual(m) ==
    LET c1 == IF m.hdr \in NewContextHeaders THEN Set(dlCount, 0, 0) ELSE dlCount
        c2 == IF GetSQN(c1) >= m.sqn
              THEN SetOverflow(c1, (GetOverflow(c1) + 1) % 2^16) ELSE c1
    IN SetSQN(c2, m.sqn)
ReceiveCountNoWrap(m) ==
    LET c1 == IF m.hdr \in NewContextHeaders THEN Set(dlCount, 0, 0) ELSE dlCount
    IN SetSQN(c1, m.sqn)
ReceiveCountWideOverflow(m) ==
    LET c1 == IF m.hdr \in NewContextHeaders THEN Set(dlCount, 0, 0) ELSE dlCount
        c2 == IF GetSQN(c1) > m.sqn
              THEN SetOverflow(c1, GetOverflow(c1) + 1) ELSE c1
    IN SetSQN(c2, m.sqn)

\* DLCount after the header, the wrap check and SetSQN of nas.Decode
ReceiveCount(m) ==
    LET c1 == IF m.hdr \in NewContextHeaders THEN Set(dlCount, 0, 0) ELSE dlCount
        c2 == IF GetSQN(c1) > m.sqn
              THEN SetOverflow(c1, (GetOverflow(c1) + 1) % 2^16)
              ELSE c1
    IN SetSQN(c2, m.sqn)

\* Faulty variants of Decode: the MAC checked against the COUNT held before
\* this message, every protected message deciphered, and MacFailed only
\* ever set, never cleared, by a protected message.
DecodeStaleMac(m) ==
    IF m.hdr = Plain
    THEN [dl |-> dlCount, macFailed |-> FALSE, plainOk |-> ~m.framed]
    ELSE LET c == ReceiveCount(m)
         IN [dl |-> c, macFailed |-> ~secCtx \/ MacOf(dlCount, Uplink) # m.mac,
             plainOk |-> Recovers(m, secCtx /\ m.hdr # IntegrityProtected, c)]
DecodeAlwaysDecipher(m) ==
    IF m.hdr = Plain
    THEN [dl |-> dlCount, macFailed |-> FALSE, plainOk |-> ~m.framed]
    ELSE LET c == ReceiveCount(m)
         IN [dl |-> c, macFailed |-> ~secCtx \/ MacOf(c, Uplink) # m.mac,
             plainOk |-> Recovers(m, secCtx, c)]
DecodeStickyMacFailed(m) ==
    IF m.hdr = Plain
    THEN [dl |-> dlCount, macFailed |-> FALSE, plainOk |-> ~m.framed]
    ELSE LET c == ReceiveCount(m)
         IN [dl |-> c, macFailed |-> ~secCtx \/ macFailed \/ MacOf(c, Uplink) # m.mac,
             plainOk |-> Recovers(m, secCtx /\ m.hdr # IntegrityProtected, c)]

\* nas.Decode(ue, rgType, securityHeaderType, payload): DLCount, MacFailed
\* and whether the plain message decodes
Decode(m) ==
    IF m.hdr = Plain
    THEN [dl |-> dlCount, macFailed |-> FALSE, plainOk |-> ~m.framed]
    ELSE LET c == ReceiveCount(m)
         IN IF secCtx
            THEN [dl |-> c, macFailed |-> MacOf(Get(c), Uplink) # m.mac,
                  plainOk |-> Recovers(m, m.hdr # IntegrityProtected, Get(c))]
            ELSE [dl |-> c, macFailed |-> TRUE,
                  plainOk |-> Recovers(m, FALSE, Get(c))]

-----------------------------------------------------------------------------
(* The peer (TS 24.501 4.4.3.1: a received SQN below the stored one means  *)
(* the overflow counter wrapped)                                           *)

PeerEstimate(c, m) ==
    LET c1 == IF m.hdr \in NewContextHeaders THEN 0 ELSE c
        ov == (c1 \div 2^8 + (IF c1 % 2^8 > m.sqn THEN 1 ELSE 0)) % 2^16
    IN ov * 2^8 + m.sqn

-----------------------------------------------------------------------------

Init ==
    /\ \E s \in Starts :
          /\ ulCount = s.count
          /\ dlCount = s.count
          /\ secCtx = s.context
          /\ peerCtx = s.context
    /\ macFailed = FALSE
    /\ peerUL = ulCount
    /\ peerDL = dlCount
    /\ peerNew = FALSE
    /\ upl = <<>>
    /\ dnl = <<>>
    /\ lastRx = NoRx
    /\ lastTx = NoTx
    /\ sentUp = 0 /\ sentDown = 0 /\ tampers = 0 /\ rekeys = 0

\* ue.EnableIntegrityProtection()
EnableIntegrityProtection ==
    /\ ~secCtx
    /\ secCtx' = TRUE
    /\ UNCHANGED <<ulCount, dlCount, macFailed, peerCtx, peerUL, peerDL, peerNew,
                   upl, dnl, lastRx, lastTx, sentUp, sentDown, tampers, rekeys>>

\* ue.DisableIntegrityProtection()
DisableIntegrityProtection ==
    /\ secCtx
    /\ secCtx' = FALSE
    /\ UNCHANGED <<ulCount, dlCount, macFailed, peerCtx, peerUL, peerDL, peerNew,
                   upl, dnl, lastRx, lastTx, sentUp, sentDown, tampers, rekeys>>

\* A downlink NAS message built and encoded by the simulator
SendEncoded(hdr, newSecurityContext) ==
    /\ sentDown < MaxDown
    /\ LET e == Encode(hdr, newSecurityContext)
       IN /\ dnl' = Append(dnl, e.msg)
          /\ ulCount' = e.ul
          /\ dlCount' = e.dl
    /\ sentDown' = sentDown + 1
    /\ UNCHANGED <<secCtx, macFailed, peerCtx, peerUL, peerDL, peerNew, upl,
                   lastRx, lastTx, sentUp, tampers, rekeys>>

\* BuildDLNASTransport: header IntegrityProtectedAndCiphered, Encode(ue, m, false)
BuildDLNASTransport == SendEncoded(ProtectedAndCiphered, FALSE)

\* BuildDeregistrationRequest: header ue.SecurityHeaderType, Encode(ue, m, false)
BuildDeregistrationRequest == SendEncoded(UESecurityHeaderType, FALSE)

\* The peer takes a new security context: its COUNTs restart from zero and
\* its next uplink message carries a "new security context" header.
PeerActivate ==
    /\ rekeys < MaxRekey
    /\ peerCtx' = TRUE
    /\ peerUL' = 0
    /\ peerDL' = 0
    /\ peerNew' = TRUE
    /\ rekeys' = rekeys + 1
    /\ UNCHANGED <<ulCount, dlCount, secCtx, macFailed, upl, dnl, lastRx, lastTx,
                   sentUp, sentDown, tampers>>

\* The peer sends an uplink NAS message, protected once it holds a context.
PeerSend ==
    /\ sentUp < MaxUp
    /\ \/ /\ ~peerCtx
          /\ upl' = Append(upl, PlainMsg)
          /\ UNCHANGED <<peerUL, peerNew>>
       \/ /\ peerCtx
          /\ \E hdr \in IF peerNew THEN {CipheredNewContext}
                                   ELSE {IntegrityProtected, ProtectedAndCiphered}:
               upl' = Append(upl,
                        [hdr |-> hdr, framed |-> TRUE, sqn |-> peerUL % 2^8,
                         mac |-> MacOf(peerUL, Uplink),
                         cipher |-> IF hdr = IntegrityProtected THEN NoCipher
                                                               ELSE CipherOf(peerUL),
                         count |-> peerUL, tampered |-> FALSE])
          /\ peerUL' = (peerUL + 1) % 2^24
          /\ peerNew' = FALSE
    /\ sentUp' = sentUp + 1
    /\ UNCHANGED <<ulCount, dlCount, secCtx, macFailed, peerCtx, peerDL, dnl,
                   lastRx, lastTx, sentDown, tampers, rekeys>>

\* A protected uplink message has a MAC byte corrupted on the way.
TamperUplink ==
    /\ tampers < MaxTamper
    /\ \E i \in 1 .. Len(upl):
         /\ upl[i].hdr # Plain
         /\ ~upl[i].tampered
         /\ upl' = [upl EXCEPT ![i].mac = Corrupt, ![i].tampered = TRUE]
    /\ tampers' = tampers + 1
    /\ UNCHANGED <<ulCount, dlCount, secCtx, macFailed, peerCtx, peerUL, peerDL,
                   peerNew, dnl, lastRx, lastTx, sentUp, sentDown, rekeys>>

\* One call of nas.Decode on this UEContext for the next uplink message,
\* with the header type of its first octet.  The association delivers in
\* order.  (main.go's handlers decode each frame on a fresh UEContext, so
\* no UE of the program decodes twice: this is the library contract.)
DecodeUplink ==
    /\ upl # <<>>
    /\ LET m == Head(upl)
           r == Decode(m)
       IN /\ dlCount' = r.dl
          /\ macFailed' = r.macFailed
          /\ lastRx' = [protected |-> m.hdr # Plain, count |-> m.count,
                        used |-> r.dl, tampered |-> m.tampered,
                        secCtx |-> secCtx, plainOk |-> r.plainOk]
    /\ upl' = Tail(upl)
    /\ UNCHANGED <<ulCount, secCtx, peerCtx, peerUL, peerDL, peerNew, dnl,
                      lastTx, sentUp, sentDown, tampers, rekeys>>

\* The peer receives the next downlink message (SCTP delivers in order).
PeerReceive ==
    /\ dnl # <<>>
    /\ LET m == Head(dnl)
           est == PeerEstimate(peerDL, m)
       IN \/ /\ m.hdr = Plain
             /\ lastTx' = [NoTx EXCEPT !.kind = IF m.framed THEN "garbled" ELSE "plain"]
             /\ UNCHANGED peerDL
          \/ /\ m.hdr # Plain
             /\ ~peerCtx
             /\ lastTx' = [NoTx EXCEPT !.kind = "noctx"]
             /\ UNCHANGED peerDL
          \/ /\ m.hdr # Plain
             /\ peerCtx
             /\ peerDL' = est
             /\ lastTx' = [kind |-> "checked", count |-> m.count, est |-> est,
                           ok |-> m.mac = MacOf(est, Downlink)
                                  /\ (m.cipher = NoCipher \/ m.cipher = est)]
    /\ dnl' = Tail(dnl)
    /\ UNCHANGED <<ulCount, dlCount, secCtx, macFailed, peerCtx, peerUL, peerNew,
                   upl, lastRx, sentUp, sentDown, tampers, rekeys>>

Next ==
    \/ EnableIntegrityProtection
    \/ DisableIntegrityProtection
    \/ BuildDLNASTransport
    \/ BuildDeregistrationRequest
    \/ PeerActivate
    \/ PeerSend
    \/ TamperUplink
    \/ DecodeUplink
    \/ PeerReceive

Spec == Init /\ [][Next]_vars

-----------------------------------------------------------------------------
(* Properties                                                              *)

TypeOK ==
    /\ ulCount \in 0 .. (2^24 - 1) /\ dlCount \in 0 .. (2^24 - 1)
    /\ peerUL \in 0 .. (2^24 - 1) /\ peerDL \in 0 .. (2^24 - 1)
    /\ secCtx \in BOOLEAN /\ macFailed \in BOOLEAN
    /\ peerCtx \in BOOLEAN /\ peerNew \in BOOLEAN
    /\ upl \in Seq(Message) /\ dnl \in Seq(Message)
    /\ lastTx.kind \in {"none", "plain", "garbled", "noctx", "checked"}

\* Decode's wrap detection (security.go:99-102) and the reset on a
\* new-context header reconstruct, for every protected uplink message, the
\* very COUNT the peer sent it with, across SQN and overflow wraparound.
DLCountTracksPeer ==
    lastRx.protected => lastRx.used = lastRx.count

\* With a security context, Decode flags MacFailed exactly for the messages
\* whose MAC was corrupted, and every intact message deciphers to its plain
\* content (security.go:104-126).
MacVerdictSound ==
    (lastRx.protected /\ lastRx.secCtx) =>
        /\ macFailed = lastRx.tampered
        /\ ~lastRx.tampered => lastRx.plainOk

\* Every protected downlink message the simulator encodes (security.go:32-61)
\* is verified by a peer holding a context: the SQN it carries lets the peer
\* reconstruct the COUNT the MAC and the ciphering were computed with.
DownlinkVerifies ==
    lastTx.kind = "checked" => (lastTx.est = lastTx.count /\ lastTx.ok)

=============================================================================
