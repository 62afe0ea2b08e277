------------------------------ MODULE UEContext ------------------------------
(***************************************************************************)
(* The bookkeeping of src/pkg/context/ue.go and the AMF-side UE index of   *)
(* src/pkg/context/amf.go, for a few UEs and AMFs.                         *)
(*                                                                         *)
(* Per UE: the AMF-UE-NGAP id, the attached AMF, the PDU-session slot      *)
(* flags (PduSessionIDList), the sessions (PduSessionList), the extended   *)
(* states (PduSessionExtendedList), the QoS rules (AuthorizedQosRulesList),*)
(* the Establishing flag and the one-slot deregistration semaphore.  Per   *)
(* AMF: the UEContextAMFUENGAPID map.  A Go map is a function whose domain *)
(* is the set of keys present; a session record is abstracted to its key.  *)
(*                                                                         *)
(* The operations are library methods with no caller in src: the actions *)
(* let the environment call them with any of a few arguments, in any      *)
(* order.  Where Next narrows the arguments to what a caller would pass,  *)
(* a comment there says so; the operations themselves are as the code.    *)
(***************************************************************************)
EXTENDS Naturals, FiniteSets, Functions, TLC

CONSTANTS
    UEs,          \* the UE contexts
    AMFs,         \* the AMF contexts
    AmfIds,       \* AMF-UE-NGAP ids the peer may assign
    SessionIds,   \* PDU session ids the callers pass
    NumSlots,     \* the highest slot id: 15 in the code (pduSessionID < 16)
    ExtStates,    \* the extended states callers store (PDUSessionState* constants)
    Nil,          \* a nil *AMFContext
    Unspecified   \* AmfUeNgapIdUnspecified

ASSUME /\ NumSlots \in Nat \ {0}
       /\ Nil \notin AMFs /\ Unspecified \notin AmfIds
       /\ "Established" \in ExtStates /\ "Released" \in ExtStates

\* The slots NewPDUSessionID and GetPDUSessionStatus walk: 1 .. 15
Slots == 1 .. NumSlots

\* A Go map with key k removed
Drop(f, k) == Restrict(f, DOMAIN f \ {k})

\* A Go map with f[k] set to v
Put(f, k, v) == (k :> v) @@ f

\* The empty Go map
EmptyMap == [k \in {} |-> Nil]

VARIABLES
    amfUeNgapId,   \* ue.AmfUeNgapId
    currentAMF,    \* ue.CurrentAMF
    index,         \* amf.UEContextAMFUENGAPID, per AMF
    idList,        \* ue.PduSessionIDList
    sessions,      \* DOMAIN ue.PduSessionList
    extended,      \* ue.PduSessionExtendedList: id -> State ("" when only Type was stored)
    qosRules,      \* DOMAIN ue.AuthorizedQosRulesList
    establishing,  \* ue.Establishing
    semTokens,     \* tokens in ue.BinarySemaphoreDeregistration (capacity 1)
    stored         \* auxiliary: the <<AMF, UE>> pairs stored and not yet detached

vars == <<amfUeNgapId, currentAMF, index, idList, sessions, extended, qosRules,
          establishing, semTokens, stored>>

-----------------------------------------------------------------------------
(* Queries                                                                 *)

\* ue.LoadPduSessionIDList(uint8(id)): the flag of the key truncated to 8 bits
LoadPduSessionIDList(u, id) ==
    LET k == id % 256 IN k \in DOMAIN idList[u] /\ idList[u][k]

\* ue.NewPDUSessionID(): the lowest free slot, 0 when all are taken
NewPDUSessionID(u) ==
    LET free == {s \in Slots : s \in DOMAIN idList[u] /\ ~idList[u][s]}
    IN IF free = {} THEN 0 ELSE CHOOSE s \in free : \A t \in free : s <= t

\* ue.GetPDUSessionStatus(): entry psi of 1..15 is set when PduSessionList
\* has a session psi; entry 0 is never set.
GetPDUSessionStatus(u) == [psi \in 0 .. 15 |-> psi # 0 /\ psi \in sessions[u]]

\* amf.LoadUEContextAMFUENGAPID(id): the UE stored under id, and whether
\* there is one.
LoadUEContextAMFUENGAPID(a, k) ==
    IF k \in DOMAIN index[a] THEN [ue |-> index[a][k], ok |-> TRUE]
    ELSE [ue |-> Nil, ok |-> FALSE]

-----------------------------------------------------------------------------
(* Initial state                                                           *)

\* ue.Init(ranUeNgapId) on every UE: id unspecified, slots 1..15 free,
\* empty maps, Establishing false, one token in the semaphore; no AMF.
Init ==
    /\ amfUeNgapId = [u \in UEs |-> Unspecified]
    /\ currentAMF = [u \in UEs |-> Nil]
    /\ index = [a \in AMFs |-> EmptyMap]
    /\ idList = [u \in UEs |-> [s \in Slots |-> FALSE]]
    /\ sessions = [u \in UEs |-> {}]
    /\ extended = [u \in UEs |-> EmptyMap]
    /\ qosRules = [u \in UEs |-> {}]
    /\ establishing = [u \in UEs |-> FALSE]
    /\ semTokens = [u \in UEs |-> 1]
    /\ stored = {}

-----------------------------------------------------------------------------
(* AMF attachment and the AMF-side index                                   *)

\* amf.DeleteUEContextAMFUENGAPID(id): the index with the key removed
DeleteUEContextAMFUENGAPID(a, k) == [index EXCEPT ![a] = Drop(@, k)]

\* The index after ue.DetachAMF(): the current AMF, if any, forgets the
\* UE's id.  CurrentAMF itself is left as it is.
DetachedIndex(u) ==
    IF currentAMF[u] = Nil THEN index
    ELSE DeleteUEContextAMFUENGAPID(currentAMF[u], amfUeNgapId[u])

\* The stored pairs DetachAMF ends
DetachedStored(u) == stored \ {<<currentAMF[u], u>>}

\* A handler records the AMF-UE-NGAP id the peer assigned, on first sight
\* (InitTestUe: ue.AmfUeNgapId = 999 on a fresh UE).
SetAmfUeNgapId(u, k) ==
    /\ amfUeNgapId[u] = Unspecified
    /\ amfUeNgapId' = [amfUeNgapId EXCEPT ![u] = k]
    /\ UNCHANGED <<currentAMF, index, idList, sessions, extended, qosRules,
                   establishing, semTokens, stored>>

\* Faulty variants of AttachAMF: no detach from the old AMF, and a detach
\* even when re-attaching to the same AMF.
AttachAMFNoDetach(u, a) ==
    /\ index' = index
    /\ stored' = IF currentAMF[u] # a THEN DetachedStored(u) ELSE stored
    /\ currentAMF' = [currentAMF EXCEPT ![u] = a]
    /\ UNCHANGED <<amfUeNgapId, idList, sessions, extended, qosRules,
                   establishing, semTokens>>
AttachAMFAlwaysDetach(u, a) ==
    /\ index' = DetachedIndex(u)
    /\ stored' = IF currentAMF[u] # a THEN DetachedStored(u) ELSE stored
    /\ currentAMF' = [currentAMF EXCEPT ![u] = a]
    /\ UNCHANGED <<amfUeNgapId, idList, sessions, extended, qosRules,
                   establishing, semTokens>>

\* ue.AttachAMF(amf): detach from a different current AMF, then attach
AttachAMF(u, a) ==
    /\ index' = IF currentAMF[u] # a THEN DetachedIndex(u) ELSE index
    /\ stored' = IF currentAMF[u] # a THEN DetachedStored(u) ELSE stored
    /\ currentAMF' = [currentAMF EXCEPT ![u] = a]
    /\ UNCHANGED <<amfUeNgapId, idList, sessions, extended, qosRules,
                   establishing, semTokens>>

\* ue.DetachAMF()
DetachAMF(u) ==
    /\ index' = DetachedIndex(u)
    /\ stored' = DetachedStored(u)
    /\ UNCHANGED <<amfUeNgapId, currentAMF, idList, sessions, extended, qosRules,
                   establishing, semTokens>>

\* Faulty variant of StoreUEContextAMFUENGAPID: no check for an
\* unspecified id.
StoreAnyId(a, u) ==
    /\ currentAMF[u] = a
    /\ index' = [index EXCEPT ![a] = Put(@, amfUeNgapId[u], u)]
    /\ stored' = stored \cup {<<a, u>>}
    /\ UNCHANGED <<amfUeNgapId, currentAMF, idList, sessions, extended, qosRules,
                   establishing, semTokens>>

\* amf.StoreUEContextAMFUENGAPID(ue), called for the AMF the UE is attached
\* to; an unspecified id is not stored, a stored id is overwritten.
StoreUEContextAMFUENGAPID(a, u) ==
    /\ currentAMF[u] = a
    /\ amfUeNgapId[u] # Unspecified
    /\ index' = [index EXCEPT ![a] = Put(@, amfUeNgapId[u], u)]
    /\ stored' = stored \cup {<<a, u>>}
    /\ UNCHANGED <<amfUeNgapId, currentAMF, idList, sessions, extended, qosRules,
                   establishing, semTokens>>

\* amf.EmptyUEContext(): every entry of the map deleted; the UEs keep their
\* CurrentAMF, and the stores it ends are over.
EmptyUEContext(a) ==
    /\ index' = [index EXCEPT ![a] = EmptyMap]
    /\ stored' = {p \in stored : p[1] # a}
    /\ UNCHANGED <<amfUeNgapId, currentAMF, idList, sessions, extended, qosRules,
                   establishing, semTokens>>

-----------------------------------------------------------------------------
(* PDU sessions                                                            *)

\* ue.CreatePDUSession(id, snssai); an existing id is an error and changes
\* nothing.  No check that id is a slot.
CreatePDUSession(u, id) ==
    /\ id \notin sessions[u]
    /\ idList' = [idList EXCEPT ![u] = Put(@, id, TRUE)]
    /\ sessions' = [sessions EXCEPT ![u] = @ \cup {id}]
    /\ UNCHANGED <<amfUeNgapId, currentAMF, index, extended, qosRules,
                   establishing, semTokens, stored>>

\* A caller that takes the id from ue.NewPDUSessionID()
CreateNewPDUSession(u) == CreatePDUSession(u, NewPDUSessionID(u))

\* ue.DeleteAuthorizedQosRule(id)
DeleteAuthorizedQosRule(u, id) == [qosRules EXCEPT ![u] = @ \ {id}]

\* Faulty variant of DeletePDUSession: the QoS rule is not deleted.
DeletePDUSessionKeepQos(u, id) ==
    /\ LoadPduSessionIDList(u, id)
    /\ idList' = [idList EXCEPT ![u] = Put(@, id, FALSE)]
    /\ IF id \in sessions[u]
       THEN /\ extended' = [extended EXCEPT ![u] = Put(@, id, "Released")]
            /\ sessions' = [sessions EXCEPT ![u] = @ \ {id}]
       ELSE UNCHANGED <<extended, sessions>>
    /\ UNCHANGED <<qosRules, amfUeNgapId, currentAMF, index, establishing,
                   semTokens, stored>>

\* ue.DeletePDUSession(id): the flag looked up under uint8(id) must be set,
\* else an error and no change; the flag of id is cleared, and if a session
\* id exists it is marked Released and deleted with its QoS rule.
DeletePDUSession(u, id) ==
    /\ LoadPduSessionIDList(u, id)
    /\ idList' = [idList EXCEPT ![u] = Put(@, id, FALSE)]
    /\ IF id \in sessions[u]
       THEN /\ extended' = [extended EXCEPT ![u] = Put(@, id, "Released")]
            /\ sessions' = [sessions EXCEPT ![u] = @ \ {id}]
            /\ qosRules' = DeleteAuthorizedQosRule(u, id)
       ELSE UNCHANGED <<extended, sessions, qosRules>>
    /\ UNCHANGED <<amfUeNgapId, currentAMF, index, establishing, semTokens,
                   stored>>

\* Faulty variant of Remove: the slot flags are left set.
RemoveKeepFlags(u) ==
    /\ index' = DetachedIndex(u)
    /\ stored' = DetachedStored(u)
    /\ sessions' = [sessions EXCEPT ![u] = {}]
    /\ qosRules' = [qosRules EXCEPT ![u] = @ \ sessions[u]]
    /\ UNCHANGED <<idList, amfUeNgapId, currentAMF, extended, establishing,
                   semTokens>>

\* ue.Remove(): DetachAMF, then every session's flag cleared, the session
\* and its QoS rule deleted.  Extended states and CurrentAMF stay.
Remove(u) ==
    /\ index' = DetachedIndex(u)
    /\ stored' = DetachedStored(u)
    /\ idList' = [idList EXCEPT ![u] =
                    [k \in DOMAIN @ |-> IF k \in sessions[u] THEN FALSE ELSE @[k]]]
    /\ sessions' = [sessions EXCEPT ![u] = {}]
    /\ qosRules' = [qosRules EXCEPT ![u] = @ \ sessions[u]]
    /\ UNCHANGED <<amfUeNgapId, currentAMF, extended, establishing, semTokens>>

\* ue.StorePDUSessionExtendedStateCause(id, state, cause): the entry's
\* State set, the entry made if there is none.
StorePDUSessionExtendedStateCause(u, id, st) ==
    /\ extended' = [extended EXCEPT ![u] = Put(@, id, st)]
    /\ UNCHANGED <<amfUeNgapId, currentAMF, index, idList, sessions, qosRules,
                   establishing, semTokens, stored>>

\* ue.StorePDUSessionExtendedType(id, type): a new entry has an empty State;
\* on an existing entry only the Type (not modelled) changes.
StorePDUSessionExtendedType(u, id) ==
    /\ id \notin DOMAIN extended[u]
    /\ extended' = [extended EXCEPT ![u] = Put(@, id, "")]
    /\ UNCHANGED <<amfUeNgapId, currentAMF, index, idList, sessions, qosRules,
                   establishing, semTokens, stored>>

\* ue.StoreAuthorizedQosRule(id, rules)
StoreAuthorizedQosRule(u, id) ==
    /\ qosRules' = [qosRules EXCEPT ![u] = @ \cup {id}]
    /\ UNCHANGED <<amfUeNgapId, currentAMF, index, idList, sessions, extended,
                   establishing, semTokens, stored>>

\* ue.EstablishmentEnable() / ue.EstablishmentDisable()
EstablishmentEnable(u) ==
    /\ establishing' = [establishing EXCEPT ![u] = FALSE]
    /\ UNCHANGED <<amfUeNgapId, currentAMF, index, idList, sessions, extended,
                   qosRules, semTokens, stored>>
EstablishmentDisable(u) ==
    /\ establishing' = [establishing EXCEPT ![u] = TRUE]
    /\ UNCHANGED <<amfUeNgapId, currentAMF, index, idList, sessions, extended,
                   qosRules, semTokens, stored>>

-----------------------------------------------------------------------------
(* The deregistration semaphore: a channel of capacity 1                   *)

\* ue.TakeBinarySemaphoreDeregistration(): receive blocks on an empty channel
TakeBinarySemaphoreDeregistration(u) ==
    /\ semTokens[u] > 0
    /\ semTokens' = [semTokens EXCEPT ![u] = @ - 1]
    /\ UNCHANGED <<amfUeNgapId, currentAMF, index, idList, sessions, extended,
                   qosRules, establishing, stored>>

\* ue.GiveBinarySemaphoreDeregistration(): send blocks on a full channel
GiveBinarySemaphoreDeregistration(u) ==
    /\ semTokens[u] < 1
    /\ semTokens' = [semTokens EXCEPT ![u] = @ + 1]
    /\ UNCHANGED <<amfUeNgapId, currentAMF, index, idList, sessions, extended,
                   qosRules, establishing, stored>>

-----------------------------------------------------------------------------

Next ==
    \/ \E a \in AMFs : EmptyUEContext(a)
    \/ \E u \in UEs :
       \* the peer gives each UE an id of its own
       \/ \E k \in AmfIds \ Range(amfUeNgapId) : SetAmfUeNgapId(u, k)
       \/ \E a \in AMFs : AttachAMF(u, a) \/ StoreUEContextAMFUENGAPID(a, u)
       \/ DetachAMF(u)
       \/ Remove(u)
       \/ CreateNewPDUSession(u)
       \/ \E id \in SessionIds :
             \/ CreatePDUSession(u, id)
             \/ DeletePDUSession(u, id)
             \/ StorePDUSessionExtendedType(u, id)
             \/ \E st \in ExtStates \ {"Established"} :
                   StorePDUSessionExtendedStateCause(u, id, st)
       \* QoS rules and the Established state arrive for a session that exists
       \* (PDU Session Establishment Accept, Resource Setup Response)
       \/ \E id \in sessions[u] :
             \/ StoreAuthorizedQosRule(u, id)
             \/ StorePDUSessionExtendedStateCause(u, id, "Established")
       \/ EstablishmentEnable(u)
       \/ EstablishmentDisable(u)
       \/ TakeBinarySemaphoreDeregistration(u)
       \/ GiveBinarySemaphoreDeregistration(u)

Spec == Init /\ [][Next]_vars

-----------------------------------------------------------------------------
(* Properties                                                              *)

TypeOK ==
    /\ amfUeNgapId \in [UEs -> AmfIds \cup {Unspecified}]
    /\ currentAMF \in [UEs -> AMFs \cup {Nil}]
    /\ \A a \in AMFs : index[a] \in [DOMAIN index[a] -> UEs]
                     /\ DOMAIN index[a] \subseteq AmfIds
    /\ \A u \in UEs : /\ idList[u] \in [DOMAIN idList[u] -> BOOLEAN]
                     /\ extended[u] \in [DOMAIN extended[u] -> ExtStates \cup {""}]
    /\ semTokens \in [UEs -> 0 .. 1]
    /\ establishing \in [UEs -> BOOLEAN]

\* The slot flags of PduSessionIDList, which NewPDUSessionID walks, agree
\* with the status GetPDUSessionStatus reports from PduSessionList: a slot
\* is marked in use exactly when the status shows its session, whatever
\* sequence of CreatePDUSession, DeletePDUSession (with its uint8 lookup)
\* and Remove ran.
SlotFlagMatchesSession ==
    \A u \in UEs : \A s \in Slots : idList[u][s] <=> GetPDUSessionStatus(u)[s]

\* Every AuthorizedQosRulesList entry belongs to a live session: deleting a
\* session (DeletePDUSession, Remove) also deletes its rules.
QosRulesOnlyForLiveSessions ==
    \A u \in UEs : qosRules[u] \subseteq sessions[u]

\* The extended state never reports a session Established after the
\* session is gone: every path that deletes a session (DeletePDUSession,
\* Remove) leaves a released state behind.
NoEstablishedWithoutSession ==
    \A u \in UEs : \A id \in DOMAIN extended[u] :
        extended[u][id] = "Established" => id \in sessions[u]

\* Every PDU session a caller creates with the id ue.NewPDUSessionID()
\* hands out lies in the slot range 1..15, and so shows in the status
\* GetPDUSessionStatus reports (spec.md 3 and 4.1: allocation returns the
\* lowest free id of 1..15, or none when all are taken).  This is about
\* NewPDUSessionID's return value on exhaustion and CreatePDUSession's
\* acceptance of any id.
SessionIdsInSlots ==
    \A u \in UEs : sessions[u] \subseteq Slots

\* Every entry of an AMF's UEContextAMFUENGAPID map names a UE attached to
\* that AMF under that id: AttachAMF and DetachAMF leave no entry behind
\* in an AMF the UE has left.
IndexEntriesPointBack ==
    \A a \in AMFs : \A k \in DOMAIN index[a] :
        currentAMF[index[a][k]] = a /\ amfUeNgapId[index[a][k]] = k

\* A UE stored in its AMF's map stays findable there under its id until it
\* detaches: no other UE's store or detach removes or overwrites it.
StoredUEsFindable ==
    \A <<a, u>> \in stored :
        LoadUEContextAMFUENGAPID(a, amfUeNgapId[u]) = [ue |-> u, ok |-> TRUE]

=============================================================================
