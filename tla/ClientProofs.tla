---------------------------- MODULE ClientProofs ----------------------------
(***************************************************************************)
(* Proofs about the client model of Client.tla, for every value of the     *)
(* constants that satisfies ConstantsAssumption.                           *)
(***************************************************************************)
EXTENDS Client, TLAPS

ContactsType == [ContactIds -> ContactRec \cup {NoContact}]
ConvsType    == [Nicknames -> [MIDs -> MsgRec \cup {NoMsg}]]
SendMapType  == [Tids -> Desc \cup {NoDesc}]
TransportType == [Tids -> {"none", "submitted", "sent"}]

(* sendMap.Store of well-formed descriptors under fresh transport ids     *)
(* keeps the send map, the session's table and its id counter typed.      *)
LEMMA StoreAllType ==
    ASSUME NEW reqs \in Seq(Desc),
           sendMap \in SendMapType, transport \in TransportType,
           nextTid \in 1..(MaxTid + 1),
           StoreAll(reqs)
    PROVE  /\ sendMap' \in SendMapType
           /\ transport' \in TransportType
           /\ nextTid' \in 1..(MaxTid + 1)
<1>1. sendMap' \in SendMapType
  <2>1. ASSUME NEW t \in Tids, t >= nextTid, t < nextTid + Len(reqs)
        PROVE  reqs[t - nextTid + 1] \in Desc
    BY <2>1, ConstantsAssumption DEF Tids
  <2>2. QED BY <2>1 DEF StoreAll, SendMapType
<1>2. transport' \in TransportType
  BY DEF StoreAll, TransportType
<1>3. nextTid' \in 1..(MaxTid + 1)
  BY ConstantsAssumption DEF StoreAll
<1>4. QED BY <1>1, <1>2, <1>3

(* save() writes the state file from typed memory.                        *)
LEMMA SaveStateType ==
    ASSUME contacts' \in ContactsType, conversations' \in ConvsType,
           readOffset' \in Nat, SaveState
    PROVE  persisted' \in [contacts: ContactsType, conversations: ConvsType,
                           readOffset: Nat]
BY DEF SaveState

(* garbageCollectConversations keeps the conversations typed.             *)
LEMMA CollectGarbageType ==
    ASSUME NEW convs \in ConvsType
    PROVE  CollectGarbage(convs) \in ConvsType
<1>1. ASSUME NEW n \in Nicknames, NEW m \in MIDs, convs[n][m] \in MsgRec
      PROVE  [convs[n][m] EXCEPT !.hasCipher = FALSE] \in MsgRec
  BY <1>1 DEF MsgRec
<1>2. \A n \in Nicknames, m \in MIDs : convs[n][m] \in MsgRec \cup {NoMsg}
  BY DEF ConvsType
<1>3. QED BY <1>1, <1>2 DEF CollectGarbage, ConvsType

(* A process restarted from a typed state file has typed contact maps.   *)
LEMMA LoadedType ==
    ASSUME persisted \in [contacts: ContactsType, conversations: ConvsType,
                          readOffset: Nat]
    PROVE  /\ LoadedContacts \in ContactsType
           /\ LoadedNicknames \in [Nicknames -> ContactIds \cup {NoContact}]
<1>1. LoadedContacts \in ContactsType
  BY DEF LoadedContacts, ContactsType, ContactRec
<1>2. LoadedNicknames \in [Nicknames -> ContactIds \cup {NoContact}]
  <2>1. ASSUME NEW n \in Nicknames,
               \E id \in ContactIds : persisted.contacts[id] # NoContact
                                      /\ persisted.contacts[id].nickname = n
        PROVE  (CHOOSE id \in ContactIds : persisted.contacts[id] # NoContact
                                           /\ persisted.contacts[id].nickname = n)
               \in ContactIds
    BY <2>1
  <2>2. QED BY <2>1 DEF LoadedNicknames
<1>3. QED BY <1>1, <1>2

(* The death of the process leaves a typed state.                         *)
LEMMA DieType ==
    ASSUME TypeOK, NEW reason \in Down, Die(reason)
    PROVE  TypeOK'
<1>1. /\ contacts' \in ContactsType
      /\ contactNicknames' \in [Nicknames -> ContactIds \cup {NoContact}]
  BY LoadedType DEF Die, TypeOK, ContactsType, ConvsType
<1>2. QED BY <1>1, ConstantsAssumption
          DEF Die, TypeOK, ContactsType, Down, Tids

(* The messages doSendMessage inserts and decryptMessage stores are typed. *)
LEMMA MessageType ==
    ASSUME now \in 0..MaxTime, NEW slot \in Nat
    PROVE  NewOutbound \in MsgRec /\ Received(slot) \in MsgRec
BY ConstantsAssumption DEF NewOutbound, Received, MsgRec

(* The retransmission batches of doRetransmit are sequences of message   *)
(* ids of the conversation.                                               *)
LEMMA BatchType ==
    ASSUME NEW conv, NEW batch \in RetransmitBatches(conv)
    PROVE  batch \in Seq(MIDs)
<1>1. batch \in [1..RetransmitLimit -> MIDs]
  BY DEF RetransmitBatches, RetransmitCandidates
<1>2. QED BY <1>1, ConstantsAssumption

-----------------------------------------------------------------------------
(* The inductive invariant.  TypeOK is not inductive alone: the handlers *)
(* that find a contact through contactNicknames update its record, which  *)
(* needs the record to be there (ContactIndexConsistent); createContact   *)
(* inserts under an id randID has not returned, which must be free; and  *)
(* New() rebuilds contactNicknames from the state file by nickname, which *)
(* needs the file to hold one contact per nickname.                       *)

(* randID never returned id: no contact has it, in memory or on disk.     *)
FreshIdsAbsent ==
    \A id \in ContactIds \ usedIds :
        contacts[id] = NoContact /\ persisted.contacts[id] = NoContact

(* The state file holds at most one contact per nickname.                *)
SavedNicknamesUnique ==
    \A i, j \in ContactIds :
        /\ persisted.contacts[i] # NoContact /\ persisted.contacts[j] # NoContact
        /\ persisted.contacts[i].nickname = persisted.contacts[j].nickname
        => i = j

IInv == TypeOK /\ ContactIndexConsistent /\ FreshIdsAbsent /\ SavedNicknamesUnique

(* The conjuncts of IInv other than TypeOK hold of a state whose contact  *)
(* maps are consistent and typed and whose state file either is unchanged *)
(* or was just written from memory by save().                             *)
LEMMA ContactInvariants ==
    ASSUME IInv,
           contacts' \in ContactsType,
           contactNicknames' \in [Nicknames -> ContactIds \cup {NoContact}],
           ContactIndexConsistent',
           usedIds \subseteq usedIds',
           \A id \in ContactIds \ usedIds' : contacts'[id] = NoContact,
           persisted' = persisted \/ SaveState
    PROVE  FreshIdsAbsent' /\ SavedNicknamesUnique'
<1>1. CASE persisted' = persisted
  BY <1>1 DEF IInv, FreshIdsAbsent, SavedNicknamesUnique
<1>2. CASE SaveState
  <2>1. persisted'.contacts = contacts'
    BY <1>2 DEF SaveState
  <2>2. SavedNicknamesUnique'
    BY <2>1 DEF SavedNicknamesUnique, ContactIndexConsistent, ContactsType
  <2>3. QED BY <2>1, <2>2 DEF FreshIdsAbsent
<1>3. QED BY <1>1, <1>2

(* A handler that rewrites the record of a present contact, keeping its  *)
(* nickname, keeps the contact maps consistent.                           *)
LEMMA UpdateContact ==
    ASSUME IInv, NEW id \in ContactIds, NEW r \in ContactRec,
           contacts[id] # NoContact, r.nickname = contacts[id].nickname,
           contacts' = [contacts EXCEPT ![id] = r],
           UNCHANGED <<contactNicknames, usedIds>>,
           persisted' = persisted \/ SaveState
    PROVE  contacts' \in ContactsType /\ ContactIndexConsistent'
           /\ FreshIdsAbsent' /\ SavedNicknamesUnique'
<1>1. contacts' \in ContactsType
  BY DEF IInv, TypeOK, ContactsType
<1>2. ContactIndexConsistent'
  BY SentinelsAssumption DEF IInv, TypeOK, ContactIndexConsistent
<1>3. \A i \in ContactIds \ usedIds' : contacts'[i] = NoContact
  BY DEF IInv, FreshIdsAbsent
<1>4. QED BY <1>1, <1>2, <1>3, ContactInvariants DEF IInv, TypeOK

(* createContact keeps IInv: the fresh id holds no contact and the new    *)
(* nickname no id, so the two maps gain the same entry, whether the key   *)
(* exchange starts (and the state is saved) or fails (and it is not).     *)
LEMMA NewContactInv ==
    ASSUME IInv, NEW n \in Nicknames, NewContact(n)
    PROVE  IInv'
<1>1. PICK id \in ContactIds \ usedIds :
        /\ contactNicknames' = [contactNicknames EXCEPT ![n] = id]
        /\ usedIds' = usedIds \cup {id}
        /\ \/ /\ contacts' = [contacts EXCEPT ![id] = PendingContact(n, 1)]
              /\ kxTask' = [kxTask EXCEPT ![id] = "running"]
              /\ SaveState
           \/ /\ contacts' = [contacts EXCEPT ![id] = PendingContact(n, 0)]
              /\ UNCHANGED <<kxTask, persisted>>
  BY DEF NewContact
<1>a. PICK blob \in {0, 1} : contacts' = [contacts EXCEPT ![id] = PendingContact(n, blob)]
  BY <1>1
<1>0. /\ contacts' = [contacts EXCEPT ![id] = PendingContact(n, blob)]
      /\ kxTask' \in [ContactIds -> {"none", "running"}]
      /\ persisted' = persisted \/ SaveState
  BY <1>1, <1>a DEF IInv, TypeOK
<1>p. contacts'[id] = PendingContact(n, blob)
  BY <1>0 DEF IInv, TypeOK
<1>q. PendingContact(n, blob) \in ContactRec /\ PendingContact(n, blob).nickname = n
  BY ConstantsAssumption DEF PendingContact, ContactRec
<1>2. contactNicknames[n] = NoContact /\ contacts[id] = NoContact
  BY <1>1 DEF NewContact, IInv, FreshIdsAbsent
<1>3. contacts' \in ContactsType
  BY <1>0, <1>q DEF IInv, TypeOK, ContactsType
<1>4. ContactIndexConsistent'
  <2>1. \A m \in Nicknames : contactNicknames[m] # id
    BY <1>2, ConstantsAssumption DEF IInv, ContactIndexConsistent
  <2>2. \A j \in ContactIds : contacts[j] # NoContact => contacts[j].nickname # n
    BY <1>2, ConstantsAssumption DEF IInv, ContactIndexConsistent
  <2>3. ASSUME NEW m \in Nicknames, contactNicknames'[m] # NoContact
        PROVE  /\ contacts'[contactNicknames'[m]] # NoContact
               /\ contacts'[contactNicknames'[m]].nickname = m
    <3>1. CASE m = n
      <4>1. contactNicknames'[m] = id
        BY <1>1, <3>1 DEF IInv, TypeOK
      <4>2. contacts'[id] \in ContactRec /\ contacts'[id].nickname = n
        BY <1>p, <1>q
      <4>3. QED BY <3>1, <4>1, <4>2, SentinelsAssumption
    <3>2. CASE m # n
      BY <1>1, <2>1, <2>3, <3>2 DEF IInv, TypeOK, ContactIndexConsistent
    <3>3. QED BY <3>1, <3>2
  <2>4. ASSUME NEW j \in ContactIds, contacts'[j] # NoContact
        PROVE  contactNicknames'[contacts'[j].nickname] = j
    <3>1. CASE j = id
      BY <1>0, <1>1, <3>1 DEF IInv, TypeOK, PendingContact
    <3>2. CASE j # id
      BY <1>0, <1>1, <2>2, <2>4, <3>2 DEF IInv, TypeOK, ContactIndexConsistent, ContactRec
    <3>3. QED BY <3>1, <3>2
  <2>5. QED BY <2>3, <2>4 DEF ContactIndexConsistent
<1>5. \A j \in ContactIds \ usedIds' : contacts'[j] = NoContact
  BY <1>0, <1>1 DEF IInv, FreshIdsAbsent
<1>6. persisted' \in [contacts: ContactsType, conversations: ConvsType, readOffset: Nat]
  <2>1. conversations' \in ConvsType /\ readOffset' \in Nat
    BY DEF NewContact, IInv, TypeOK, ConvsType
  <2>2. CASE SaveState
    BY <1>3, <2>1, <2>2, SaveStateType
  <2>3. CASE persisted' = persisted
    BY <2>3 DEF IInv, TypeOK, ContactsType, ConvsType
  <2>4. QED BY <1>0, <2>2, <2>3
<1>7. FreshIdsAbsent' /\ SavedNicknamesUnique'
  BY <1>0, <1>1, <1>3, <1>4, <1>5, ContactInvariants DEF NewContact, IInv, TypeOK
<1>8. TypeOK'
  BY <1>0, <1>1, <1>3, <1>6 DEF NewContact, IInv, TypeOK, ContactsType, ConvsType
<1>9. QED BY <1>4, <1>7, <1>8 DEF IInv

(* doContactRemoval keeps IInv: it deletes the contact from both maps.     *)
LEMMA RemoveContactInv ==
    ASSUME IInv, NEW n \in Nicknames, RemoveContact(n)
    PROVE  IInv'
<1> DEFINE id == contactNicknames[n]
<1>1. id \in ContactIds /\ contacts[id] # NoContact /\ contacts[id].nickname = n
  BY DEF RemoveContact, IInv, TypeOK, ContactIndexConsistent
<1>2. /\ contacts' = [contacts EXCEPT ![id] = NoContact]
      /\ contactNicknames' = [contactNicknames EXCEPT ![n] = NoContact]
      /\ kxTask' \in [ContactIds -> {"none", "running"}]
  BY DEF RemoveContact, IInv, TypeOK
<1>3. contacts' \in ContactsType
  BY <1>1, <1>2 DEF IInv, TypeOK, ContactsType
<1>4. ContactIndexConsistent'
  BY <1>1, <1>2 DEF IInv, TypeOK, ContactIndexConsistent
<1>5. \A j \in ContactIds \ usedIds' : contacts'[j] = NoContact
  BY <1>2 DEF RemoveContact, IInv, FreshIdsAbsent
<1>6. persisted' \in [contacts: ContactsType, conversations: ConvsType, readOffset: Nat]
  BY <1>3, SaveStateType DEF RemoveContact, IInv, TypeOK, ConvsType
<1>7. FreshIdsAbsent' /\ SavedNicknamesUnique'
  BY <1>2, <1>3, <1>4, <1>5, ContactInvariants DEF RemoveContact, IInv, TypeOK
<1>8. TypeOK'
  BY <1>2, <1>3, <1>6 DEF RemoveContact, IInv, TypeOK, ContactsType, ConvsType
<1>9. QED BY <1>4, <1>7, <1>8 DEF IInv

(* A PANDA update for a dropped id only ends its task.                    *)
LEMMA DropUnknownUpdateInv ==
    ASSUME IInv, NEW id \in ContactIds, DropUnknownUpdate(id)
    PROVE  IInv'
BY DEF DropUnknownUpdate, IInv, TypeOK, ContactIndexConsistent, FreshIdsAbsent,
       SavedNicknamesUnique

(* A handler step that only rewrites the record of a present contact,    *)
(* keeping its nickname, possibly ending or starting its PANDA task and   *)
(* saving, keeps IInv.                                                    *)
LEMMA UpdateContactStep ==
    ASSUME IInv, NEW id \in ContactIds, NEW r \in ContactRec,
           contacts[id] # NoContact, r.nickname = contacts[id].nickname,
           contacts' = [contacts EXCEPT ![id] = r],
           UNCHANGED <<loop, contactNicknames, usedIds, conversations, usedMids,
                       readOffset, sendMap, transport, nextTid, inbox, now>>,
           kxTask' \in [ContactIds -> {"none", "running"}],
           persisted' = persisted \/ SaveState
    PROVE  IInv'
<1>1. contacts' \in ContactsType /\ ContactIndexConsistent'
      /\ FreshIdsAbsent' /\ SavedNicknamesUnique'
  BY UpdateContact
<1>2. persisted' \in [contacts: ContactsType, conversations: ConvsType, readOffset: Nat]
  <2>1. CASE persisted' = persisted
    BY <2>1 DEF IInv, TypeOK, ContactsType, ConvsType
  <2>2. CASE SaveState
    BY <1>1, <2>2, SaveStateType DEF IInv, TypeOK, ConvsType
  <2>3. QED BY <2>1, <2>2
<1>3. QED BY <1>1, <1>2 DEF IInv, TypeOK, ContactsType, ConvsType

(* processPANDAUpdate keeps IInv: each branch rewrites the record of a    *)
(* present contact and keeps its nickname.                                *)
LEMMA PandaUpdateInv ==
    ASSUME IInv, NEW id \in ContactIds,
           PandaTimeout(id) \/ PandaFailure(id) \/ PandaResult(id)
           \/ \E blob \in 1..MaxKxBlob : PandaProgress(id, blob)
    PROVE  IInv'
<1>1. CASE contacts[id] = NoContact
  BY <1>1, DropUnknownUpdateInv DEF PandaTimeout, PandaFailure, PandaResult, PandaProgress
<1>2. CASE contacts[id] # NoContact
  <2>1. contacts[id] \in ContactRec
    BY <1>2 DEF IInv, TypeOK
  <2>2. CASE PandaTimeout(id) \/ PandaFailure(id)
    <3> DEFINE r == [contacts[id] EXCEPT !.kxFailed = TRUE, !.hasCancel = FALSE]
    <3>1. r \in ContactRec /\ r.nickname = contacts[id].nickname
      BY <2>1 DEF ContactRec
    <3>2. /\ contacts' = [contacts EXCEPT ![id] = r]
          /\ UNCHANGED <<loop, contactNicknames, usedIds, conversations, usedMids,
                         readOffset, sendMap, transport, nextTid, inbox, now>>
          /\ kxTask' \in [ContactIds -> {"none", "running"}]
          /\ SaveState
      BY <1>2, <2>2 DEF PandaTimeout, PandaFailure, IInv, TypeOK
    <3>3. QED BY <1>2, <3>1, <3>2, UpdateContactStep
  <2>3. CASE PandaResult(id)
    <3>1. PICK outcome \in {"ok", "parseError", "ratchetError"} :
            contacts' = [contacts EXCEPT ![id] = KeyExchangeDone(contacts[id], outcome)]
      BY <1>2, <2>3 DEF PandaResult
    <3> DEFINE r == KeyExchangeDone(contacts[id], outcome)
    <3>2. r \in ContactRec /\ r.nickname = contacts[id].nickname
      BY <2>1, ConstantsAssumption DEF KeyExchangeDone, ContactRec
    <3>3. /\ UNCHANGED <<loop, contactNicknames, usedIds, conversations, usedMids,
                         readOffset, sendMap, transport, nextTid, inbox, now>>
          /\ kxTask' \in [ContactIds -> {"none", "running"}]
          /\ SaveState
      BY <1>2, <2>3 DEF PandaResult, IInv, TypeOK
    <3>4. QED BY <1>2, <3>1, <3>2, <3>3, UpdateContactStep
  <2>4. CASE \E blob \in 1..MaxKxBlob : PandaProgress(id, blob)
    <3>1. PICK blob \in 1..MaxKxBlob : PandaProgress(id, blob)
      BY <2>4
    <3> DEFINE r == [contacts[id] EXCEPT !.kxBlob = blob]
    <3>2. r \in ContactRec /\ r.nickname = contacts[id].nickname
      BY <2>1 DEF ContactRec
    <3>3. /\ contacts' = [contacts EXCEPT ![id] = r]
          /\ UNCHANGED <<loop, contactNicknames, usedIds, conversations, usedMids,
                         readOffset, sendMap, transport, nextTid, inbox, now>>
          /\ kxTask' \in [ContactIds -> {"none", "running"}]
          /\ SaveState
      BY <3>1 DEF PandaProgress, IInv, TypeOK
    <3>4. QED BY <1>2, <3>2, <3>3, UpdateContactStep
  <2>5. QED BY <2>2, <2>3, <2>4
<1>3. QED BY <1>1, <1>2

(* New() rebuilds consistent contact maps from a state file that holds    *)
(* one contact per nickname.                                              *)
LEMMA LoadedConsistent ==
    ASSUME IInv
    PROVE  /\ \A n \in Nicknames : LoadedNicknames[n] # NoContact =>
                 /\ LoadedContacts[LoadedNicknames[n]] # NoContact
                 /\ LoadedContacts[LoadedNicknames[n]].nickname = n
           /\ \A id \in ContactIds : LoadedContacts[id] # NoContact =>
                 LoadedNicknames[LoadedContacts[id].nickname] = id
<1> DEFINE saved == persisted.contacts
<1>1. saved \in ContactsType
  BY DEF IInv, TypeOK, ContactsType
<1>2. \A id \in ContactIds :
        saved[id] # NoContact =>
          /\ LoadedContacts[id] \in ContactRec
          /\ LoadedContacts[id].nickname = saved[id].nickname
  BY <1>1 DEF LoadedContacts, ContactsType, ContactRec
<1>3. \A id \in ContactIds : saved[id] = NoContact => LoadedContacts[id] = NoContact
  BY DEF LoadedContacts
<1>4. ASSUME NEW n \in Nicknames, LoadedNicknames[n] # NoContact
      PROVE  /\ LoadedContacts[LoadedNicknames[n]] # NoContact
             /\ LoadedContacts[LoadedNicknames[n]].nickname = n
  <2>1. \E id \in ContactIds : saved[id] # NoContact /\ saved[id].nickname = n
    BY <1>4 DEF LoadedNicknames
  <2>2. PICK id \in ContactIds : /\ LoadedNicknames[n] = id
                                 /\ saved[id] # NoContact /\ saved[id].nickname = n
    BY <2>1 DEF LoadedNicknames
  <2>3. QED BY <1>2, <2>2, SentinelsAssumption
<1>5. ASSUME NEW id \in ContactIds, LoadedContacts[id] # NoContact
      PROVE  LoadedNicknames[LoadedContacts[id].nickname] = id
  <2>1. saved[id] # NoContact
    BY <1>3, <1>5
  <2> DEFINE n == saved[id].nickname
  <2>2. n \in Nicknames /\ LoadedContacts[id].nickname = n
    BY <1>1, <1>2, <2>1 DEF ContactsType, ContactRec
  <2>3. PICK j \in ContactIds : /\ LoadedNicknames[n] = j
                                /\ saved[j] # NoContact /\ saved[j].nickname = n
    BY <2>1, <2>2 DEF LoadedNicknames
  <2>4. j = id
    BY <2>1, <2>3 DEF IInv, SavedNicknamesUnique
  <2>5. QED BY <2>2, <2>3, <2>4
<1>6. QED BY <1>4, <1>5

(* The death of the process keeps IInv: the maps come back from the state *)
(* file, which does not change.                                           *)
LEMMA DieInv ==
    ASSUME IInv, NEW reason \in Down, Die(reason)
    PROVE  IInv'
<1>1. TypeOK'
  BY DieType DEF IInv
<1>2. ContactIndexConsistent'
  BY LoadedConsistent DEF Die, ContactIndexConsistent
<1>3. FreshIdsAbsent' /\ SavedNicknamesUnique'
  BY DEF Die, IInv, FreshIdsAbsent, SavedNicknamesUnique, LoadedContacts
<1>4. QED BY <1>1, <1>2, <1>3 DEF IInv

(* doSendMessage keeps IInv: it changes no contact but the UnACKed count   *)
(* of the one it sends to.                                                *)
LEMMA SendMessageInv ==
    ASSUME IInv, NEW n \in Nicknames, SendMessage(n)
    PROVE  IInv'
<1> USE DEF IInv, TypeOK
<1>1. PICK mid \in MIDs \ usedMids :
        LET conv == WithOutbound(n, mid)
            id   == contactNicknames[n]
        IN
        /\ usedMids' = usedMids \cup {mid}
        /\ IF id = NoContact \/ contacts[id].isPending
           THEN /\ conversations' = [conversations EXCEPT ![n] = conv]
                /\ UNCHANGED <<contacts, sendMap, transport, nextTid, persisted>>
           ELSE /\ ~RetransmitPanics(id, conv)
                /\ contacts[id].hasSpool
                /\ \E batch \in (IF Saturated(id) THEN RetransmitBatches(conv) ELSE {<< >>}),
                      submitted \in BOOLEAN :
                    LET resend == [i \in 1..Len(batch) |->
                                     [nick |-> n, mid |-> batch[i], off |-> 0]]
                    IN
                    /\ conversations' = [conversations EXCEPT ![n] =
                                            [conv EXCEPT ![mid].hasCipher = TRUE]]
                    /\ IF submitted
                       THEN /\ StoreAll(Append(resend, [nick |-> n, mid |-> mid, off |-> 0]))
                            /\ contacts' = [contacts EXCEPT ![id].unacked = @ + 1]
                            /\ SaveState
                       ELSE /\ StoreAll(resend)
                            /\ UNCHANGED <<contacts, persisted>>
  BY DEF SendMessage
<1> DEFINE conv == WithOutbound(n, mid)
           id   == contactNicknames[n]
<1>2. conv \in [MIDs -> MsgRec \cup {NoMsg}]
  BY MessageType DEF WithOutbound
<1>3. UNCHANGED <<loop, contactNicknames, usedIds, readOffset, kxTask, inbox, now>>
  BY DEF SendMessage
<1>4. CASE id = NoContact \/ contacts[id].isPending
  <2>1. UNCHANGED <<contacts, contactNicknames, usedIds, persisted>>
    BY <1>1, <1>3, <1>4
  <2>2. ContactIndexConsistent' /\ FreshIdsAbsent' /\ SavedNicknamesUnique'
    BY <2>1 DEF ContactIndexConsistent, FreshIdsAbsent, SavedNicknamesUnique
  <2>3. TypeOK'
    BY <1>1, <1>2, <1>3, <1>4
  <2>4. QED BY <2>2, <2>3
<1>5. CASE ~(id = NoContact \/ contacts[id].isPending)
  <2>1. id \in ContactIds /\ contacts[id] \in ContactRec
    BY <1>5 DEF ContactIndexConsistent
  <2>2. PICK batch \in (IF Saturated(id) THEN RetransmitBatches(conv) ELSE {<< >>}),
             submitted \in BOOLEAN :
          LET resend == [i \in 1..Len(batch) |->
                           [nick |-> n, mid |-> batch[i], off |-> 0]]
          IN
          /\ conversations' = [conversations EXCEPT ![n] =
                                  [conv EXCEPT ![mid].hasCipher = TRUE]]
          /\ IF submitted
             THEN /\ StoreAll(Append(resend, [nick |-> n, mid |-> mid, off |-> 0]))
                  /\ contacts' = [contacts EXCEPT ![id].unacked = @ + 1]
                  /\ SaveState
             ELSE /\ StoreAll(resend)
                  /\ UNCHANGED <<contacts, persisted>>
    BY <1>1, <1>5
  <2> DEFINE resend == [i \in 1..Len(batch) |-> [nick |-> n, mid |-> batch[i], off |-> 0]]
  <2>3. batch \in Seq(MIDs)
    <3>1. CASE Saturated(id)
      BY <2>2, <3>1, BatchType
    <3>2. CASE ~Saturated(id)
      BY <2>2, <3>2
    <3>3. QED BY <3>1, <3>2
  <2>4. resend \in Seq(Desc) /\ Append(resend, [nick |-> n, mid |-> mid, off |-> 0]) \in Seq(Desc)
    BY <2>3 DEF Desc
  <2>5. conversations' \in ConvsType
    <3>1. conv[mid] \in MsgRec
      BY MessageType DEF WithOutbound
    <3>2. QED BY <2>2, <1>2, <3>1 DEF MsgRec, ConvsType
  <2>6. CASE submitted
    <3>1. contacts' \in ContactsType /\ ContactIndexConsistent'
          /\ FreshIdsAbsent' /\ SavedNicknamesUnique'
      <4>1. contacts' = [contacts EXCEPT ![id].unacked = @ + 1]
        BY <2>2, <2>6
      <4>2. [contacts[id] EXCEPT !.unacked = @ + 1] \in ContactRec
        <5>1. contacts[id].unacked + 1 \in Nat
          BY <2>1 DEF ContactRec
        <5>2. QED BY <2>1, <5>1, Zenon DEF ContactRec
      <4>3. [contacts[id] EXCEPT !.unacked = @ + 1].nickname = contacts[id].nickname
        BY <2>1 DEF ContactRec
      <4>4. contacts[id] # NoContact
        BY <1>5 DEF ContactIndexConsistent
      <4>5. QED BY <1>3, <2>1, <2>2, <2>6, <4>1, <4>2, <4>3, <4>4, UpdateContact
    <3>2. /\ sendMap' \in SendMapType /\ transport' \in TransportType
          /\ nextTid' \in 1..(MaxTid + 1)
      BY <2>2, <2>4, <2>6, StoreAllType DEF SendMapType, TransportType
    <3>3. persisted' \in [contacts: ContactsType, conversations: ConvsType, readOffset: Nat]
      BY <3>1, <2>5, <1>3, <2>2, <2>6, SaveStateType
    <3>4. QED BY <1>1, <1>3, <2>5, <3>1, <3>2, <3>3
              DEF ContactsType, ConvsType, SendMapType, TransportType
  <2>7. CASE ~submitted
    <3>1. /\ sendMap' \in SendMapType /\ transport' \in TransportType
          /\ nextTid' \in 1..(MaxTid + 1)
      BY <2>2, <2>4, <2>7, StoreAllType DEF SendMapType, TransportType
    <3>2. QED BY <1>1, <1>3, <2>2, <2>5, <2>7, <3>1
              DEF ContactsType, ConvsType, SendMapType, TransportType,
                  ContactIndexConsistent, FreshIdsAbsent, SavedNicknamesUnique
  <2>8. QED BY <2>6, <2>7
<1>6. QED BY <1>4, <1>5

(* A step that leaves the contact maps and the state file alone keeps the *)
(* contact conjuncts of IInv.                                             *)
LEMMA ContactsUnchanged ==
    ASSUME IInv, UNCHANGED <<contacts, contactNicknames, usedIds, persisted>>
    PROVE  ContactIndexConsistent' /\ FreshIdsAbsent' /\ SavedNicknamesUnique'
BY DEF IInv, ContactIndexConsistent, FreshIdsAbsent, SavedNicknamesUnique

(* sendReadInbox keeps IInv.                                              *)
LEMMA ReadInboxInv ==
    ASSUME IInv, ReadInbox
    PROVE  IInv'
<1>1. << [nick |-> User, mid |-> NoMid, off |-> readOffset] >> \in Seq(Desc)
  BY DEF IInv, TypeOK, Desc
<1>2. /\ sendMap' \in SendMapType /\ transport' \in TransportType
      /\ nextTid' \in 1..(MaxTid + 1)
  BY <1>1, StoreAllType DEF ReadInbox, IInv, TypeOK, SendMapType, TransportType
<1>3. QED BY <1>2, ContactsUnchanged
          DEF ReadInbox, IInv, TypeOK, SendMapType, TransportType

(* handleSent keeps IInv: it only marks a message sent.                   *)
LEMMA HandleSentInv ==
    ASSUME IInv, NEW t \in Tids, HandleSent(t)
    PROVE  IInv'
<1>1. conversations' \in ConvsType
  <2> DEFINE d == sendMap[t]
  <2>1. CASE d # NoDesc /\ d.nick # User /\ conversations[d.nick][d.mid] # NoMsg
    <3>1. d.nick \in Nicknames /\ d.mid \in MIDs
      BY <2>1, ConstantsAssumption DEF IInv, TypeOK, Desc
    <3>2. conversations[d.nick][d.mid] \in MsgRec
      BY <2>1, <3>1 DEF IInv, TypeOK
    <3>3. [conversations[d.nick][d.mid] EXCEPT !.sent = TRUE] \in MsgRec
      BY <3>2 DEF MsgRec
    <3>4. conversations' = [conversations EXCEPT ![d.nick][d.mid] =
                              [conversations[d.nick][d.mid] EXCEPT !.sent = TRUE]]
      BY <2>1 DEF HandleSent
    <3>5. QED BY <3>1, <3>3, <3>4 DEF IInv, TypeOK, ConvsType
  <2>2. CASE ~(d # NoDesc /\ d.nick # User /\ conversations[d.nick][d.mid] # NoMsg)
    BY <2>2 DEF HandleSent, IInv, TypeOK, ConvsType
  <2>3. QED BY <2>1, <2>2
<1>2. QED BY <1>1, ContactsUnchanged DEF HandleSent, IInv, TypeOK, ConvsType

(* The sendMap garbage collection and the conversation garbage            *)
(* collection keep IInv.                                                  *)
LEMMA GarbageCollectInv ==
    ASSUME IInv, GarbageCollectConversations \/ \E t \in Tids : GarbageCollectSendMap(t)
    PROVE  IInv'
<1>1. CASE GarbageCollectConversations
  BY <1>1, CollectGarbageType, ContactsUnchanged
     DEF GarbageCollectConversations, IInv, TypeOK, ConvsType
<1>2. CASE \E t \in Tids : GarbageCollectSendMap(t)
  BY <1>2, ContactsUnchanged DEF GarbageCollectSendMap, IInv, TypeOK
<1>3. QED BY <1>1, <1>2

(* The environment (peers, clock) keeps IInv.                             *)
LEMMA EnvironmentInv ==
    ASSUME IInv, Tick \/ \E id \in ContactIds : PeerAppend(id)
    PROVE  IInv'
<1>1. CASE Tick
  BY <1>1, ContactsUnchanged, ConstantsAssumption DEF Tick, IInv, TypeOK
<1>2. CASE \E id \in ContactIds : PeerAppend(id)
  <2>1. PICK id \in ContactIds : PeerAppend(id)
    BY <1>2
  <2>2. inbox' \in Seq(ContactIds)
    BY <2>1 DEF PeerAppend, IInv, TypeOK
  <2>3. QED BY <2>1, <2>2, ContactsUnchanged DEF PeerAppend, IInv, TypeOK
<1>3. QED BY <1>1, <1>2

(* A restart keeps IInv: the loaded state is kept, PANDA tasks resumed.   *)
LEMMA RestartInv ==
    ASSUME IInv, Restart
    PROVE  IInv'
BY CollectGarbageType, ContactsUnchanged DEF Restart, IInv, TypeOK, ConvsType, Down

(* A Start that panics on a pending contact's key exchange keeps IInv:   *)
(* only the loop's state changes, to another panic.                       *)
LEMMA RestartPanicsInv ==
    ASSUME IInv, RestartPanics
    PROVE  IInv'
BY ContactsUnchanged DEF RestartPanics, IInv, TypeOK, Down

(* handleReply on a write descriptor keeps IInv: it panics (DieInv),     *)
(* changes nothing, or charges the acknowledgement to the contact the    *)
(* descriptor names and marks the message delivered.                      *)
LEMMA HandleReplyInv ==
    ASSUME IInv, NEW t \in Tids, HandleReply(t)
    PROVE  IInv'
<1>1. PICK statusOK \in BOOLEAN :
        LET d  == sendMap[t]
            id == contactNicknames[d.nick]
        IN
        /\ statusOK => d = NoDesc \/ WriteAcked(t)
        /\ IF statusOK /\ d # NoDesc /\ Present(d) /\ ~Chargeable(d) THEN Die("panicBug")
           ELSE /\ transport' = [transport EXCEPT ![t] = "none"]
                /\ IF ~statusOK \/ d = NoDesc \/ ~Present(d)
                   THEN UNCHANGED <<loop, contacts, conversations>>
                   ELSE /\ contacts' = [contacts EXCEPT ![id].unacked = @ - 1]
                        /\ conversations' = [conversations EXCEPT ![d.nick][d.mid] =
                                               [@ EXCEPT !.delivered = TRUE,
                                                         !.hasCipher = FALSE]]
                        /\ loop' = "blocked"
                /\ UNCHANGED <<contactNicknames, usedIds, usedMids, readOffset, sendMap,
                               nextTid, kxTask, inbox, persisted, now>>
  BY DEF HandleReply
<1> DEFINE d  == sendMap[t]
           id == contactNicknames[d.nick]
<1>2. CASE statusOK /\ d # NoDesc /\ Present(d) /\ ~Chargeable(d)
  BY <1>1, <1>2, DieInv DEF Down
<1>3. CASE ~(statusOK /\ d # NoDesc /\ Present(d) /\ ~Chargeable(d))
           /\ (~statusOK \/ d = NoDesc \/ ~Present(d))
  BY <1>1, <1>3, ContactsUnchanged DEF IInv, TypeOK
<1>4. CASE statusOK /\ d # NoDesc /\ Present(d) /\ Chargeable(d)
  <2>1. d.nick \in Nicknames /\ d.mid \in MIDs
    BY <1>1, <1>4, ConstantsAssumption DEF WriteAcked, IInv, TypeOK, Desc
  <2>2. id \in ContactIds /\ contacts[id] \in ContactRec /\ contacts[id].unacked > 0
    BY <1>4, <2>1 DEF Chargeable, IInv, TypeOK, ContactIndexConsistent
  <2>3. contacts' = [contacts EXCEPT ![id] = [contacts[id] EXCEPT !.unacked = @ - 1]]
    BY <1>1, <1>4
  <2>4. [contacts[id] EXCEPT !.unacked = @ - 1] \in ContactRec
    <3>1. contacts[id].unacked - 1 \in Nat
      BY <2>2 DEF ContactRec
    <3>2. QED BY <2>2, <3>1, Zenon DEF ContactRec
  <2>5. contacts' \in ContactsType /\ ContactIndexConsistent'
        /\ FreshIdsAbsent' /\ SavedNicknamesUnique'
    <3>1. [contacts[id] EXCEPT !.unacked = @ - 1].nickname = contacts[id].nickname
      BY <2>2 DEF ContactRec
    <3>2. contacts[id] # NoContact
      BY <2>2, SentinelsAssumption
    <3>3. UNCHANGED <<contactNicknames, usedIds, persisted>>
      BY <1>1, <1>4
    <3>4. QED BY <2>2, <2>3, <2>4, <3>1, <3>2, <3>3, UpdateContact
  <2>6. conversations' \in ConvsType
    <3> DEFINE m == conversations[d.nick][d.mid]
    <3>1. m \in MsgRec
      BY <1>4, <2>1 DEF Present, IInv, TypeOK
    <3>2. [m EXCEPT !.delivered = TRUE, !.hasCipher = FALSE] \in MsgRec
      BY <3>1 DEF MsgRec
    <3>3. conversations' = [conversations EXCEPT ![d.nick][d.mid] =
                              [m EXCEPT !.delivered = TRUE, !.hasCipher = FALSE]]
      BY <1>1, <1>4
    <3>4. QED BY <2>1, <3>2, <3>3 DEF IInv, TypeOK, ConvsType
  <2>7. QED BY <1>1, <1>4, <2>5, <2>6 DEF IInv, TypeOK, ContactsType, ConvsType
<1>5. QED BY <1>2, <1>3, <1>4

(* handleReply on the read descriptor keeps IInv: a duplicate is dropped; *)
(* the tip advances ReadOffset and stores the message in the conversation *)
(* of the contact that decrypts it.                                       *)
LEMMA HandleReadResponseInv ==
    ASSUME IInv, NEW t \in Tids, HandleReadResponse(t)
    PROVE  IInv'
<1> DEFINE k == sendMap[t].off
<1>1. k \in Nat /\ k < Len(inbox)
  <2>1. ReadAnswered(t)
    BY DEF HandleReadResponse
  <2>2. sendMap[t] \in Desc
    BY <2>1 DEF ReadAnswered, IInv, TypeOK
  <2>3. QED BY <2>1, <2>2 DEF ReadAnswered, Desc
<1>2. UNCHANGED <<loop, contacts, contactNicknames, usedIds, sendMap, nextTid, kxTask,
                  inbox, persisted, now>>
      /\ transport' \in TransportType
  BY DEF HandleReadResponse, IInv, TypeOK, TransportType
<1>3. CASE k < readOffset /\ UNCHANGED <<readOffset, conversations, usedMids>>
  BY <1>2, <1>3, ContactsUnchanged DEF IInv, TypeOK, TransportType
<1>4. CASE /\ k = readOffset
           /\ Decryptable(k + 1)
           /\ readOffset' = readOffset + 1
           /\ \E mid \in MIDs \ usedMids :
                /\ conversations' = [conversations EXCEPT
                      ![contacts[inbox[k + 1]].nickname][mid] = Received(k + 1)]
                /\ usedMids' = usedMids \cup {mid}
  <2>1. PICK mid \in MIDs \ usedMids :
          /\ conversations' = [conversations EXCEPT
                ![contacts[inbox[k + 1]].nickname][mid] = Received(k + 1)]
          /\ usedMids' = usedMids \cup {mid}
    BY <1>4
  <2>2. inbox[k + 1] \in ContactIds /\ contacts[inbox[k + 1]] \in ContactRec
    BY <1>1, <1>4 DEF Decryptable, IInv, TypeOK
  <2>3. contacts[inbox[k + 1]].nickname \in Nicknames
    BY <2>2 DEF ContactRec
  <2>4. Received(k + 1) \in MsgRec
    BY <1>1, MessageType DEF IInv, TypeOK
  <2>5. conversations' \in ConvsType
    BY <2>1, <2>3, <2>4 DEF IInv, TypeOK, ConvsType
  <2>6. QED BY <1>2, <1>4, <2>1, <2>5, ContactsUnchanged
            DEF IInv, TypeOK, ConvsType, TransportType
<1>5. QED BY <1>3, <1>4 DEF HandleReadResponse

(* The panics of doSendMessage and handleReply, and a kill, keep IInv.    *)
LEMMA PanicInv ==
    ASSUME IInv,
           \/ Kill
           \/ \E n \in Nicknames : SendMessagePanics(n)
           \/ \E t \in Tids : HandleReadResponsePanics(t)
    PROVE  IInv'
<1>1. CASE Kill
  BY <1>1, DieInv DEF Kill, Down
<1>2. CASE \E n \in Nicknames : SendMessagePanics(n)
  BY <1>2, DieInv DEF SendMessagePanics, Down
<1>3. CASE \E t \in Tids : HandleReadResponsePanics(t)
  BY <1>3, DieInv DEF HandleReadResponsePanics, Down
<1>4. QED BY <1>1, <1>2, <1>3

-----------------------------------------------------------------------------
(* The client starts with no contacts, no messages and an empty state     *)
(* file, which satisfies IInv.                                            *)
LEMMA InitInv == Init => IInv
BY ConstantsAssumption DEF Init, IInv, TypeOK, ContactIndexConsistent, FreshIdsAbsent,
   SavedNicknamesUnique, Tids

(* Every handler, event, failure and restart of the model keeps IInv.    *)
LEMMA NextInv == IInv /\ [Next]_vars => IInv'
<1> SUFFICES ASSUME IInv, [Next]_vars PROVE IInv'
  OBVIOUS
<1>1. CASE \E n \in Nicknames : NewContact(n) \/ RemoveContact(n) \/ SendMessage(n)
                                \/ SendMessagePanics(n)
  BY <1>1, NewContactInv, RemoveContactInv, SendMessageInv, PanicInv
<1>2. CASE \E id \in ContactIds :
             \/ PandaTimeout(id) \/ PandaFailure(id) \/ PandaResult(id)
             \/ PeerAppend(id)
             \/ \E blob \in 1..MaxKxBlob : PandaProgress(id, blob)
  BY <1>2, PandaUpdateInv, EnvironmentInv
<1>3. CASE ReadInbox
  BY <1>3, ReadInboxInv
<1>4. CASE \E t \in Tids : \/ HandleSent(t) \/ HandleReply(t)
                           \/ HandleReadResponse(t) \/ HandleReadResponsePanics(t)
                           \/ GarbageCollectSendMap(t)
  BY <1>4, HandleSentInv, HandleReplyInv, HandleReadResponseInv, PanicInv,
     GarbageCollectInv
<1>5. CASE GarbageCollectConversations
  BY <1>5, GarbageCollectInv
<1>6. CASE Tick \/ Kill \/ Restart \/ RestartPanics
  BY <1>6, EnvironmentInv, PanicInv, RestartInv, RestartPanicsInv
<1>7. CASE UNCHANGED vars
  BY <1>7 DEF vars, IInv, TypeOK, ContactIndexConsistent, FreshIdsAbsent,
     SavedNicknamesUnique
<1>8. QED BY <1>1, <1>2, <1>3, <1>4, <1>5, <1>6, <1>7 DEF Next

(* Every reachable state satisfies IInv.                                  *)
THEOREM IInvInvariant == Spec => []IInv
BY InitInv, NextInv, PTL DEF Spec

(* Type correctness: every variable of the client model keeps its type   *)
(* through every handler, session event, panic and restart.               *)
THEOREM TypeCorrect == Spec => []TypeOK
BY IInvInvariant, PTL DEF IInv

(* I1/I2: contacts and contactNicknames describe the same contacts, one   *)
(* per nickname, in every reachable state: createContact, doContactRemoval *)
(* and the handlers update both maps together, and New() rebuilds them    *)
(* consistently from the state file after any crash.                      *)
THEOREM ContactIndexAlwaysConsistent == Spec => []ContactIndexConsistent
BY IInvInvariant, PTL DEF IInv

-----------------------------------------------------------------------------
(* ReadsNeverAhead: the "received spool response for MessageID not        *)
(* requested yet" panic of handleReply is unreachable.  With IInv it is   *)
(* inductive: reads are only issued at ReadOffset, ReadOffset only grows  *)
(* in memory, save() writes the current offset, and a restart goes back   *)
(* to the saved offset with an empty send map.                            *)

(* sendMap.Store under fresh transport ids writes only the requests.      *)
LEMMA StoreAllEntries ==
    ASSUME NEW reqs \in Seq(Desc), sendMap \in SendMapType, nextTid \in Nat,
           StoreAll(reqs)
    PROVE  \A t \in Tids : sendMap'[t] = sendMap[t]
                           \/ \E i \in 1..Len(reqs) : sendMap'[t] = reqs[i]
<1> SUFFICES ASSUME NEW t \in Tids
             PROVE  sendMap'[t] = sendMap[t]
                    \/ \E i \in 1..Len(reqs) : sendMap'[t] = reqs[i]
  OBVIOUS
<1>1. CASE t >= nextTid /\ t < nextTid + Len(reqs)
  <2>1. sendMap'[t] = reqs[t - nextTid + 1]
    BY <1>1 DEF StoreAll
  <2>2. t - nextTid + 1 \in 1..Len(reqs)
    BY <1>1 DEF Tids
  <2>3. QED BY <2>1, <2>2
<1>2. CASE ~(t >= nextTid /\ t < nextTid + Len(reqs))
  BY <1>2 DEF StoreAll
<1>3. QED BY <1>1, <1>2

(* A process that dies goes back to the saved offset with no reads.       *)
LEMMA DieReads ==
    ASSUME IInv, ReadsNeverAhead, NEW reason \in Down \ {"panicAhead"}, Die(reason)
    PROVE  ReadsNeverAhead'
BY DEF Die, ReadsNeverAhead, IInv, TypeOK, Down

(* A step that leaves the reads, the offset and the spool alone and either *)
(* keeps the state file or saves keeps ReadsNeverAhead, unless it makes   *)
(* the loop panic.                                                        *)
LEMMA ReadsUnchanged ==
    ASSUME IInv, ReadsNeverAhead, UNCHANGED <<sendMap, readOffset, inbox>>,
           persisted' = persisted \/ SaveState, loop' # "panicAhead"
    PROVE  ReadsNeverAhead'
<1>1. CASE persisted' = persisted
  BY <1>1 DEF ReadsNeverAhead
<1>2. CASE SaveState
  BY <1>2 DEF ReadsNeverAhead, SaveState, IInv, TypeOK
<1>3. QED BY <1>1, <1>2

(* doSendMessage stores write descriptors only.                           *)
LEMMA SendMessageReads ==
    ASSUME IInv, ReadsNeverAhead, NEW n \in Nicknames, SendMessage(n)
    PROVE  ReadsNeverAhead'
<1>1. PICK mid \in MIDs \ usedMids :
        LET conv == WithOutbound(n, mid)
            id   == contactNicknames[n]
        IN
        IF id = NoContact \/ contacts[id].isPending
        THEN UNCHANGED <<sendMap, persisted>>
        ELSE \E batch \in (IF Saturated(id) THEN RetransmitBatches(conv) ELSE {<< >>}),
                submitted \in BOOLEAN :
               LET resend == [i \in 1..Len(batch) |->
                                [nick |-> n, mid |-> batch[i], off |-> 0]]
               IN
               IF submitted
               THEN StoreAll(Append(resend, [nick |-> n, mid |-> mid, off |-> 0])) /\ SaveState
               ELSE StoreAll(resend) /\ UNCHANGED persisted
  BY DEF SendMessage
<1> DEFINE conv == WithOutbound(n, mid)
           id   == contactNicknames[n]
<1>2. UNCHANGED <<loop, readOffset, inbox>>
  BY DEF SendMessage
<1>3. CASE id = NoContact \/ contacts[id].isPending
  <2>1. loop = "running"
    BY DEF SendMessage
  <2>2. UNCHANGED <<sendMap, persisted>>
    BY <1>1, <1>3
  <2>3. QED BY <1>2, <2>1, <2>2, ReadsUnchanged
<1>4. CASE ~(id = NoContact \/ contacts[id].isPending)
  <2>1. PICK batch \in (IF Saturated(id) THEN RetransmitBatches(conv) ELSE {<< >>}),
             submitted \in BOOLEAN :
          LET resend == [i \in 1..Len(batch) |->
                           [nick |-> n, mid |-> batch[i], off |-> 0]]
          IN
          IF submitted
          THEN StoreAll(Append(resend, [nick |-> n, mid |-> mid, off |-> 0])) /\ SaveState
          ELSE StoreAll(resend) /\ UNCHANGED persisted
    BY <1>1, <1>4
  <2> DEFINE resend == [i \in 1..Len(batch) |-> [nick |-> n, mid |-> batch[i], off |-> 0]]
             full   == Append(resend, [nick |-> n, mid |-> mid, off |-> 0])
  <2>2. batch \in Seq(MIDs)
    <3>1. CASE Saturated(id)
      BY <2>1, <3>1, BatchType
    <3>2. CASE ~Saturated(id)
      BY <2>1, <3>2
    <3>3. QED BY <3>1, <3>2
  <2>3. /\ resend \in Seq(Desc) /\ full \in Seq(Desc)
        /\ \A i \in 1..Len(resend) : resend[i].nick = n
        /\ \A i \in 1..Len(full) : full[i].nick = n
    BY <2>2 DEF Desc
  <2>4. sendMap \in SendMapType /\ nextTid \in Nat
    BY DEF IInv, TypeOK, SendMapType
  <2>5. \A t \in Tids : sendMap'[t] = sendMap[t] \/ sendMap'[t].nick = n
    <3>1. CASE submitted
      <4>1. StoreAll(full)
        BY <2>1, <3>1
      <4>2. \A t \in Tids : sendMap'[t] = sendMap[t] \/ \E i \in 1..Len(full) : sendMap'[t] = full[i]
        BY <2>3, <2>4, <4>1, StoreAllEntries
      <4>3. ASSUME NEW t \in Tids, sendMap'[t] # sendMap[t]
            PROVE  sendMap'[t].nick = n
        <5>1. PICK i \in 1..Len(full) : sendMap'[t] = full[i]
          BY <4>2, <4>3
        <5>2. QED BY <2>3, <5>1
      <4>4. QED BY <4>3
    <3>2. CASE ~submitted
      <4>1. StoreAll(resend)
        BY <2>1, <3>2
      <4>2. \A t \in Tids : sendMap'[t] = sendMap[t] \/ \E i \in 1..Len(resend) : sendMap'[t] = resend[i]
        BY <2>3, <2>4, <4>1, StoreAllEntries
      <4>3. ASSUME NEW t \in Tids, sendMap'[t] # sendMap[t]
            PROVE  sendMap'[t].nick = n
        <5>1. PICK i \in 1..Len(resend) : sendMap'[t] = resend[i]
          BY <4>2, <4>3
        <5>2. QED BY <2>3, <5>1
      <4>4. QED BY <4>3
    <3>3. QED BY <3>1, <3>2
  <2>6. \A t \in Tids : sendMap'[t] # NoDesc /\ sendMap'[t].nick = User
                         => sendMap[t] # NoDesc /\ sendMap[t].nick = User
                            /\ sendMap'[t] = sendMap[t]
    BY <2>5, ConstantsAssumption
  <2>7. persisted' = persisted \/ SaveState
    BY <2>1
  <2>8. CASE persisted' = persisted
    BY <1>2, <2>6, <2>8 DEF ReadsNeverAhead
  <2>9. CASE SaveState
    BY <1>2, <2>6, <2>9 DEF ReadsNeverAhead, SaveState, IInv, TypeOK
  <2>10. QED BY <2>7, <2>8, <2>9
<1>5. QED BY <1>3, <1>4

(* sendReadInbox stores one read of slot ReadOffset.                      *)
LEMMA ReadInboxReads ==
    ASSUME IInv, ReadsNeverAhead, ReadInbox
    PROVE  ReadsNeverAhead'
<1> DEFINE req == [nick |-> User, mid |-> NoMid, off |-> readOffset]
<1>1. << req >> \in Seq(Desc)
  BY DEF IInv, TypeOK, Desc
<1>2. \A t \in Tids : sendMap'[t] = sendMap[t] \/ sendMap'[t] = req
  <2>1. sendMap \in SendMapType /\ nextTid \in Nat
    BY DEF IInv, TypeOK, SendMapType
  <2>2. StoreAll(<< req >>)
    BY DEF ReadInbox
  <2>3. \A t \in Tids : sendMap'[t] = sendMap[t] \/ \E i \in 1..Len(<< req >>) : sendMap'[t] = << req >>[i]
    BY <1>1, <2>1, <2>2, StoreAllEntries
  <2>4. QED BY <2>3
<1>3. UNCHANGED <<loop, readOffset, inbox, persisted>>
  BY DEF ReadInbox
<1>4. \A t \in Tids : sendMap'[t] # NoDesc /\ sendMap'[t].nick = User
                          => sendMap'[t].off <= readOffset'
  BY <1>2, <1>3 DEF ReadsNeverAhead, IInv, TypeOK
<1>5. QED BY <1>3, <1>4 DEF ReadsNeverAhead

(* Every descriptor in the send map carries a slot number.                *)
LEMMA DescOff ==
    ASSUME IInv, NEW t \in Tids, sendMap[t] # NoDesc
    PROVE  sendMap[t] \in Desc /\ sendMap[t].off \in Nat
<1>1. sendMap[t] \in Desc
  BY DEF IInv, TypeOK
<1>2. QED BY <1>1 DEF Desc

(* Every step of the model keeps ReadsNeverAhead, given IInv.            *)
LEMMA NextReads == IInv /\ ReadsNeverAhead /\ [Next]_vars => ReadsNeverAhead'
<1> SUFFICES ASSUME IInv, ReadsNeverAhead, [Next]_vars PROVE ReadsNeverAhead'
  OBVIOUS
<1>1. ASSUME NEW n \in Nicknames, NewContact(n) \/ RemoveContact(n)
      PROVE  ReadsNeverAhead'
  BY <1>1, ReadsUnchanged DEF NewContact, RemoveContact
<1>2. ASSUME NEW n \in Nicknames, SendMessage(n) PROVE ReadsNeverAhead'
  BY <1>2, SendMessageReads
<1>3. ASSUME NEW id \in ContactIds,
             \/ PandaTimeout(id) \/ PandaFailure(id) \/ PandaResult(id)
             \/ \E blob \in 1..MaxKxBlob : PandaProgress(id, blob)
      PROVE  ReadsNeverAhead'
  BY <1>3, ReadsUnchanged
     DEF PandaTimeout, PandaFailure, PandaResult, PandaProgress, DropUnknownUpdate
<1>4. ASSUME NEW id \in ContactIds, PeerAppend(id) PROVE ReadsNeverAhead'
  BY <1>4 DEF PeerAppend, ReadsNeverAhead, IInv, TypeOK
<1>5. CASE ReadInbox
  BY <1>5, ReadInboxReads
<1>6. ASSUME NEW t \in Tids, HandleSent(t) PROVE ReadsNeverAhead'
  BY <1>6, ReadsUnchanged DEF HandleSent
<1>7. ASSUME NEW t \in Tids, HandleReply(t) PROVE ReadsNeverAhead'
  <2>1. PICK statusOK \in BOOLEAN :
          LET d == sendMap[t] IN
          IF statusOK /\ d # NoDesc /\ Present(d) /\ ~Chargeable(d) THEN Die("panicBug")
          ELSE /\ loop' \in {"running", "blocked"}
               /\ UNCHANGED <<sendMap, readOffset, inbox, persisted>>
    BY <1>7 DEF HandleReply
  <2>2. QED BY <2>1, DieReads, ReadsUnchanged DEF Down
<1>8. ASSUME NEW t \in Tids, HandleReadResponse(t) PROVE ReadsNeverAhead'
  <2> DEFINE k == sendMap[t].off
  <2>1. /\ sendMap[t] \in Desc /\ sendMap[t].nick = User
        /\ k \in Nat /\ k < Len(inbox)
    BY <1>8, DescOff DEF HandleReadResponse, ReadAnswered
  <2>2. UNCHANGED <<loop, sendMap, inbox, persisted>> /\ loop = "running"
    BY <1>8 DEF HandleReadResponse
  <2>3. readOffset' = readOffset \/ (k = readOffset /\ readOffset' = readOffset + 1)
    BY <1>8 DEF HandleReadResponse
  <2>4. readOffset \in Nat /\ readOffset <= readOffset' /\ readOffset' <= Len(inbox)
    BY <2>1, <2>3 DEF ReadsNeverAhead, IInv, TypeOK
  <2>5. ASSUME NEW u \in Tids, sendMap'[u] # NoDesc, sendMap'[u].nick = User
        PROVE  sendMap'[u].off <= readOffset'
    <3>1. sendMap[u] # NoDesc /\ sendMap[u].nick = User
      BY <2>2, <2>5
    <3>2. sendMap[u].off \in Nat /\ sendMap[u].off <= readOffset
      BY <3>1, DescOff DEF ReadsNeverAhead
    <3>3. sendMap'[u] = sendMap[u]
      BY <2>2
    <3>4. readOffset' \in Nat
      BY <2>1, <2>3, <2>4
    <3>5. QED BY <2>4, <3>2, <3>3, <3>4
  <2>6. persisted'.readOffset <= readOffset'
    <3>1. persisted.readOffset \in Nat /\ persisted.readOffset <= readOffset
      BY DEF ReadsNeverAhead, IInv, TypeOK
    <3>2. readOffset' \in Nat
      BY <2>1, <2>3, <2>4
    <3>3. QED BY <2>2, <2>4, <3>1, <3>2
  <2>7. loop' # "panicAhead"
    BY <2>2
  <2>8. QED BY <2>2, <2>4, <2>5, <2>6, <2>7 DEF ReadsNeverAhead
<1>9. ASSUME NEW t \in Tids, HandleReadResponsePanics(t) PROVE ReadsNeverAhead'
  <2> DEFINE k == sendMap[t].off
  <2>1. sendMap[t] # NoDesc /\ sendMap[t].nick = User /\ k \in Nat
    BY <1>9, DescOff DEF HandleReadResponsePanics, ReadAnswered
  <2>2. k <= readOffset /\ readOffset \in Nat
    BY <2>1 DEF ReadsNeverAhead, IInv, TypeOK
  <2>3. Die("panicDecrypt")
    BY <1>9, <2>1, <2>2 DEF HandleReadResponsePanics
  <2>4. QED BY <2>3, DieReads DEF Down
<1>10. ASSUME NEW t \in Tids, GarbageCollectSendMap(t) PROVE ReadsNeverAhead'
  BY <1>10 DEF GarbageCollectSendMap, ReadsNeverAhead, IInv, TypeOK
<1>11. ASSUME NEW n \in Nicknames, SendMessagePanics(n) PROVE ReadsNeverAhead'
  BY <1>11, DieReads DEF SendMessagePanics, Down
<1>12. CASE GarbageCollectConversations \/ Tick \/ Restart
  <2>1. loop' # "panicAhead"
    BY <1>12 DEF GarbageCollectConversations, Tick, Restart, ReadsNeverAhead
  <2>2. QED BY <1>12, <2>1, ReadsUnchanged DEF GarbageCollectConversations, Tick, Restart
<1>13. CASE Kill
  BY <1>13, DieReads DEF Kill, Down
<1>14. CASE UNCHANGED vars
  BY <1>14 DEF vars, ReadsNeverAhead
<1>15. CASE RestartPanics
  <2>1. loop' # "panicAhead"
    BY <1>15 DEF RestartPanics
  <2>2. QED BY <1>15, <2>1, ReadsUnchanged DEF RestartPanics
<1>16. QED BY <1>1, <1>2, <1>3, <1>4, <1>5, <1>6, <1>7, <1>8, <1>9, <1>10, <1>11,
              <1>12, <1>13, <1>14, <1>15 DEF Next

(* handleReply never panics with "received spool response for MessageID  *)
(* not requested yet": in every reachable state each read in the send map *)
(* asks for a slot at or below ReadOffset, ReadOffset stays within the    *)
(* spool and is never behind the state file, through any interleaving of *)
(* reads, replies, garbage collection, crashes and restarts.              *)
THEOREM ReadsNeverAheadInvariant == Spec => []ReadsNeverAhead
<1>1. Init => ReadsNeverAhead
  BY DEF Init, ReadsNeverAhead
<1>2. Spec => [](IInv /\ ReadsNeverAhead)
  BY <1>1, InitInv, NextInv, NextReads, PTL DEF Spec
<1>3. QED BY <1>2, PTL

=============================================================================
