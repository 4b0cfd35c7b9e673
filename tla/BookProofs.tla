----------------------------- MODULE BookProofs -----------------------------
(***************************************************************************)
(* The client implements the abstract contact book: under the refinement  *)
(* mapping book <- contactNicknames, saved <- LoadedNicknames (the index   *)
(* New() would rebuild from the state file), every step of Client is a    *)
(* step of ContactBook or leaves both alone.  The argument rests on IInv:  *)
(* right after save() the rebuilt index is the index in memory, because   *)
(* the two contact maps agree (ContactIndexConsistent); and createContact *)
(* draws an id no contact holds (FreshIdsAbsent).                          *)
(***************************************************************************)
EXTENDS ReaderProofs, TLAPS

(* A state file just written from consistent contact maps rebuilds the    *)
(* same nickname index.                                                   *)
LEMMA SavedIndexIsMemory ==
    ASSUME IInv', persisted'.contacts = contacts'
    PROVE  LoadedNicknames' = contactNicknames'
<1>1. contacts' \in ContactsType
      /\ contactNicknames' \in [Nicknames -> ContactIds \cup {NoContact}]
  BY DEF IInv, TypeOK, ContactsType
<1>2. ASSUME NEW n \in Nicknames PROVE LoadedNicknames'[n] = contactNicknames'[n]
  <2>1. CASE contactNicknames'[n] # NoContact
    <3> DEFINE id == contactNicknames'[n]
    <3>1. id \in ContactIds /\ contacts'[id] # NoContact /\ contacts'[id].nickname = n
      BY <1>1, <2>1 DEF IInv, ContactIndexConsistent
    <3>2. PICK j \in ContactIds : /\ LoadedNicknames'[n] = j
                                  /\ contacts'[j] # NoContact /\ contacts'[j].nickname = n
      BY <3>1 DEF LoadedNicknames
    <3>3. contactNicknames'[n] = j
      BY <3>2 DEF IInv, ContactIndexConsistent
    <3>4. QED BY <3>2, <3>3
  <2>2. CASE contactNicknames'[n] = NoContact
    <3>1. ~\E id \in ContactIds : contacts'[id] # NoContact /\ contacts'[id].nickname = n
      BY <2>2, ConstantsAssumption DEF IInv, ContactIndexConsistent
    <3>2. QED BY <2>2, <3>1 DEF LoadedNicknames
  <2>3. QED BY <2>1, <2>2
<1>3. LoadedNicknames' \in [Nicknames -> ContactIds \cup {NoContact}]
  BY DEF LoadedNicknames
<1>4. QED BY <1>1, <1>2, <1>3

(* A step that leaves the nickname index alone and keeps the file or     *)
(* saves is a SaveBook or a stutter.                                      *)
LEMMA BookSaveOrStutter ==
    ASSUME IInv', UNCHANGED contactNicknames, persisted' = persisted \/ SaveState
    PROVE  [Book!BookNext]_Book!bookVars
<1>1. CASE persisted' = persisted
  <2>1. LoadedNicknames' = LoadedNicknames
    BY <1>1 DEF LoadedNicknames
  <2>2. QED BY <2>1 DEF Book!bookVars
<1>2. CASE SaveState
  <2>1. LoadedNicknames' = contactNicknames
    BY <1>2, SavedIndexIsMemory DEF SaveState
  <2>2. Book!SaveBook
    BY <2>1 DEF Book!SaveBook
  <2>3. QED BY <2>2 DEF Book!BookNext
<1>3. QED BY <1>1, <1>2

(* A dying process rebuilds the index from the unchanged state file.      *)
LEMMA BookRollback ==
    ASSUME NEW reason, Die(reason)
    PROVE  [Book!BookNext]_Book!bookVars
<1>1. LoadedNicknames' = LoadedNicknames
  BY DEF Die, LoadedNicknames
<1>2. Book!RollbackBook
  BY <1>1 DEF Die, Book!RollbackBook
<1>3. QED BY <1>2 DEF Book!BookNext

(* createContact: a free nickname takes an id randID has not returned, so *)
(* no nickname holds it; the handler ends with save() when the key        *)
(* exchange starts, and returns without saving when it cannot be set up.  *)
LEMMA NewContactAdds ==
    ASSUME IInv, IInv', NEW n \in Nicknames, NewContact(n)
    PROVE  [Book!BookNext]_Book!bookVars
<1>1. PICK id \in ContactIds \ usedIds :
        /\ contactNicknames' = [contactNicknames EXCEPT ![n] = id]
        /\ \/ SaveState
           \/ UNCHANGED persisted
  BY DEF NewContact
<1>2. contactNicknames[n] = NoContact
  BY DEF NewContact
<1>3. \A x \in Nicknames : contactNicknames[x] # id
  <2>1. contacts[id] = NoContact
    BY DEF IInv, FreshIdsAbsent
  <2>2. QED BY <2>1, ConstantsAssumption DEF IInv, ContactIndexConsistent
<1>4. CASE SaveState
  <2>1. LoadedNicknames' = contactNicknames'
    BY <1>4, SavedIndexIsMemory DEF SaveState
  <2>2. Book!Add(n, id)
    BY <1>1, <1>2, <1>3, <2>1 DEF Book!Add
  <2>3. QED BY <2>2 DEF Book!BookNext
<1>5. CASE UNCHANGED persisted
  <2>1. LoadedNicknames' = LoadedNicknames
    BY <1>5 DEF LoadedNicknames
  <2>2. Book!AddUnsaved(n, id)
    BY <1>1, <1>2, <1>3, <2>1 DEF Book!AddUnsaved
  <2>3. QED BY <2>2 DEF Book!BookNext
<1>6. QED BY <1>1, <1>4, <1>5

(* doContactRemoval: the nickname is dropped and the handler saves.        *)
LEMMA RemoveContactRemoves ==
    ASSUME IInv, IInv', NEW n \in Nicknames, RemoveContact(n)
    PROVE  [Book!BookNext]_Book!bookVars
<1>1. contactNicknames[n] # NoContact
      /\ contactNicknames' = [contactNicknames EXCEPT ![n] = NoContact]
  BY DEF RemoveContact
<1>2. LoadedNicknames' = contactNicknames'
  BY SavedIndexIsMemory DEF RemoveContact, SaveState
<1>3. Book!Remove(n)
  BY <1>1, <1>2 DEF Book!Remove
<1>4. QED BY <1>3 DEF Book!BookNext

(* Every step of the client maps to a step of the book or a stutter.     *)
LEMMA NextBook == IInv /\ IInv' /\ [Next]_vars => [Book!BookNext]_Book!bookVars
<1> SUFFICES ASSUME IInv, IInv', [Next]_vars PROVE [Book!BookNext]_Book!bookVars
  OBVIOUS
<1>1. ASSUME NEW n \in Nicknames, NewContact(n) PROVE [Book!BookNext]_Book!bookVars
  BY <1>1, NewContactAdds
<1>2. ASSUME NEW n \in Nicknames, RemoveContact(n) PROVE [Book!BookNext]_Book!bookVars
  BY <1>2, RemoveContactRemoves
<1>3. ASSUME NEW n \in Nicknames, SendMessage(n) PROVE [Book!BookNext]_Book!bookVars
  BY <1>3, SendMessagePersists, BookSaveOrStutter DEF SendMessage
<1>4. ASSUME NEW n \in Nicknames, SendMessagePanics(n) PROVE [Book!BookNext]_Book!bookVars
  BY <1>4, BookRollback DEF SendMessagePanics
<1>5. ASSUME NEW id \in ContactIds,
             \/ PandaTimeout(id) \/ PandaFailure(id) \/ PandaResult(id)
             \/ \E blob \in 1..MaxKxBlob : PandaProgress(id, blob)
      PROVE  [Book!BookNext]_Book!bookVars
  BY <1>5, BookSaveOrStutter
     DEF PandaTimeout, PandaFailure, PandaResult, PandaProgress, DropUnknownUpdate
<1>6. ASSUME NEW id \in ContactIds, PeerAppend(id) PROVE [Book!BookNext]_Book!bookVars
  BY <1>6, BookSaveOrStutter DEF PeerAppend
<1>7. CASE ReadInbox \/ Tick \/ GarbageCollectConversations \/ Restart
  BY <1>7, BookSaveOrStutter DEF ReadInbox, Tick, GarbageCollectConversations, Restart
<1>8. ASSUME NEW t \in Tids,
             \/ HandleSent(t) \/ GarbageCollectSendMap(t) \/ HandleReadResponse(t)
      PROVE  [Book!BookNext]_Book!bookVars
  BY <1>8, BookSaveOrStutter DEF HandleSent, GarbageCollectSendMap, HandleReadResponse
<1>9. ASSUME NEW t \in Tids, HandleReply(t) PROVE [Book!BookNext]_Book!bookVars
  <2>1. PICK statusOK \in BOOLEAN :
          LET d == sendMap[t] IN
          IF statusOK /\ d # NoDesc /\ Present(d) /\ ~Chargeable(d) THEN Die("panicBug")
          ELSE UNCHANGED <<contactNicknames, persisted>>
    BY <1>9 DEF HandleReply
  <2>2. QED BY <2>1, BookRollback, BookSaveOrStutter
<1>10. ASSUME NEW t \in Tids, HandleReadResponsePanics(t)
       PROVE  [Book!BookNext]_Book!bookVars
  BY <1>10, BookRollback DEF HandleReadResponsePanics
<1>11. CASE Kill
  BY <1>11, BookRollback DEF Kill
<1>12. CASE UNCHANGED vars
  BY <1>12, BookSaveOrStutter DEF vars
<1>14. CASE RestartPanics
  BY <1>14, BookSaveOrStutter DEF RestartPanics
<1>13. QED BY <1>1, <1>2, <1>3, <1>4, <1>5, <1>6, <1>7, <1>8, <1>9, <1>10, <1>11,
              <1>12, <1>14 DEF Next

(* The client implements the abstract contact book, for every value of   *)
(* the constants: the nickname index changes only by createContact adding *)
(* a nickname under an id no nickname holds (saved, unless the key        *)
(* exchange cannot be set up) or doContactRemoval removing one and        *)
(* saving, and New restores the saved index after a crash.               *)
THEOREM ImplementsBook == Spec => BookRefinement
<1>1. Init => Book!BookInit
  <2> SUFFICES ASSUME Init PROVE Book!BookInit
    OBVIOUS
  <2>1. \A n \in Nicknames : ~\E id \in ContactIds :
          persisted.contacts[id] # NoContact /\ persisted.contacts[id].nickname = n
    BY DEF Init
  <2>2. LoadedNicknames = [n \in Nicknames |-> NoContact]
    BY <2>1 DEF LoadedNicknames
  <2>3. QED BY <2>2 DEF Init, Book!BookInit
<1>2. Spec => []IInv
  BY IInvInvariant
<1>3. QED BY <1>1, <1>2, NextBook, PTL
          DEF Spec, BookRefinement, Book!BookSpec

=============================================================================
