---------------------------- MODULE ReaderProofs ----------------------------
(***************************************************************************)
(* The client implements the abstract spool reader: under the refinement  *)
(* mapping slots <- Len(inbox), offset <- readOffset, saved <-            *)
(* persisted.readOffset, every step of Client is a step of SpoolReader or *)
(* leaves the three alone.  The only fact of the client state the proof   *)
(* needs is the type part of IInv (proved in ClientProofs).               *)
(***************************************************************************)
EXTENDS ClientProofs, TLAPS

(* A handler that leaves ReadOffset and the spool alone, and either keeps *)
(* the state file or ends with save(), is a Save or a stutter.            *)
LEMMA SaveOrStutter ==
    ASSUME UNCHANGED <<readOffset, inbox>>, persisted' = persisted \/ SaveState
    PROVE  [Reader!ReaderNext]_Reader!readerVars
<1>1. CASE persisted' = persisted
  BY <1>1 DEF Reader!readerVars
<1>2. CASE SaveState
  <2>1. Reader!Save
    BY <1>2 DEF Reader!Save, SaveState
  <2>2. QED BY <2>1 DEF Reader!ReaderNext
<1>3. QED BY <1>1, <1>2

(* A process that dies restarts from the saved ReadOffset: a Rollback.    *)
LEMMA DieRollback ==
    ASSUME NEW reason, Die(reason)
    PROVE  [Reader!ReaderNext]_Reader!readerVars
<1>1. Reader!Rollback
  BY DEF Die, Reader!Rollback
<1>2. QED BY <1>1 DEF Reader!ReaderNext

(* doSendMessage either returns before save() or ends with it.            *)
LEMMA SendMessagePersists ==
    ASSUME NEW n \in Nicknames, SendMessage(n)
    PROVE  persisted' = persisted \/ SaveState
<1>1. PICK mid \in MIDs \ usedMids :
        LET conv == WithOutbound(n, mid)
            id   == contactNicknames[n]
        IN
        IF id = NoContact \/ contacts[id].isPending
        THEN UNCHANGED persisted
        ELSE \E batch \in (IF Saturated(id) THEN RetransmitBatches(conv) ELSE {<< >>}),
                submitted \in BOOLEAN :
               IF submitted THEN SaveState ELSE UNCHANGED persisted
  BY DEF SendMessage
<1> DEFINE id == contactNicknames[n]
<1>2. CASE id = NoContact \/ contacts[id].isPending
  BY <1>1, <1>2
<1>3. CASE ~(id = NoContact \/ contacts[id].isPending)
  <2>1. PICK batch \in (IF Saturated(id) THEN RetransmitBatches(WithOutbound(n, mid))
                                         ELSE {<< >>}),
             submitted \in BOOLEAN :
          IF submitted THEN SaveState ELSE UNCHANGED persisted
    BY <1>1, <1>3
  <2>2. QED BY <2>1
<1>4. QED BY <1>2, <1>3

(* handleReply on a read: a duplicate leaves the cursor, the tip is a     *)
(* Consume of a slot the spool holds.                                     *)
LEMMA ReadResponseConsumes ==
    ASSUME IInv, NEW t \in Tids, HandleReadResponse(t)
    PROVE  [Reader!ReaderNext]_Reader!readerVars
<1> DEFINE k == sendMap[t].off
<1>1. UNCHANGED <<inbox, persisted>>
  BY DEF HandleReadResponse
<1>2. CASE UNCHANGED readOffset
  BY <1>1, <1>2 DEF Reader!readerVars
<1>3. CASE k = readOffset /\ readOffset' = readOffset + 1
  <2>1. k < Len(inbox)
    BY DEF HandleReadResponse, ReadAnswered
  <2>2. Reader!Consume
    BY <1>1, <1>3, <2>1 DEF Reader!Consume
  <2>3. QED BY <2>2 DEF Reader!ReaderNext
<1>4. QED BY <1>2, <1>3 DEF HandleReadResponse

(* A peer's append is an Arrive.                                          *)
LEMMA PeerAppendArrives ==
    ASSUME IInv, NEW id \in ContactIds, PeerAppend(id)
    PROVE  [Reader!ReaderNext]_Reader!readerVars
<1>1. Len(inbox') = Len(inbox) + 1
  BY DEF PeerAppend, IInv, TypeOK
<1>2. Reader!Arrive
  BY <1>1 DEF PeerAppend, Reader!Arrive
<1>3. QED BY <1>2 DEF Reader!ReaderNext

(* Every step of the client maps to a step of the reader or a stutter.   *)
LEMMA NextRefines == IInv /\ [Next]_vars => [Reader!ReaderNext]_Reader!readerVars
<1> SUFFICES ASSUME IInv, [Next]_vars PROVE [Reader!ReaderNext]_Reader!readerVars
  OBVIOUS
<1>1. ASSUME NEW n \in Nicknames, NewContact(n) \/ RemoveContact(n)
      PROVE  [Reader!ReaderNext]_Reader!readerVars
  BY <1>1, SaveOrStutter DEF NewContact, RemoveContact
<1>2. ASSUME NEW n \in Nicknames, SendMessage(n) PROVE [Reader!ReaderNext]_Reader!readerVars
  BY <1>2, SendMessagePersists, SaveOrStutter DEF SendMessage
<1>3. ASSUME NEW n \in Nicknames, SendMessagePanics(n)
      PROVE  [Reader!ReaderNext]_Reader!readerVars
  BY <1>3, DieRollback DEF SendMessagePanics
<1>4. ASSUME NEW id \in ContactIds,
             \/ PandaTimeout(id) \/ PandaFailure(id) \/ PandaResult(id)
             \/ \E blob \in 1..MaxKxBlob : PandaProgress(id, blob)
      PROVE  [Reader!ReaderNext]_Reader!readerVars
  BY <1>4, SaveOrStutter
     DEF PandaTimeout, PandaFailure, PandaResult, PandaProgress, DropUnknownUpdate
<1>5. ASSUME NEW id \in ContactIds, PeerAppend(id) PROVE [Reader!ReaderNext]_Reader!readerVars
  BY <1>5, PeerAppendArrives
<1>6. CASE ReadInbox
  BY <1>6, SaveOrStutter DEF ReadInbox
<1>7. ASSUME NEW t \in Tids, HandleSent(t) \/ GarbageCollectSendMap(t)
      PROVE  [Reader!ReaderNext]_Reader!readerVars
  BY <1>7, SaveOrStutter DEF HandleSent, GarbageCollectSendMap
<1>8. ASSUME NEW t \in Tids, HandleReply(t) PROVE [Reader!ReaderNext]_Reader!readerVars
  <2>1. PICK statusOK \in BOOLEAN :
          LET d == sendMap[t] IN
          IF statusOK /\ d # NoDesc /\ Present(d) /\ ~Chargeable(d) THEN Die("panicBug")
          ELSE UNCHANGED <<readOffset, inbox, persisted>>
    BY <1>8 DEF HandleReply
  <2>2. QED BY <2>1, DieRollback, SaveOrStutter
<1>9. ASSUME NEW t \in Tids, HandleReadResponse(t) PROVE [Reader!ReaderNext]_Reader!readerVars
  BY <1>9, ReadResponseConsumes
<1>10. ASSUME NEW t \in Tids, HandleReadResponsePanics(t)
       PROVE  [Reader!ReaderNext]_Reader!readerVars
  BY <1>10, DieRollback DEF HandleReadResponsePanics
<1>11. CASE GarbageCollectConversations \/ Tick \/ Restart
  BY <1>11, SaveOrStutter DEF GarbageCollectConversations, Tick, Restart
<1>12. CASE Kill
  BY <1>12, DieRollback DEF Kill
<1>13. CASE UNCHANGED vars
  BY <1>13 DEF vars, Reader!readerVars
<1>14. CASE RestartPanics
  BY <1>14 DEF RestartPanics, Reader!readerVars
<1>15. QED BY <1>1, <1>2, <1>3, <1>4, <1>5, <1>6, <1>7, <1>8, <1>9, <1>10, <1>11,
              <1>12, <1>13, <1>14 DEF Next

(* The client implements the abstract spool reader: ReadOffset moves only *)
(* by handleReply consuming an existing tip, the state file only takes    *)
(* the current ReadOffset in save(), and New restarts from the saved one. *)
THEOREM ImplementsReader == Spec => ReaderRefinement
<1>1. Init => Reader!ReaderInit
  BY DEF Init, Reader!ReaderInit
<1>2. Spec => []IInv
  BY IInvInvariant
<1>3. QED BY <1>1, <1>2, NextRefines, PTL
          DEF Spec, ReaderRefinement, Reader!ReaderSpec

=============================================================================
