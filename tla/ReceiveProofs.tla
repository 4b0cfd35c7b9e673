--------------------------- MODULE ReceiveProofs ---------------------------
(***************************************************************************)
(* ReceivedAtMostOnce (spec I5, P2) for every value of the constants.      *)
(*                                                                         *)
(* The invariant is inductive relative to IInv.  Every handler either      *)
(* keeps each received message where it is (it may drop it, or change a   *)
(* flag of it), or writes an outbound message, or -- the tip branch of     *)
(* handleReply -- stores the slot ReadOffset + 1 while raising ReadOffset *)
(* to it, a slot no message holds yet.  A crash reloads conversations and *)
(* ReadOffset together from the state file, which save() writes together. *)
(***************************************************************************)
EXTENDS ReaderProofs, TLAPS

(* Every received message of c2 is a received message of c with the same *)
(* plaintext at the same place: c2 only dropped or re-flagged messages of  *)
(* c, or wrote outbound ones.                                              *)
ReceivedKept(c, c2) ==
    \A n \in Nicknames, m \in MIDs :
        \/ c2[n][m] = NoMsg
        \/ c2[n][m].outbound
        \/ /\ c[n][m] # NoMsg /\ ~c[n][m].outbound
           /\ c2[n][m].plaintext = c[n][m].plaintext

(* A step that keeps the received messages and does not lower the offset  *)
(* keeps them unique and within the offset.                                *)
LEMMA KeptAtMostOnce ==
    ASSUME NEW c, NEW c2, NEW o \in Nat, NEW o2 \in Nat, o <= o2,
           ReceivedAtMostOnceIn(c, o), ReceivedKept(c, c2)
    PROVE  ReceivedAtMostOnceIn(c2, o2)
<1> SUFFICES ASSUME NEW n1 \in Nicknames, NEW n2 \in Nicknames,
                    NEW m1 \in MIDs, NEW m2 \in MIDs,
                    c2[n1][m1] # NoMsg, ~c2[n1][m1].outbound
             PROVE  /\ c2[n1][m1].plaintext \in 1..o2
                    /\ (c2[n2][m2] # NoMsg /\ ~c2[n2][m2].outbound
                        /\ c2[n1][m1].plaintext = c2[n2][m2].plaintext)
                         => n1 = n2 /\ m1 = m2
  BY DEF ReceivedAtMostOnceIn
<1>1. c[n1][m1] # NoMsg /\ ~c[n1][m1].outbound
      /\ c2[n1][m1].plaintext = c[n1][m1].plaintext
  BY DEF ReceivedKept
<1>2. c2[n1][m1].plaintext \in 1..o2
  BY <1>1 DEF ReceivedAtMostOnceIn
<1>3. ASSUME c2[n2][m2] # NoMsg, ~c2[n2][m2].outbound,
             c2[n1][m1].plaintext = c2[n2][m2].plaintext
      PROVE  n1 = n2 /\ m1 = m2
  <2>1. c[n2][m2] # NoMsg /\ ~c[n2][m2].outbound
        /\ c2[n2][m2].plaintext = c[n2][m2].plaintext
    BY <1>3 DEF ReceivedKept
  <2>2. c[n1][m1].plaintext = c[n2][m2].plaintext
    BY <1>1, <1>3, <2>1
  <2>3. \A x1, x2 \in Nicknames, y1, y2 \in MIDs :
          (/\ c[x1][y1] # NoMsg /\ ~c[x1][y1].outbound
           /\ c[x2][y2] # NoMsg /\ ~c[x2][y2].outbound
           /\ c[x1][y1].plaintext = c[x2][y2].plaintext) => x1 = x2 /\ y1 = y2
    BY DEF ReceivedAtMostOnceIn
  <2>4. QED BY <1>1, <2>1, <2>2, <2>3
<1>4. QED BY <1>2, <1>3

(* Writing one entry that is outbound, or that keeps the kind and the     *)
(* plaintext of the message it replaces, keeps the received messages.     *)
LEMMA KeptUpdate ==
    ASSUME NEW c \in ConvsType, NEW n \in Nicknames, NEW m \in MIDs, NEW r,
           \/ r.outbound = TRUE
           \/ c[n][m] # NoMsg /\ r.outbound = c[n][m].outbound
              /\ r.plaintext = c[n][m].plaintext
    PROVE  ReceivedKept(c, [c EXCEPT ![n][m] = r])
BY DEF ReceivedKept, ConvsType

(* Nothing changed keeps the received messages.                           *)
LEMMA KeptSame ==
    ASSUME NEW c \in ConvsType
    PROVE  ReceivedKept(c, c)
BY DEF ReceivedKept, ConvsType

(* garbageCollectConversations drops messages or clears a ciphertext.     *)
LEMMA KeptCollect ==
    ASSUME NEW c \in ConvsType
    PROVE  ReceivedKept(c, CollectGarbage(c))
<1> SUFFICES ASSUME NEW n \in Nicknames, NEW m \in MIDs,
                    CollectGarbage(c)[n][m] # NoMsg, ~CollectGarbage(c)[n][m].outbound
             PROVE  c[n][m] # NoMsg /\ ~c[n][m].outbound
                    /\ CollectGarbage(c)[n][m].plaintext = c[n][m].plaintext
  BY DEF ReceivedKept
<1>1. c[n][m] \in MsgRec /\ CollectGarbage(c)[n][m] \in {c[n][m], [c[n][m] EXCEPT !.hasCipher = FALSE]}
  BY DEF CollectGarbage, ConvsType
<1>2. c[n][m] # NoMsg
  BY <1>1, SentinelsAssumption
<1>3. [c[n][m] EXCEPT !.hasCipher = FALSE].outbound = c[n][m].outbound
      /\ [c[n][m] EXCEPT !.hasCipher = FALSE].plaintext = c[n][m].plaintext
  BY <1>1 DEF MsgRec
<1>4. QED BY <1>1, <1>2, <1>3

(* The tip branch of handleReply: slot o + 1 is stored while the offset   *)
(* becomes o + 1; every stored slot is at most o, so it is new.           *)
LEMMA TipAtMostOnce ==
    ASSUME NEW c \in ConvsType, NEW o \in Nat, ReceivedAtMostOnceIn(c, o),
           NEW n \in Nicknames, NEW m \in MIDs
    PROVE  ReceivedAtMostOnceIn([c EXCEPT ![n][m] = Received(o + 1)], o + 1)
<1> DEFINE c2 == [c EXCEPT ![n][m] = Received(o + 1)]
<1> SUFFICES ASSUME NEW n1 \in Nicknames, NEW n2 \in Nicknames,
                    NEW m1 \in MIDs, NEW m2 \in MIDs,
                    c2[n1][m1] # NoMsg, ~c2[n1][m1].outbound
             PROVE  /\ c2[n1][m1].plaintext \in 1..o + 1
                    /\ (c2[n2][m2] # NoMsg /\ ~c2[n2][m2].outbound
                        /\ c2[n1][m1].plaintext = c2[n2][m2].plaintext)
                         => n1 = n2 /\ m1 = m2
  BY DEF ReceivedAtMostOnceIn
<1>1. Received(o + 1).plaintext = o + 1 /\ ~Received(o + 1).outbound
  BY DEF Received
<1>2. \A n3 \in Nicknames, m3 \in MIDs :
        c2[n3][m3] = IF n3 = n /\ m3 = m THEN Received(o + 1) ELSE c[n3][m3]
  BY DEF ConvsType
<1>3. \A n3 \in Nicknames, m3 \in MIDs :
        c[n3][m3] # NoMsg /\ ~c[n3][m3].outbound => c[n3][m3].plaintext \in 1..o
  BY DEF ReceivedAtMostOnceIn
<1>4. QED BY <1>1, <1>2, <1>3 DEF ReceivedAtMostOnceIn

(* A step whose new conversations and ReadOffset satisfy the invariant,   *)
(* and that either keeps the state file or saves, keeps ReceivedAtMostOnce. *)
LEMMA RecvStep ==
    ASSUME ReceivedAtMostOnceIn(conversations', readOffset'),
           ReceivedAtMostOnceIn(persisted.conversations, persisted.readOffset),
           persisted' = persisted \/ SaveState
    PROVE  ReceivedAtMostOnce'
BY DEF ReceivedAtMostOnce, SaveState

(* A handler that leaves the conversations and ReadOffset alone.          *)
LEMMA RecvQuiet ==
    ASSUME ReceivedAtMostOnce, UNCHANGED <<conversations, readOffset>>,
           persisted' = persisted \/ SaveState
    PROVE  ReceivedAtMostOnce'
BY RecvStep DEF ReceivedAtMostOnce

(* A handler that keeps the received messages, does not lower ReadOffset *)
(* and keeps the state file or saves.                                      *)
LEMMA RecvKept ==
    ASSUME IInv, ReceivedAtMostOnce, ReceivedKept(conversations, conversations'),
           readOffset' \in Nat, readOffset <= readOffset',
           persisted' = persisted \/ SaveState
    PROVE  ReceivedAtMostOnce'
BY KeptAtMostOnce, RecvStep DEF ReceivedAtMostOnce, IInv, TypeOK

(* A dying process reloads conversations and ReadOffset from the file.    *)
LEMMA DieRecv ==
    ASSUME ReceivedAtMostOnce, NEW reason, Die(reason)
    PROVE  ReceivedAtMostOnce'
BY RecvStep DEF Die, ReceivedAtMostOnce

(* doSendMessage writes an outbound message under a fresh MessageID.      *)
LEMMA SendMessageRecv ==
    ASSUME IInv, ReceivedAtMostOnce, NEW n \in Nicknames, SendMessage(n)
    PROVE  ReceivedAtMostOnce'
<1> DEFINE c == conversations
<1>1. PICK mid \in MIDs \ usedMids :
        \/ conversations' = [c EXCEPT ![n] = WithOutbound(n, mid)]
        \/ conversations' = [c EXCEPT ![n] = [WithOutbound(n, mid) EXCEPT ![mid].hasCipher = TRUE]]
  BY DEF SendMessage
<1>2. c \in ConvsType
  BY DEF IInv, TypeOK, ConvsType
<1>3. ReceivedKept(c, conversations')
  <2>1. CASE conversations' = [c EXCEPT ![n] = WithOutbound(n, mid)]
    <3>1. conversations' = [c EXCEPT ![n][mid] = NewOutbound]
      BY <2>1 DEF WithOutbound
    <3>2. NewOutbound.outbound = TRUE
      BY DEF NewOutbound
    <3>3. QED BY <1>2, <3>1, <3>2, KeptUpdate
  <2>2. CASE conversations' = [c EXCEPT ![n] = [WithOutbound(n, mid) EXCEPT ![mid].hasCipher = TRUE]]
    <3>1. conversations' = [c EXCEPT ![n][mid] = [NewOutbound EXCEPT !.hasCipher = TRUE]]
      BY <1>2, <2>2 DEF WithOutbound, ConvsType
    <3>2. [NewOutbound EXCEPT !.hasCipher = TRUE].outbound = TRUE
      BY DEF NewOutbound
    <3>3. QED BY <1>2, <3>1, <3>2, KeptUpdate
  <2>3. QED BY <1>1, <2>1, <2>2
<1>4. UNCHANGED readOffset
  BY DEF SendMessage
<1>5. QED BY <1>3, <1>4, SendMessagePersists, RecvKept DEF IInv, TypeOK

(* handleSent marks a message of its conversation Sent.                   *)
LEMMA HandleSentRecv ==
    ASSUME IInv, ReceivedAtMostOnce, NEW t \in Tids, HandleSent(t)
    PROVE  ReceivedAtMostOnce'
<1> DEFINE d == sendMap[t]
           c == conversations
<1>1. UNCHANGED <<readOffset, persisted>>
  BY DEF HandleSent
<1>2. c \in ConvsType
  BY DEF IInv, TypeOK, ConvsType
<1>3. CASE d # NoDesc /\ d.nick # User /\ c[d.nick][d.mid] # NoMsg
  <2>1. d.nick \in Nicknames /\ d.mid \in MIDs
    BY <1>3 DEF IInv, TypeOK, Desc
  <2>2. c[d.nick][d.mid] \in MsgRec
    BY <1>2, <1>3, <2>1 DEF ConvsType
  <2>3. conversations' = [c EXCEPT ![d.nick][d.mid] = [c[d.nick][d.mid] EXCEPT !.sent = TRUE]]
    BY <1>3 DEF HandleSent
  <2>4. [c[d.nick][d.mid] EXCEPT !.sent = TRUE].outbound = c[d.nick][d.mid].outbound
        /\ [c[d.nick][d.mid] EXCEPT !.sent = TRUE].plaintext = c[d.nick][d.mid].plaintext
    BY <2>2 DEF MsgRec
  <2>5. ReceivedKept(c, conversations')
    BY <1>2, <1>3, <2>1, <2>3, <2>4, KeptUpdate
  <2>6. QED BY <1>1, <2>5, RecvKept DEF IInv, TypeOK
<1>4. CASE ~(d # NoDesc /\ d.nick # User /\ c[d.nick][d.mid] # NoMsg)
  BY <1>1, <1>4, RecvQuiet DEF HandleSent
<1>5. QED BY <1>3, <1>4


(* handleReply: a panic reloads; an acknowledgement marks its message     *)
(* delivered and drops the ciphertext; a failed status changes nothing.   *)
LEMMA HandleReplyRecv ==
    ASSUME IInv, ReceivedAtMostOnce, NEW t \in Tids, HandleReply(t)
    PROVE  ReceivedAtMostOnce'
<1> DEFINE d == sendMap[t]
           c == conversations
<1>1. PICK statusOK \in BOOLEAN :
        /\ statusOK => d = NoDesc \/ WriteAcked(t)
        /\ IF statusOK /\ d # NoDesc /\ Present(d) /\ ~Chargeable(d) THEN Die("panicBug")
           ELSE /\ IF ~statusOK \/ d = NoDesc \/ ~Present(d)
                   THEN UNCHANGED conversations
                   ELSE conversations' = [c EXCEPT ![d.nick][d.mid] =
                                            [@ EXCEPT !.delivered = TRUE, !.hasCipher = FALSE]]
                /\ UNCHANGED <<readOffset, persisted>>
  BY DEF HandleReply
<1>2. CASE statusOK /\ d # NoDesc /\ Present(d) /\ ~Chargeable(d)
  BY <1>1, <1>2, DieRecv
<1>3. CASE ~(statusOK /\ d # NoDesc /\ Present(d) /\ ~Chargeable(d))
           /\ (~statusOK \/ d = NoDesc \/ ~Present(d))
  BY <1>1, <1>3, RecvQuiet
<1>4. CASE ~(statusOK /\ d # NoDesc /\ Present(d) /\ ~Chargeable(d))
           /\ ~(~statusOK \/ d = NoDesc \/ ~Present(d))
  <2>1. conversations' = [c EXCEPT ![d.nick][d.mid] =
                            [@ EXCEPT !.delivered = TRUE, !.hasCipher = FALSE]]
        /\ UNCHANGED <<readOffset, persisted>>
    BY <1>1, <1>4
  <2>2. c \in ConvsType
    BY DEF IInv, TypeOK, ConvsType
  <2>3. d.nick \in Nicknames /\ d.mid \in MIDs
    BY <1>1, <1>4 DEF WriteAcked, IInv, TypeOK, Desc
  <2>4. c[d.nick][d.mid] \in MsgRec
    BY <1>4, <2>2, <2>3 DEF ConvsType, Present
  <2> DEFINE r == [c[d.nick][d.mid] EXCEPT !.delivered = TRUE, !.hasCipher = FALSE]
  <2>5. conversations' = [c EXCEPT ![d.nick][d.mid] = r]
    BY <2>1, <2>2, <2>3 DEF ConvsType
  <2>6. r.outbound = c[d.nick][d.mid].outbound /\ r.plaintext = c[d.nick][d.mid].plaintext
    BY <2>4 DEF MsgRec
  <2>7. ReceivedKept(c, conversations')
    BY <1>4, <2>2, <2>3, <2>5, <2>6, KeptUpdate DEF Present
  <2>8. QED BY <2>1, <2>7, RecvKept DEF IInv, TypeOK
<1>5. QED BY <1>2, <1>3, <1>4

(* handleReply on a read: a duplicate is dropped; the tip is stored as    *)
(* slot ReadOffset + 1 and ReadOffset moves to it.                         *)
LEMMA HandleReadResponseRecv ==
    ASSUME IInv, ReceivedAtMostOnce, NEW t \in Tids, HandleReadResponse(t)
    PROVE  ReceivedAtMostOnce'
<1> DEFINE k == sendMap[t].off
<1>1. UNCHANGED persisted
  BY DEF HandleReadResponse
<1>2. CASE UNCHANGED <<readOffset, conversations>>
  BY <1>1, <1>2, RecvQuiet
<1>3. CASE /\ k = readOffset
           /\ Decryptable(k + 1)
           /\ readOffset' = readOffset + 1
           /\ \E mid \in MIDs \ usedMids :
                 conversations' = [conversations EXCEPT
                       ![contacts[inbox[k + 1]].nickname][mid] = Received(k + 1)]
  <2>1. PICK mid \in MIDs \ usedMids :
          conversations' = [conversations EXCEPT
                ![contacts[inbox[k + 1]].nickname][mid] = Received(k + 1)]
    BY <1>3
  <2>0. sendMap[t] \in Desc /\ sendMap[t].nick = User /\ k < Len(inbox)
    BY DEF HandleReadResponse, ReadAnswered, IInv, TypeOK
  <2>2. k \in Nat /\ k < Len(inbox)
    BY <2>0, ConstantsAssumption DEF Desc
  <2>3. inbox[k + 1] \in ContactIds
    BY <2>2 DEF IInv, TypeOK
  <2>4. contacts[inbox[k + 1]] \in ContactRec
    BY <1>3, <2>3 DEF Decryptable, IInv, TypeOK
  <2>5. contacts[inbox[k + 1]].nickname \in Nicknames
    BY <2>4 DEF ContactRec
  <2>6. ReceivedAtMostOnceIn(conversations', readOffset')
    BY <1>3, <2>1, <2>5, TipAtMostOnce DEF ReceivedAtMostOnce, IInv, TypeOK, ConvsType
  <2>7. QED BY <1>1, <2>6, RecvStep DEF ReceivedAtMostOnce
<1>4. QED BY <1>2, <1>3 DEF HandleReadResponse

(* Garbage collection, in the loop or at Start, only drops messages.      *)
LEMMA CollectRecv ==
    ASSUME IInv, ReceivedAtMostOnce, GarbageCollectConversations \/ Restart
    PROVE  ReceivedAtMostOnce'
<1>1. conversations \in ConvsType
  BY DEF IInv, TypeOK, ConvsType
<1>2. ReceivedKept(conversations, conversations') /\ UNCHANGED <<readOffset, persisted>>
  BY <1>1, KeptCollect DEF GarbageCollectConversations, Restart
<1>3. QED BY <1>2, RecvKept DEF IInv, TypeOK


(* Every step keeps ReceivedAtMostOnce, given IInv.                       *)
LEMMA NextRecv == IInv /\ ReceivedAtMostOnce /\ [Next]_vars => ReceivedAtMostOnce'
<1> SUFFICES ASSUME IInv, ReceivedAtMostOnce, [Next]_vars PROVE ReceivedAtMostOnce'
  OBVIOUS
<1>1. ASSUME NEW n \in Nicknames, NewContact(n) \/ RemoveContact(n)
      PROVE  ReceivedAtMostOnce'
  BY <1>1, RecvQuiet DEF NewContact, RemoveContact
<1>2. ASSUME NEW n \in Nicknames, SendMessage(n) PROVE ReceivedAtMostOnce'
  BY <1>2, SendMessageRecv
<1>3. ASSUME NEW n \in Nicknames, SendMessagePanics(n) PROVE ReceivedAtMostOnce'
  BY <1>3, DieRecv DEF SendMessagePanics
<1>4. ASSUME NEW id \in ContactIds,
             \/ PandaTimeout(id) \/ PandaFailure(id) \/ PandaResult(id)
             \/ \E blob \in 1..MaxKxBlob : PandaProgress(id, blob)
      PROVE  ReceivedAtMostOnce'
  BY <1>4, RecvQuiet
     DEF PandaTimeout, PandaFailure, PandaResult, PandaProgress, DropUnknownUpdate
<1>5. ASSUME NEW id \in ContactIds, PeerAppend(id) PROVE ReceivedAtMostOnce'
  BY <1>5, RecvQuiet DEF PeerAppend
<1>6. CASE ReadInbox \/ Tick
  BY <1>6, RecvQuiet DEF ReadInbox, Tick
<1>7. ASSUME NEW t \in Tids, GarbageCollectSendMap(t) PROVE ReceivedAtMostOnce'
  BY <1>7, RecvQuiet DEF GarbageCollectSendMap
<1>8. ASSUME NEW t \in Tids, HandleSent(t) PROVE ReceivedAtMostOnce'
  BY <1>8, HandleSentRecv
<1>9. ASSUME NEW t \in Tids, HandleReply(t) PROVE ReceivedAtMostOnce'
  BY <1>9, HandleReplyRecv
<1>10. ASSUME NEW t \in Tids, HandleReadResponse(t) PROVE ReceivedAtMostOnce'
  BY <1>10, HandleReadResponseRecv
<1>11. ASSUME NEW t \in Tids, HandleReadResponsePanics(t) PROVE ReceivedAtMostOnce'
  BY <1>11, DieRecv DEF HandleReadResponsePanics
<1>12. CASE GarbageCollectConversations \/ Restart
  BY <1>12, CollectRecv
<1>13. CASE Kill
  BY <1>13, DieRecv DEF Kill
<1>14. CASE UNCHANGED vars
  BY <1>14, RecvQuiet DEF vars
<1>16. CASE RestartPanics
  BY <1>16, RecvQuiet DEF RestartPanics
<1>15. QED BY <1>1, <1>2, <1>3, <1>4, <1>5, <1>6, <1>7, <1>8, <1>9, <1>10, <1>11,
              <1>12, <1>13, <1>14, <1>16 DEF Next

(* No spool slot is ever stored twice, in memory or in the state file,    *)
(* and every stored slot is at or below its ReadOffset: handleReply drops *)
(* duplicate read responses, stores only the tip, and a restart reloads   *)
(* conversations and ReadOffset from the same save().                     *)
THEOREM ReceivedAlwaysAtMostOnce == Spec => []ReceivedAtMostOnce
<1>1. Init => ReceivedAtMostOnce
  BY DEF Init, ReceivedAtMostOnce, ReceivedAtMostOnceIn
<1>2. Spec => [](IInv /\ ReceivedAtMostOnce)
  BY <1>1, InitInv, NextInv, NextRecv, PTL DEF Spec
<1>3. QED BY <1>2, PTL

-----------------------------------------------------------------------------
(* OffsetMonotone: the saved ReadOffset never decreases and the one in    *)
(* memory moves only by a crash or by one decrypted tip.  It rests on      *)
(* ReadsNeverAhead: save() writes the offset in memory, which is never    *)
(* behind the saved one.                                                   *)

(* A handler that leaves ReadOffset alone and keeps the file or saves.    *)
LEMMA OffsetQuiet ==
    ASSUME IInv, ReadsNeverAhead, UNCHANGED readOffset,
           persisted' = persisted \/ SaveState
    PROVE  OffsetStep
<1>1. persisted.readOffset \in Nat /\ readOffset \in Nat
  BY DEF IInv, TypeOK
<1>2. persisted'.readOffset >= persisted.readOffset
  BY <1>1 DEF SaveState, ReadsNeverAhead
<1>3. QED BY <1>2 DEF OffsetStep

(* A dying process keeps the file and restarts from its offset.           *)
LEMMA OffsetDie ==
    ASSUME IInv, NEW reason \in Down, Die(reason)
    PROVE  OffsetStep
<1>1. persisted.readOffset \in Nat
  BY DEF IInv, TypeOK
<1>2. QED BY <1>1 DEF Die, OffsetStep

(* handleReply on a read: a duplicate changes nothing; the tip moves the *)
(* offset by one after decryptMessage succeeded on it.                     *)
LEMMA OffsetReadResponse ==
    ASSUME IInv, ReadsNeverAhead, NEW t \in Tids, HandleReadResponse(t)
    PROVE  OffsetStep
<1> DEFINE k == sendMap[t].off
<1>1. UNCHANGED persisted /\ persisted.readOffset \in Nat
  BY DEF HandleReadResponse, IInv, TypeOK
<1>2. CASE UNCHANGED readOffset
  BY <1>1, <1>2, OffsetQuiet
<1>3. CASE k = readOffset /\ Decryptable(k + 1) /\ readOffset' = readOffset + 1
  BY <1>1, <1>3 DEF OffsetStep
<1>4. QED BY <1>2, <1>3 DEF HandleReadResponse

(* Every step of the client is an OffsetStep or leaves vars alone.         *)
LEMMA NextOffset ==
    IInv /\ ReadsNeverAhead /\ [Next]_vars => [OffsetStep]_vars
<1> SUFFICES ASSUME IInv, ReadsNeverAhead, [Next]_vars PROVE [OffsetStep]_vars
  OBVIOUS
<1>1. ASSUME NEW n \in Nicknames, NewContact(n) \/ RemoveContact(n) PROVE OffsetStep
  BY <1>1, OffsetQuiet DEF NewContact, RemoveContact
<1>2. ASSUME NEW n \in Nicknames, SendMessage(n) PROVE OffsetStep
  BY <1>2, SendMessagePersists, OffsetQuiet DEF SendMessage
<1>3. ASSUME NEW n \in Nicknames, SendMessagePanics(n) PROVE OffsetStep
  BY <1>3, OffsetDie DEF SendMessagePanics, Down
<1>4. ASSUME NEW id \in ContactIds,
             \/ PandaTimeout(id) \/ PandaFailure(id) \/ PandaResult(id)
             \/ \E blob \in 1..MaxKxBlob : PandaProgress(id, blob)
      PROVE  OffsetStep
  BY <1>4, OffsetQuiet
     DEF PandaTimeout, PandaFailure, PandaResult, PandaProgress, DropUnknownUpdate
<1>5. ASSUME NEW id \in ContactIds, PeerAppend(id) PROVE OffsetStep
  BY <1>5, OffsetQuiet DEF PeerAppend
<1>6. CASE ReadInbox \/ Tick \/ GarbageCollectConversations \/ Restart
  BY <1>6, OffsetQuiet DEF ReadInbox, Tick, GarbageCollectConversations, Restart
<1>7. ASSUME NEW t \in Tids, GarbageCollectSendMap(t) \/ HandleSent(t) PROVE OffsetStep
  BY <1>7, OffsetQuiet DEF GarbageCollectSendMap, HandleSent
<1>8. ASSUME NEW t \in Tids, HandleReply(t) PROVE OffsetStep
  <2>1. PICK statusOK \in BOOLEAN :
          LET d == sendMap[t] IN
          IF statusOK /\ d # NoDesc /\ Present(d) /\ ~Chargeable(d) THEN Die("panicBug")
          ELSE UNCHANGED <<readOffset, persisted>>
    BY <1>8 DEF HandleReply
  <2>2. QED BY <2>1, OffsetDie, OffsetQuiet DEF Down
<1>9. ASSUME NEW t \in Tids, HandleReadResponse(t) PROVE OffsetStep
  BY <1>9, OffsetReadResponse
<1>10. ASSUME NEW t \in Tids, HandleReadResponsePanics(t) PROVE OffsetStep
  BY <1>10, OffsetDie DEF HandleReadResponsePanics, Down
<1>11. CASE Kill
  BY <1>11, OffsetDie DEF Kill, Down
<1>12. CASE UNCHANGED vars
  BY <1>12 DEF vars
<1>14. CASE RestartPanics
  BY <1>14, OffsetQuiet DEF RestartPanics
<1>13. QED BY <1>1, <1>2, <1>3, <1>4, <1>5, <1>6, <1>7, <1>8, <1>9, <1>10, <1>11,
              <1>12, <1>14 DEF Next

(* The state file's ReadOffset never decreases, and the ReadOffset in     *)
(* memory only falls back to it in a crash or advances by one decrypted   *)
(* tip (spec I5, O4, P2), for every value of the constants.               *)
THEOREM OffsetAlwaysMonotone == Spec => OffsetMonotone
<1>1. Init => ReadsNeverAhead
  BY DEF Init, ReadsNeverAhead
<1>2. Spec => [](IInv /\ ReadsNeverAhead)
  BY <1>1, InitInv, NextInv, NextReads, PTL DEF Spec
<1>3. QED BY <1>2, NextOffset, PTL DEF Spec, OffsetMonotone

=============================================================================
