---------------------------- MODULE WindowProofs ----------------------------
(***************************************************************************)
(* UnackedWithinWindow (spec I4) for every value of the constants.         *)
(*                                                                         *)
(* doSendMessage increments UnACKed even when the window is full: it only  *)
(* calls doRetransmit first.  The bound holds because a full window makes  *)
(* doRetransmit panic: its candidates are the messages with Sent set, and  *)
(* a running client has none.  handleSent, the only handler that sets     *)
(* Sent, hangs the worker before save(), so the state file never holds    *)
(* Sent either, and a restart brings none back.  WInv states this.        *)
(***************************************************************************)
EXTENDS ClientProofs, FiniteSetTheorems, TLAPS

(* No message of the conversations convs has Sent set.                    *)
SentFree(convs) ==
    \A n \in Nicknames, m \in MIDs : convs[n][m] # NoMsg => ~convs[n][m].sent

(* Every contact of cs is within the ratchet's window.                    *)
WithinWindow(cs) ==
    \A id \in ContactIds : cs[id] # NoContact => cs[id].unacked <= MaxMissingMessages - 1

WInv ==
    /\ loop # "blocked" => SentFree(conversations)
    /\ SentFree(persisted.conversations)
    /\ WithinWindow(contacts)
    /\ WithinWindow(persisted.contacts)

(* A step whose new conversations have no Sent unless the worker hangs,  *)
(* whose contacts are within the window, and that saves only when it     *)
(* does not hang, keeps WInv.                                             *)
LEMMA WInvStep ==
    ASSUME loop' # "blocked" => SentFree(conversations'),
           WithinWindow(contacts'),
           SentFree(persisted.conversations), WithinWindow(persisted.contacts),
           \/ persisted' = persisted
           \/ SaveState /\ loop' # "blocked"
    PROVE  WInv'
<1>1. CASE persisted' = persisted
  BY <1>1 DEF WInv
<1>2. CASE SaveState /\ loop' # "blocked"
  BY <1>2 DEF WInv, SaveState
<1>3. QED BY <1>1, <1>2

(* Writing a message without Sent into one conversation keeps SentFree.   *)
LEMMA SentFreeSet ==
    ASSUME NEW c \in ConvsType, SentFree(c), NEW n \in Nicknames, NEW m \in MIDs,
           NEW msg, msg = NoMsg \/ ~msg.sent
    PROVE  SentFree([c EXCEPT ![n][m] = msg])
BY DEF SentFree, ConvsType

(* Replacing one conversation by one without Sent keeps SentFree.         *)
LEMMA SentFreeRow ==
    ASSUME NEW c \in ConvsType, SentFree(c), NEW n \in Nicknames,
           NEW row, \A m \in MIDs : row[m] # NoMsg => ~row[m].sent
    PROVE  SentFree([c EXCEPT ![n] = row])
BY DEF SentFree, ConvsType

(* garbageCollectConversations sets no Sent.                              *)
LEMMA SentFreeCollect ==
    ASSUME NEW c \in ConvsType, SentFree(c)
    PROVE  SentFree(CollectGarbage(c))
<1> SUFFICES ASSUME NEW n \in Nicknames, NEW m \in MIDs,
                    CollectGarbage(c)[n][m] # NoMsg
             PROVE  ~CollectGarbage(c)[n][m].sent
  BY DEF SentFree
<1>1. c[n][m] # NoMsg /\ ~c[n][m].sent /\ c[n][m] \in MsgRec
  BY DEF CollectGarbage, SentFree, ConvsType
<1>2. [c[n][m] EXCEPT !.hasCipher = FALSE].sent = c[n][m].sent
  BY <1>1 DEF MsgRec
<1>3. QED BY <1>1, <1>2 DEF CollectGarbage

(* Setting one contact to r keeps the window when r is absent or within.  *)
LEMMA WithinWindowSet ==
    ASSUME NEW cs \in ContactsType, WithinWindow(cs), NEW id \in ContactIds,
           NEW r, r = NoContact \/ r.unacked <= MaxMissingMessages - 1
    PROVE  WithinWindow([cs EXCEPT ![id] = r])
BY DEF WithinWindow, ContactsType

(* New rebuilds contacts from the state file with the saved UnACKed.      *)
LEMMA WithinWindowLoaded ==
    ASSUME IInv, WithinWindow(persisted.contacts)
    PROVE  WithinWindow(LoadedContacts)
<1> SUFFICES ASSUME NEW id \in ContactIds, LoadedContacts[id] # NoContact
             PROVE  LoadedContacts[id].unacked <= MaxMissingMessages - 1
  BY DEF WithinWindow
<1> DEFINE s == persisted.contacts[id]
<1>1. s # NoContact /\ s \in ContactRec
  BY DEF LoadedContacts, IInv, TypeOK
<1>2. LoadedContacts[id] = [s EXCEPT !.hasCancel = s.isPending]
  BY <1>1 DEF LoadedContacts
<1>3. LoadedContacts[id].unacked = s.unacked
  BY <1>1, <1>2 DEF ContactRec
<1>4. QED BY <1>1, <1>3 DEF WithinWindow

(* A process that dies restarts from the state file: WInv holds after.    *)
LEMMA DieWInv ==
    ASSUME IInv, WInv, NEW reason \in Down, Die(reason)
    PROVE  WInv'
<1>1. WithinWindow(contacts')
  BY WithinWindowLoaded DEF Die, WInv
<1>2. SentFree(conversations')
  BY DEF Die, WInv
<1>3. QED BY <1>1, <1>2, WInvStep DEF Die, WInv

(* The contact handlers and the PANDA updates leave the conversations and *)
(* either add a contact with UnACKed 0, delete one, or change flags.      *)
LEMMA ContactStepWInv ==
    ASSUME IInv, WInv, NEW n, NEW id,
           \/ n \in Nicknames /\ (NewContact(n) \/ RemoveContact(n))
           \/ /\ id \in ContactIds
              /\ \/ PandaTimeout(id) \/ PandaFailure(id) \/ PandaResult(id)
                 \/ \E blob \in 1..MaxKxBlob : PandaProgress(id, blob)
    PROVE  WInv'
<1> USE DEF IInv, TypeOK
<1>1. contacts \in ContactsType /\ WithinWindow(contacts) /\ loop = "running"
  BY DEF WInv, ContactsType, NewContact, RemoveContact, PandaTimeout, PandaFailure,
         PandaResult, PandaProgress
<1>2. /\ UNCHANGED <<loop, conversations>>
      /\ persisted' = persisted \/ SaveState
  BY DEF NewContact, RemoveContact, PandaTimeout, PandaFailure, PandaResult,
         PandaProgress, DropUnknownUpdate
<1>3. WithinWindow(contacts')
  <2>1. CASE n \in Nicknames /\ NewContact(n)
    <3>1. PICK i \in ContactIds, blob \in {0, 1} :
            contacts' = [contacts EXCEPT ![i] = PendingContact(n, blob)]
      BY <2>1 DEF NewContact
    <3>2. PendingContact(n, blob).unacked <= MaxMissingMessages - 1
      BY ConstantsAssumption DEF PendingContact
    <3>3. QED BY <1>1, <3>1, <3>2, WithinWindowSet
  <2>2. CASE n \in Nicknames /\ RemoveContact(n)
    BY <1>1, <2>2, WithinWindowSet DEF RemoveContact
  <2>3. CASE id \in ContactIds /\ (PandaTimeout(id) \/ PandaFailure(id))
    <3>1. CASE contacts[id] = NoContact
      <4>1. contacts' = contacts
        BY <2>3, <3>1 DEF PandaTimeout, PandaFailure, DropUnknownUpdate
      <4>2. QED BY <1>1, <4>1
    <3>2. CASE contacts[id] # NoContact
      <4>1. contacts[id] \in ContactRec /\ contacts[id].unacked <= MaxMissingMessages - 1
        BY <1>1, <2>3, <3>2 DEF WithinWindow, ContactsType
      <4>2. contacts' = [contacts EXCEPT ![id] = [contacts[id] EXCEPT !.kxFailed = TRUE,
                                                                     !.hasCancel = FALSE]]
        BY <2>3, <3>2 DEF PandaTimeout, PandaFailure
      <4>3. [contacts[id] EXCEPT !.kxFailed = TRUE, !.hasCancel = FALSE].unacked
              = contacts[id].unacked
        BY <4>1 DEF ContactRec
      <4>4. QED BY <1>1, <2>3, <4>1, <4>2, <4>3, WithinWindowSet
    <3>3. QED BY <3>1, <3>2
  <2>4. CASE id \in ContactIds /\ PandaResult(id)
    <3>1. CASE contacts' = contacts
      BY <1>1, <3>1
    <3>2. CASE contacts[id] # NoContact /\
               \E o \in {"ok", "parseError", "ratchetError"} :
                  contacts' = [contacts EXCEPT ![id] = KeyExchangeDone(contacts[id], o)]
      BY <1>1, <2>4, <3>2, WithinWindowSet DEF KeyExchangeDone, WithinWindow
    <3>3. QED BY <2>4, <3>1, <3>2 DEF PandaResult, DropUnknownUpdate
  <2>5. CASE id \in ContactIds /\ \E blob \in 1..MaxKxBlob : PandaProgress(id, blob)
    <3>1. PICK blob \in 1..MaxKxBlob : PandaProgress(id, blob)
      BY <2>5
    <3>2. contacts[id] \in ContactRec
      BY <2>5, <3>1 DEF PandaProgress
    <3>3. contacts' = [contacts EXCEPT ![id] = [contacts[id] EXCEPT !.kxBlob = blob]]
      BY <2>5, <3>1 DEF PandaProgress
    <3>4. [contacts[id] EXCEPT !.kxBlob = blob].unacked = contacts[id].unacked
      BY <2>5, <3>2 DEF ContactRec
    <3>5. contacts[id].unacked <= MaxMissingMessages - 1
      BY <1>1, <2>5, <3>1, <3>2 DEF PandaProgress, WithinWindow
    <3>6. QED BY <1>1, <2>5, <3>2, <3>3, <3>4, <3>5, WithinWindowSet
  <2>6. QED BY <2>1, <2>2, <2>3, <2>4, <2>5
<1>4. QED BY <1>1, <1>2, <1>3, WInvStep DEF WInv

(* The conversation of n with a new outbound message has no Sent when    *)
(* the conversations have none; so doRetransmit has no candidate.         *)
LEMMA OutboundSentFree ==
    ASSUME IInv, SentFree(conversations), NEW n \in Nicknames, NEW mid \in MIDs
    PROVE  /\ \A m \in MIDs : WithOutbound(n, mid)[m] # NoMsg => ~WithOutbound(n, mid)[m].sent
           /\ \A m \in MIDs : [WithOutbound(n, mid) EXCEPT ![mid].hasCipher = TRUE][m] # NoMsg
                                => ~[WithOutbound(n, mid) EXCEPT ![mid].hasCipher = TRUE][m].sent
           /\ RetransmitCandidates(WithOutbound(n, mid)) = {}
<1>1. NewOutbound \in MsgRec /\ ~NewOutbound.sent
  BY MessageType DEF NewOutbound, IInv, TypeOK
<1>2. WithOutbound(n, mid) = [conversations[n] EXCEPT ![mid] = NewOutbound]
  BY DEF WithOutbound
<1>3. conversations[n] \in [MIDs -> MsgRec \cup {NoMsg}]
  BY DEF IInv, TypeOK
<1>4. \A m \in MIDs : WithOutbound(n, mid)[m] # NoMsg => ~WithOutbound(n, mid)[m].sent
  BY <1>1, <1>2, <1>3 DEF SentFree
<1>5. [NewOutbound EXCEPT !.hasCipher = TRUE].sent = FALSE
  BY DEF NewOutbound
<1>6. \A m \in MIDs : [WithOutbound(n, mid) EXCEPT ![mid].hasCipher = TRUE][m] # NoMsg
                        => ~[WithOutbound(n, mid) EXCEPT ![mid].hasCipher = TRUE][m].sent
  BY <1>2, <1>3, <1>4, <1>5
<1>7. RetransmitCandidates(WithOutbound(n, mid)) = {}
  BY <1>4 DEF RetransmitCandidates
<1>8. QED BY <1>4, <1>6, <1>7

(* doSendMessage: a full window panics in doRetransmit, so the increment *)
(* of UnACKed happens below the window only.                              *)
LEMMA SendMessageWInv ==
    ASSUME IInv, WInv, NEW n \in Nicknames, SendMessage(n)
    PROVE  WInv'
<1>1. PICK mid \in MIDs \ usedMids :
        LET conv == WithOutbound(n, mid)
            id   == contactNicknames[n]
        IN
        IF id = NoContact \/ contacts[id].isPending
        THEN /\ conversations' = [conversations EXCEPT ![n] = conv]
             /\ UNCHANGED <<contacts, persisted>>
        ELSE /\ ~RetransmitPanics(id, conv)
             /\ \E batch \in (IF Saturated(id) THEN RetransmitBatches(conv) ELSE {<< >>}),
                   submitted \in BOOLEAN :
                  /\ conversations' = [conversations EXCEPT ![n] =
                                          [conv EXCEPT ![mid].hasCipher = TRUE]]
                  /\ IF submitted
                     THEN /\ contacts' = [contacts EXCEPT ![id].unacked = @ + 1]
                          /\ SaveState
                     ELSE UNCHANGED <<contacts, persisted>>
  BY DEF SendMessage
<1> DEFINE conv == WithOutbound(n, mid)
           id   == contactNicknames[n]
<1>2. loop = "running" /\ loop' = "running"
  BY DEF SendMessage
<1>3. SentFree(conversations) /\ WithinWindow(contacts)
  BY <1>2 DEF WInv
<1>4. conversations \in ConvsType /\ contacts \in ContactsType
  BY DEF IInv, TypeOK, ConvsType, ContactsType
<1>5. CASE id = NoContact \/ contacts[id].isPending
  <2>1. SentFree(conversations')
    BY <1>1, <1>3, <1>4, <1>5, OutboundSentFree, SentFreeRow
  <2>2. QED BY <1>1, <1>2, <1>3, <1>5, <2>1, WInvStep DEF WInv
<1>6. CASE ~(id = NoContact \/ contacts[id].isPending)
  <2>0. PICK submitted \in BOOLEAN :
          /\ conversations' = [conversations EXCEPT ![n] =
                                  [conv EXCEPT ![mid].hasCipher = TRUE]]
          /\ IF submitted
             THEN /\ contacts' = [contacts EXCEPT ![id].unacked = @ + 1]
                  /\ SaveState
             ELSE UNCHANGED <<contacts, persisted>>
    BY <1>1, <1>6
  <2>1. SentFree(conversations')
    BY <1>3, <1>4, <2>0, OutboundSentFree, SentFreeRow
  <2>2. ~Saturated(id)
    <3>1. Cardinality(RetransmitCandidates(conv)) = 0
      BY <1>3, OutboundSentFree, FS_EmptySet
    <3>2. ~RetransmitPanics(id, conv)
      BY <1>1, <1>6
    <3>3. QED BY <3>1, <3>2, ConstantsAssumption DEF RetransmitPanics
  <2>3. id \in ContactIds /\ contacts[id] # NoContact /\ contacts[id] \in ContactRec
    BY <1>6 DEF IInv, TypeOK, ContactIndexConsistent
  <2>4. contacts[id].unacked <= MaxMissingMessages - 1
    BY <1>3, <2>3 DEF WithinWindow
  <2>5. contacts[id].unacked + 1 <= MaxMissingMessages - 1
    BY <2>2, <2>3, <2>4, ConstantsAssumption DEF Saturated, ContactRec
  <2>7. CASE submitted
    <3>1. contacts' = [contacts EXCEPT ![id] = [contacts[id] EXCEPT !.unacked = @ + 1]]
      BY <2>0, <2>7
    <3>2. [contacts[id] EXCEPT !.unacked = @ + 1].unacked = contacts[id].unacked + 1
      BY <2>3 DEF ContactRec
    <3>3. WithinWindow(contacts')
      BY <1>3, <1>4, <2>3, <2>5, <3>1, <3>2, WithinWindowSet
    <3>4. QED BY <1>2, <1>3, <2>0, <2>1, <2>7, <3>3, WInvStep DEF WInv
  <2>8. CASE ~submitted
    BY <1>2, <1>3, <2>0, <2>1, <2>8, WInvStep DEF WInv
  <2>9. QED BY <2>7, <2>8
<1>7. QED BY <1>5, <1>6

(* handleReply: a panic restarts from the state file; an acknowledgement  *)
(* lowers UnACKed (and hangs the worker in save()); else nothing.         *)
LEMMA HandleReplyWInv ==
    ASSUME IInv, WInv, NEW t \in Tids, HandleReply(t)
    PROVE  WInv'
<1> DEFINE d  == sendMap[t]
           id == contactNicknames[d.nick]
<1>1. PICK statusOK \in BOOLEAN :
        /\ statusOK => d = NoDesc \/ WriteAcked(t)
        /\ IF statusOK /\ d # NoDesc /\ Present(d) /\ ~Chargeable(d) THEN Die("panicBug")
           ELSE /\ IF ~statusOK \/ d = NoDesc \/ ~Present(d)
                   THEN UNCHANGED <<loop, contacts, conversations>>
                   ELSE /\ contacts' = [contacts EXCEPT ![id].unacked = @ - 1]
                        /\ loop' = "blocked"
                /\ UNCHANGED persisted
  BY DEF HandleReply
<1>2. loop = "running" /\ SentFree(conversations) /\ WithinWindow(contacts)
  BY DEF HandleReply, WInv
<1>3. CASE statusOK /\ d # NoDesc /\ Present(d) /\ ~Chargeable(d)
  BY <1>1, <1>3, DieWInv DEF Down
<1>4. CASE ~(statusOK /\ d # NoDesc /\ Present(d) /\ ~Chargeable(d))
  <2>1. CASE ~statusOK \/ d = NoDesc \/ ~Present(d)
    BY <1>1, <1>2, <1>4, <2>1, WInvStep DEF WInv
  <2>2. CASE ~(~statusOK \/ d = NoDesc \/ ~Present(d))
    <3>0. contacts' = [contacts EXCEPT ![id].unacked = @ - 1] /\ loop' = "blocked"
          /\ UNCHANGED persisted
      BY <1>1, <1>4, <2>2
    <3>1. d.nick \in Nicknames
      BY <1>1, <1>4, <2>2 DEF WriteAcked, IInv, TypeOK, Desc
    <3>2. id \in ContactIds /\ contacts[id] \in ContactRec
      BY <1>4, <2>2, <3>1 DEF Chargeable, IInv, TypeOK, ContactIndexConsistent
    <3>3. contacts' = [contacts EXCEPT ![id] = [contacts[id] EXCEPT !.unacked = @ - 1]]
      BY <3>0, <3>2
    <3>4. [contacts[id] EXCEPT !.unacked = @ - 1].unacked = contacts[id].unacked - 1
      BY <3>2 DEF ContactRec
    <3>5. contacts[id].unacked <= MaxMissingMessages - 1
      BY <1>2, <3>2, SentinelsAssumption DEF WithinWindow
    <3>6. contacts[id].unacked - 1 <= MaxMissingMessages - 1
      BY <3>2, <3>5, ConstantsAssumption DEF ContactRec
    <3>7. WithinWindow(contacts')
      BY <1>2, <3>2, <3>3, <3>4, <3>6, WithinWindowSet DEF IInv, TypeOK, ContactsType
    <3>8. QED BY <1>2, <3>0, <3>7, WInvStep DEF WInv
  <2>3. QED BY <2>1, <2>2
<1>5. QED BY <1>3, <1>4

(* handleReply on a read: the tip is stored as a received message.        *)
LEMMA HandleReadResponseWInv ==
    ASSUME IInv, WInv, NEW t \in Tids, HandleReadResponse(t)
    PROVE  WInv'
<1>1. loop = "running" /\ SentFree(conversations) /\ WithinWindow(contacts)
  BY DEF HandleReadResponse, WInv
<1>2. UNCHANGED <<loop, contacts, persisted>>
  BY DEF HandleReadResponse
<1>3. SentFree(conversations')
  <2> DEFINE k == sendMap[t].off
  <2>1. CASE UNCHANGED conversations
    BY <1>1, <2>1
  <2>2. CASE \E mid \in MIDs :
               conversations' = [conversations EXCEPT
                                   ![contacts[inbox[k + 1]].nickname][mid] = Received(k + 1)]
    <3>1. PICK mid \in MIDs :
            conversations' = [conversations EXCEPT
                                ![contacts[inbox[k + 1]].nickname][mid] = Received(k + 1)]
      BY <2>2
    <3>2. ~Received(k + 1).sent
      BY DEF Received
    <3>3. conversations \in ConvsType
      BY DEF IInv, TypeOK, ConvsType
    <3>4. CASE contacts[inbox[k + 1]].nickname \in Nicknames
      BY <1>1, <3>1, <3>2, <3>3, <3>4, SentFreeSet
    <3>5. CASE contacts[inbox[k + 1]].nickname \notin Nicknames
      <4>1. conversations' = conversations
        BY <3>1, <3>3, <3>5 DEF ConvsType
      <4>2. QED BY <1>1, <4>1
    <3>6. QED BY <3>4, <3>5
  <2>3. QED BY <2>1, <2>2 DEF HandleReadResponse
<1>4. QED BY <1>1, <1>2, <1>3, WInvStep DEF WInv

(* Actions that touch neither the contacts, the conversations, the state  *)
(* file nor the loop.                                                     *)
LEMMA QuietWInv ==
    ASSUME WInv, UNCHANGED <<loop, contacts, conversations, persisted>>
    PROVE  WInv'
BY DEF WInv

(* Conversation garbage collection and a restart set no Sent.             *)
LEMMA CollectWInv ==
    ASSUME IInv, WInv, GarbageCollectConversations \/ Restart
    PROVE  WInv'
<1>1. loop # "blocked" /\ conversations \in ConvsType
  BY DEF GarbageCollectConversations, Restart, Down, IInv, TypeOK, ConvsType
<1>2. SentFree(conversations')
  BY <1>1, SentFreeCollect DEF GarbageCollectConversations, Restart, WInv
<1>3. QED BY <1>2, WInvStep DEF GarbageCollectConversations, Restart, WInv

(* Every step keeps WInv, given IInv.                                     *)
LEMMA NextWInv == IInv /\ WInv /\ [Next]_vars => WInv'
<1> SUFFICES ASSUME IInv, WInv, [Next]_vars PROVE WInv'
  OBVIOUS
<1>1. ASSUME NEW n \in Nicknames, NewContact(n) \/ RemoveContact(n) PROVE WInv'
  BY <1>1, ContactStepWInv
<1>14. ASSUME NEW id \in ContactIds,
              \/ PandaTimeout(id) \/ PandaFailure(id) \/ PandaResult(id)
              \/ \E blob \in 1..MaxKxBlob : PandaProgress(id, blob)
       PROVE  WInv'
  BY <1>14, ContactStepWInv
<1>2. ASSUME NEW n \in Nicknames, SendMessage(n) PROVE WInv'
  BY <1>2, SendMessageWInv
<1>3. ASSUME NEW n \in Nicknames, SendMessagePanics(n) PROVE WInv'
  BY <1>3, DieWInv DEF SendMessagePanics, Down
<1>4. ASSUME NEW id \in ContactIds, PeerAppend(id) PROVE WInv'
  BY <1>4, QuietWInv DEF PeerAppend
<1>5. CASE ReadInbox \/ Tick \/ \E t \in Tids : GarbageCollectSendMap(t)
  BY <1>5, QuietWInv DEF ReadInbox, Tick, GarbageCollectSendMap
<1>6. ASSUME NEW t \in Tids, HandleSent(t) PROVE WInv'
  <2>1. loop = "running" /\ UNCHANGED <<contacts, persisted>>
        /\ (UNCHANGED <<loop, conversations>> \/ loop' = "blocked")
    BY <1>6 DEF HandleSent
  <2>2. QED BY <2>1, WInvStep DEF WInv
<1>7. ASSUME NEW t \in Tids, HandleReply(t) PROVE WInv'
  BY <1>7, HandleReplyWInv
<1>8. ASSUME NEW t \in Tids, HandleReadResponse(t) PROVE WInv'
  BY <1>8, HandleReadResponseWInv
<1>9. ASSUME NEW t \in Tids, HandleReadResponsePanics(t) PROVE WInv'
  BY <1>9, DieWInv DEF HandleReadResponsePanics, Down
<1>10. CASE GarbageCollectConversations \/ Restart
  BY <1>10, CollectWInv
<1>11. CASE Kill
  BY <1>11, DieWInv DEF Kill, Down
<1>12. CASE UNCHANGED vars
  BY <1>12, QuietWInv DEF vars
<1>15. CASE RestartPanics
  BY <1>15 DEF RestartPanics, WInv, Down
<1>13. QED BY <1>1, <1>2, <1>3, <1>4, <1>5, <1>6, <1>7, <1>8, <1>9, <1>10, <1>11,
              <1>12, <1>14, <1>15 DEF Next

(* doSendMessage never takes a contact past the ratchet's window          *)
(* (spec I4): UnACKed <= MaxMissingMessages - 1 in every reachable state, *)
(* because a send at the full window panics in doRetransmit first.        *)
THEOREM UnackedAlwaysWithinWindow == Spec => []UnackedWithinWindow
<1>1. Init => IInv /\ WInv
  BY InitInv, ConstantsAssumption DEF Init, WInv, SentFree, WithinWindow
<1>2. Spec => [](IInv /\ WInv)
  BY <1>1, NextInv, NextWInv, PTL DEF Spec
<1>3. QED BY <1>2, PTL DEF WInv, UnackedWithinWindow, WithinWindow

=============================================================================
