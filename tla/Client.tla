------------------------------- MODULE Client -------------------------------
(***************************************************************************)
(* The catshadow client of src/client.go.  One control loop (the worker    *)
(* goroutine) owns the contacts, the conversations, the send map and the   *)
(* read offset of our remote spool, and runs every handler of the file to  *)
(* completion, one at a time.  Around it:                                  *)
(*   - one PANDA key-exchange task per pending contact, whose updates the  *)
(*     loop receives over pandaChan;                                        *)
(*   - the mixnet session, to which the loop submits spool commands and    *)
(*     from which it receives sent, reply and garbage-collected events;    *)
(*   - the peers, who append ciphertexts to our remote spool;              *)
(*   - the state file written by save(), from which a process that has     *)
(*     died (killed, or after a panic) is restarted by New and Start.      *)
(* Data is abstracted: a contact is a record of the flags the handlers     *)
(* test, a ciphertext is the id of the contact whose peer wrote it, the    *)
(* plaintext of a received message is the spool slot it came from.        *)
(***************************************************************************)
EXTENDS Naturals, Sequences, FiniteSets

CONSTANTS
    Nicknames,          \* contact nicknames
    User,               \* c.user, our own nickname
    ContactIds,         \* the values randID can return
    MIDs,               \* conversation message ids (MessageID)
    NoContact,          \* absent map entry, nil *Contact
    NoMsg,              \* absent conversation entry
    NoDesc,             \* absent sendMap entry
    NoMid,              \* the MessageID field of a read-inbox descriptor
    MaxTid,             \* transport submissions per mixnet session
    MaxInbox,           \* ciphertexts the peers append to our spool
    MaxKxBlob,          \* serialised PANDA states 1..MaxKxBlob (0 is nil)
    MaxTime,            \* wall-clock ticks
    MessageExpiration,  \* MessageExpirationDuration, in ticks
    MaxMissingMessages, \* ratchet.MaxMissingMessages
    RetransmitLimit     \* someLimit of doRetransmit (4 in the code)

ASSUME ConstantsAssumption ==
    /\ User \notin Nicknames
    /\ NoContact \notin ContactIds
    /\ NoMid \notin MIDs
    /\ MaxTid \in Nat
    /\ MaxInbox \in Nat
    /\ MaxKxBlob \in Nat \ {0}
    /\ MaxTime \in Nat
    /\ MessageExpiration \in Nat
    /\ MaxMissingMessages \in Nat \ {0}
    /\ RetransmitLimit \in Nat \ {0}

Tids == 1..MaxTid

(* Contact (contact.go): the fields the handlers of client.go read.        *)
(*   kxBlob       pandaKeyExchange, 0 when nil                             *)
(*   hasCancel    pandaShutdownChan # nil                                  *)
(*   kxFailed     pandaResult # ""                                         *)
(*   hasSpool     spoolWriteDescriptor # nil                               *)
(*   ratchetKeyed ratchet.ProcessKeyExchange succeeded                     *)
ContactRec == [nickname: Nicknames, isPending: BOOLEAN, kxBlob: 0..MaxKxBlob,
               hasCancel: BOOLEAN, kxFailed: BOOLEAN, hasSpool: BOOLEAN,
               ratchetKeyed: BOOLEAN, unacked: Nat]

(* Message: hasCipher is Ciphertext # empty; plaintext is 0 for an         *)
(* outbound message and the spool slot (1-based) for a received one.      *)
MsgRec == [outbound: BOOLEAN, sent: BOOLEAN, delivered: BOOLEAN,
           hasCipher: BOOLEAN, ts: Nat, plaintext: Nat]

(* SentMessageDescriptor: a spool write to contact nick for message mid,  *)
(* or, with nick = User, a read of slot off of our own spool.             *)
Desc == [nick: Nicknames, mid: MIDs, off: {0}] \cup [nick: {User}, mid: {NoMid}, off: Nat]

(* The sentinels that stand for nil map entries are not entries.         *)
ASSUME SentinelsAssumption ==
    NoContact \notin ContactRec /\ NoMsg \notin MsgRec /\ NoDesc \notin Desc

(* States of the process: Up runs handlers; Blocked is the worker stuck    *)
(* on a mutex; the others are a dead process and why it died.             *)
Down == {"killed", "panicRetransmit", "panicNilSpool", "panicBug",
         "panicAhead", "panicDecrypt", "panicStart"}

VARIABLES
    loop,             \* "running", "blocked" or a member of Down
    contacts,         \* c.contacts: id -> Contact
    contactNicknames, \* c.contactNicknames: nickname -> id
    usedIds,          \* ids randID has returned (64-bit ids never repeat)
    conversations,    \* c.conversations: nickname -> MessageID -> Message
    usedMids,         \* MessageIDs drawn so far (random, never repeat)
    readOffset,       \* c.spoolReadDescriptor.ReadOffset
    sendMap,          \* c.sendMap: transport id -> SentMessageDescriptor
    transport,        \* session: "submitted", "sent" (awaits reply) or "none"
    nextTid,          \* next transport id of the session
    kxTask,           \* id -> "running" while a PANDA task runs for it
    inbox,            \* our remote spool: the writer of each slot
    persisted,        \* the last state the state file holds
    now               \* wall clock

vars == <<loop, contacts, contactNicknames, usedIds, conversations, usedMids,
          readOffset, sendMap, transport, nextTid, kxTask, inbox, persisted,
          now>>

-----------------------------------------------------------------------------
(* save(): marshal contacts, conversations and the read descriptor and    *)
(* write them, taken in the state the handler leaves.                     *)
SaveState ==
    persisted' = [contacts |-> contacts', conversations |-> conversations',
                  readOffset |-> readOffset']

NewOutbound == [outbound |-> TRUE, sent |-> FALSE, delivered |-> FALSE,
                hasCipher |-> FALSE, ts |-> now, plaintext |-> 0]

Received(slot) == [outbound |-> FALSE, sent |-> FALSE, delivered |-> FALSE,
                   hasCipher |-> FALSE, ts |-> now, plaintext |-> slot]

Expired(msg) == now > msg.ts + MessageExpiration

(* garbageCollectConversations: drop the ciphertext of delivered outbound *)
(* messages and delete expired ones.                                      *)
CollectGarbage(convs) ==
    [n \in Nicknames |-> [m \in MIDs |->
        LET msg == convs[n][m] IN
        IF msg = NoMsg \/ Expired(msg) THEN NoMsg
        ELSE IF msg.outbound /\ msg.delivered THEN [msg EXCEPT !.hasCipher = FALSE]
        ELSE msg]]

(* sendMap.Store of each request of reqs under the transport ids the      *)
(* session hands out next; the bound MaxTid disables the step beyond it.  *)
StoreAll(reqs) ==
    LET New(t) == t >= nextTid /\ t < nextTid + Len(reqs) IN
    /\ nextTid + Len(reqs) <= MaxTid + 1
    /\ sendMap' = [t \in Tids |-> IF New(t) THEN reqs[t - nextTid + 1] ELSE sendMap[t]]
    /\ transport' = [t \in Tids |-> IF New(t) THEN "submitted" ELSE transport[t]]
    /\ nextTid' = nextTid + Len(reqs)

(* New(state): the contact maps as rebuilt from the state file; a loaded *)
(* pending contact gets a fresh pandaShutdownChan.                        *)
LoadedContacts ==
    [id \in ContactIds |->
        IF persisted.contacts[id] = NoContact THEN NoContact
        ELSE [persisted.contacts[id] EXCEPT !.hasCancel = persisted.contacts[id].isPending]]

LoadedNicknames ==
    LET saved == persisted.contacts IN
    [n \in Nicknames |->
        IF \E id \in ContactIds : saved[id] # NoContact /\ saved[id].nickname = n
        THEN CHOOSE id \in ContactIds : saved[id] # NoContact /\ saved[id].nickname = n
        ELSE NoContact]

(* Mutant: the restarted process starts reading its spool from slot 0    *)
(* instead of the saved ReadOffset.                                       *)
DieFreshOffset(reason) ==
    /\ loop' = reason
    /\ contacts' = LoadedContacts
    /\ contactNicknames' = LoadedNicknames
    /\ conversations' = persisted.conversations
    /\ readOffset' = 0
    /\ sendMap' = [t \in Tids |-> NoDesc]
    /\ transport' = [t \in Tids |-> "none"]
    /\ nextTid' = 1
    /\ kxTask' = [id \in ContactIds |-> "none"]
    /\ UNCHANGED <<usedIds, usedMids, inbox, persisted, now>>

(* The process dies (reason says how): its memory, its PANDA tasks and    *)
(* its mixnet session are gone; what remains is the state file, which    *)
(* the variables of the client show from now on.                          *)
Die(reason) ==
    /\ loop' = reason
    /\ contacts' = LoadedContacts
    /\ contactNicknames' = LoadedNicknames
    /\ conversations' = persisted.conversations
    /\ readOffset' = persisted.readOffset
    /\ sendMap' = [t \in Tids |-> NoDesc]
    /\ transport' = [t \in Tids |-> "none"]
    /\ nextTid' = 1
    /\ kxTask' = [id \in ContactIds |-> "none"]
    /\ UNCHANGED <<usedIds, usedMids, inbox, persisted, now>>

Init ==
    /\ loop = "running"
    /\ contacts = [id \in ContactIds |-> NoContact]
    /\ contactNicknames = [n \in Nicknames |-> NoContact]
    /\ usedIds = {}
    /\ conversations = [n \in Nicknames |-> [m \in MIDs |-> NoMsg]]
    /\ usedMids = {}
    /\ readOffset = 0
    /\ sendMap = [t \in Tids |-> NoDesc]
    /\ transport = [t \in Tids |-> "none"]
    /\ nextTid = 1
    /\ kxTask = [id \in ContactIds |-> "none"]
    /\ inbox = << >>
    /\ persisted = [contacts |-> contacts, conversations |-> conversations,
                    readOffset |-> readOffset]
    /\ now = 0

-----------------------------------------------------------------------------
(* Contact operations.                                                    *)

(* The contact NewContact (contact.go) makes for nickname n, pending,    *)
(* with pandaKeyExchange blob (0: nil) and a pandaShutdownChan.           *)
PendingContact(n, blob) ==
    [nickname |-> n, isPending |-> TRUE, kxBlob |-> blob, hasCancel |-> TRUE,
     kxFailed |-> FALSE, hasSpool |-> FALSE, ratchetKeyed |-> FALSE, unacked |-> 0]

(* createContact: refuse a known nickname, draw a fresh non-zero id and   *)
(* insert the pending contact in both maps.  Then either the key exchange *)
(* starts (pandaKeyExchange set, task run, save), or panda.NewKeyExchange *)
(* fails and createContact returns the error: the contact stays in both   *)
(* maps with a nil pandaKeyExchange, no task and no save().  The nil      *)
(* panda config return is unreachable here: Start already panicked on it. *)
NewContact(n) ==
    /\ loop = "running"
    /\ contactNicknames[n] = NoContact
    /\ UNCHANGED <<loop, conversations, usedMids, readOffset, sendMap, transport,
                   nextTid, inbox, now>>
    /\ \E id \in ContactIds \ usedIds :
        /\ contactNicknames' = [contactNicknames EXCEPT ![n] = id]
        /\ usedIds' = usedIds \cup {id}
        /\ \/ /\ contacts' = [contacts EXCEPT ![id] = PendingContact(n, 1)]
              /\ kxTask' = [kxTask EXCEPT ![id] = "running"]
              /\ SaveState
           \/ /\ contacts' = [contacts EXCEPT ![id] = PendingContact(n, 0)]
              /\ UNCHANGED <<kxTask, persisted>>

(* Mutant: doContactRemoval deletes the contact but does not save().     *)
RemoveContactNoSave(n) ==
    /\ loop = "running"
    /\ contactNicknames[n] # NoContact
    /\ LET id == contactNicknames[n] IN
        /\ kxTask' = IF contacts[id].isPending /\ contacts[id].hasCancel
                     THEN [kxTask EXCEPT ![id] = "none"] ELSE kxTask
        /\ contacts' = [contacts EXCEPT ![id] = NoContact]
        /\ contactNicknames' = [contactNicknames EXCEPT ![n] = NoContact]
    /\ UNCHANGED <<loop, usedIds, conversations, usedMids, readOffset, sendMap,
                   transport, nextTid, inbox, now, persisted>>

(* Mutant: doContactRemoval deletes the contact from c.contacts only.    *)
RemoveContactKeepingNickname(n) ==
    /\ loop = "running"
    /\ contactNicknames[n] # NoContact
    /\ LET id == contactNicknames[n] IN
        /\ kxTask' = IF contacts[id].isPending /\ contacts[id].hasCancel
                     THEN [kxTask EXCEPT ![id] = "none"] ELSE kxTask
        /\ contacts' = [contacts EXCEPT ![id] = NoContact]
    /\ UNCHANGED <<loop, usedIds, contactNicknames, conversations, usedMids, readOffset,
                   sendMap, transport, nextTid, inbox, now>>
    /\ SaveState

(* doContactRemoval: close the cancel channel of a pending contact that   *)
(* still holds one (its task then exits), delete from both maps, save.    *)
RemoveContact(n) ==
    /\ loop = "running"
    /\ contactNicknames[n] # NoContact
    /\ LET id == contactNicknames[n] IN
        /\ kxTask' = IF contacts[id].isPending /\ contacts[id].hasCancel
                     THEN [kxTask EXCEPT ![id] = "none"] ELSE kxTask
        /\ contacts' = [contacts EXCEPT ![id] = NoContact]
        /\ contactNicknames' = [contactNicknames EXCEPT ![n] = NoContact]
    /\ UNCHANGED <<loop, usedIds, conversations, usedMids, readOffset, sendMap,
                   transport, nextTid, inbox, now>>
    /\ SaveState

(* processPANDAUpdate begins with contacts[update.ID]: an id that is not *)
(* (or no longer) a contact is logged and dropped.  Only an update after  *)
(* which its task has exited (an error other than the timeout, a result)  *)
(* changes the model's state; progress or a timeout from such a task is a *)
(* stutter.                                                               *)
DropUnknownUpdate(id) ==
    /\ kxTask' = [kxTask EXCEPT ![id] = "none"]
    /\ UNCHANGED <<loop, contacts, contactNicknames, usedIds, conversations, usedMids,
                   readOffset, sendMap, transport, nextTid, inbox, persisted, now>>

(* Err = ErrReplyTimeout: a new task is started from pandaKeyExchange with *)
(* the contact's cancel channel; then, as for any error, pandaResult is   *)
(* set and pandaShutdownChan is dropped; save.                            *)
PandaTimeout(id) ==
    /\ loop = "running"
    /\ kxTask[id] = "running"
    /\ contacts[id] # NoContact
    /\ contacts' = [contacts EXCEPT ![id].kxFailed = TRUE, ![id].hasCancel = FALSE]
    /\ UNCHANGED <<loop, contactNicknames, usedIds, conversations, usedMids, readOffset,
                   sendMap, transport, nextTid, kxTask, inbox, now>>
    /\ SaveState

(* Any other Err: the task has exited; pandaResult set, channel dropped.   *)
PandaFailure(id) ==
    /\ loop = "running"
    /\ kxTask[id] = "running"
    /\ IF contacts[id] = NoContact THEN DropUnknownUpdate(id)
       ELSE /\ kxTask' = [kxTask EXCEPT ![id] = "none"]
            /\ contacts' = [contacts EXCEPT ![id].kxFailed = TRUE, ![id].hasCancel = FALSE]
            /\ UNCHANGED <<loop, contactNicknames, usedIds, conversations, usedMids,
                           readOffset, sendMap, transport, nextTid, inbox, now>>
            /\ SaveState

(* Serialised: bytes equal to pandaKeyExchange are an echo (an event, no   *)
(* change, no save); other bytes become pandaKeyExchange, saved.         *)
PandaProgress(id, blob) ==
    /\ loop = "running"
    /\ kxTask[id] = "running"
    /\ contacts[id] # NoContact
    /\ contacts[id].kxBlob # blob
    /\ contacts' = [contacts EXCEPT ![id].kxBlob = blob]
    /\ UNCHANGED <<loop, contactNicknames, usedIds, conversations, usedMids, readOffset,
                   sendMap, transport, nextTid, kxTask, inbox, now>>
    /\ SaveState

(* The contact c after the Result branch with the given outcome.         *)
KeyExchangeDone(c, outcome) ==
    [nickname |-> c.nickname, isPending |-> FALSE, kxBlob |-> 0,
     hasCancel |-> c.hasCancel, kxFailed |-> (outcome # "ok"),
     hasSpool |-> (c.hasSpool \/ outcome = "ok"),
     ratchetKeyed |-> (c.ratchetKeyed \/ outcome = "ok"), unacked |-> c.unacked]

(* Result: the task has exited and pandaKeyExchange is cleared.  A parse  *)
(* or ratchet failure sets pandaResult and IsPending = false; success     *)
(* sets the spool write descriptor and IsPending = false.  Saved.         *)
PandaResult(id) ==
    /\ loop = "running"
    /\ kxTask[id] = "running"
    /\ IF contacts[id] = NoContact THEN DropUnknownUpdate(id)
       ELSE /\ kxTask' = [kxTask EXCEPT ![id] = "none"]
            /\ \E outcome \in {"ok", "parseError", "ratchetError"} :
                contacts' = [contacts EXCEPT ![id] = KeyExchangeDone(contacts[id], outcome)]
            /\ UNCHANGED <<loop, contactNicknames, usedIds, conversations, usedMids,
                           readOffset, sendMap, transport, nextTid, inbox, now>>
            /\ SaveState

-----------------------------------------------------------------------------
(* The send pipeline.                                                     *)

(* doRetransmit collects the outbound messages that are sent and not      *)
(* delivered ...                                                          *)
RetransmitCandidates(conv) ==
    {m \in MIDs : conv[m] # NoMsg /\ conv[m].outbound /\ conv[m].sent
                  /\ ~conv[m].delivered}

(* ... sorts them by Timestamp (sort.Sort: equal stamps in any order) and *)
(* resubmits rTx[:someLimit], the RetransmitLimit oldest, in that order.  *)
RetransmitBatches(conv) ==
    LET cands == RetransmitCandidates(conv) IN
    {s \in [1..RetransmitLimit -> cands] :
        /\ \A i, j \in 1..RetransmitLimit : i < j => s[i] # s[j] /\ conv[s[i]].ts <= conv[s[j]].ts
        /\ \A m \in cands : (\A i \in 1..RetransmitLimit : s[i] # m)
                              => conv[m].ts >= conv[s[RetransmitLimit]].ts}

(* Mutant: the window test compares UnACKed with MaxMissingMessages.      *)
SaturatedLate(id) == contacts[id].unacked = MaxMissingMessages

(* The in-flight window of the contact is full.                           *)
Saturated(id) == contacts[id].unacked = MaxMissingMessages - 1

(* rTx[:someLimit] with fewer than someLimit messages waiting: runtime    *)
(* panic (slice bounds, or a nil *msgWithID within capacity).             *)
RetransmitPanics(id, conv) ==
    Saturated(id) /\ Cardinality(RetransmitCandidates(conv)) < RetransmitLimit

(* The conversation of n with the new outbound message mid inserted.      *)
WithOutbound(n, mid) == [conversations[n] EXCEPT ![mid] = NewOutbound]

(* SendMessage / doSendMessage: draw a random MessageID and insert the    *)
(* outbound message.  The nickname is not a contact, or the contact is    *)
(* pending: return (no save).  Otherwise, at a full window doRetransmit   *)
(* resubmits the oldest waiting messages; encrypt; submit the append      *)
(* (SendUnreliableMessage may fail: return without counting it); count it *)
(* in UnACKed; save; store its descriptor.                                *)
SendMessage(n) ==
    /\ loop = "running"
    /\ UNCHANGED <<loop, contactNicknames, usedIds, readOffset, kxTask, inbox, now>>
    /\ \E mid \in MIDs \ usedMids :
        LET conv == WithOutbound(n, mid)
            id   == contactNicknames[n]
        IN
        /\ usedMids' = usedMids \cup {mid}
        /\ IF id = NoContact \/ contacts[id].isPending
           THEN /\ conversations' = [conversations EXCEPT ![n] = conv]
                /\ UNCHANGED <<contacts, sendMap, transport, nextTid, persisted>>
           ELSE /\ ~RetransmitPanics(id, conv)
                /\ contacts[id].hasSpool
                /\ \E batch \in (IF Saturated(id) THEN RetransmitBatches(conv) ELSE {<< >>}),
                      submitted \in BOOLEAN :
                    LET resend == [i \in 1..Len(batch) |->
                                     [nick |-> n, mid |-> batch[i], off |-> 0]]
                    IN
                    /\ conversations' = [conversations EXCEPT ![n] =
                                            [conv EXCEPT ![mid].hasCipher = TRUE]]
                    /\ IF submitted
                       THEN /\ StoreAll(Append(resend, [nick |-> n, mid |-> mid, off |-> 0]))
                            /\ contacts' = [contacts EXCEPT ![id].unacked = @ + 1]
                            /\ SaveState
                       ELSE /\ StoreAll(resend)
                            /\ UNCHANGED <<contacts, persisted>>

(* doSendMessage to an established contact panics: in doRetransmit, or   *)
(* on contact.spoolWriteDescriptor.ID when the descriptor is nil.         *)
SendMessagePanics(n) ==
    /\ loop = "running"
    /\ contactNicknames[n] # NoContact
    /\ ~contacts[contactNicknames[n]].isPending
    /\ \E mid \in MIDs \ usedMids :
        LET id == contactNicknames[n] IN
        IF RetransmitPanics(id, WithOutbound(n, mid)) THEN Die("panicRetransmit")
        ELSE /\ ~contacts[id].hasSpool
             /\ Die("panicNilSpool")

(* sendReadInbox: submit a read of slot ReadOffset of our spool and store *)
(* a descriptor naming User with the offset in its MessageID.  (A failed  *)
(* submission only logs.)                                                 *)
(* Mutants: sendReadInbox asks for the slot before, or after, ReadOffset. *)
ReadInboxBehind ==
    /\ loop = "running"
    /\ StoreAll(<< [nick |-> User, mid |-> NoMid, off |-> readOffset - 1] >>)
    /\ UNCHANGED <<loop, contacts, contactNicknames, usedIds, conversations, usedMids,
                   readOffset, kxTask, inbox, persisted, now>>

ReadInboxAhead ==
    /\ loop = "running"
    /\ StoreAll(<< [nick |-> User, mid |-> NoMid, off |-> readOffset + 1] >>)
    /\ UNCHANGED <<loop, contacts, contactNicknames, usedIds, conversations, usedMids,
                   readOffset, kxTask, inbox, persisted, now>>

ReadInbox ==
    /\ loop = "running"
    /\ StoreAll(<< [nick |-> User, mid |-> NoMid, off |-> readOffset] >>)
    /\ UNCHANGED <<loop, contacts, contactNicknames, usedIds, conversations, usedMids,
                   readOffset, kxTask, inbox, persisted, now>>

-----------------------------------------------------------------------------
(* Session events.                                                        *)

(* handleSent: a read ack is ignored; for a write whose message is still  *)
(* in the conversation, msg.Sent is set under conversationsMutex and      *)
(* save() is called with the mutex held: marshal() -> GetAllConversations *)
(* locks it again and the worker blocks for good.                         *)
HandleSent(t) ==
    /\ loop = "running"
    /\ transport[t] = "submitted"
    /\ transport' = [transport EXCEPT ![t] = "sent"]
    /\ LET d == sendMap[t] IN
       IF d # NoDesc /\ d.nick # User /\ conversations[d.nick][d.mid] # NoMsg
       THEN /\ conversations' = [conversations EXCEPT ![d.nick][d.mid].sent = TRUE]
            /\ loop' = "blocked"
       ELSE UNCHANGED <<loop, conversations>>
    /\ UNCHANGED <<contacts, contactNicknames, usedIds, usedMids, readOffset, sendMap,
                   nextTid, kxTask, inbox, persisted, now>>

(* The reply for transport id t is to a write descriptor.                 *)
WriteAcked(t) ==
    /\ sendMap[t] # NoDesc
    /\ sendMap[t].nick # User

(* The message of the descriptor d is in its conversation.               *)
Present(d) == conversations[d.nick][d.mid] # NoMsg

(* Its contact can be charged the acknowledgement.                        *)
Chargeable(d) ==
    /\ contactNicknames[d.nick] # NoContact
    /\ contacts[contactNicknames[d.nick]].unacked > 0

(* handleReply for transport id t.  No sendMap entry: nothing.  A spool  *)
(* status error: logged.  (The deferred sendMap.Delete is passed the      *)
(* pointer, not the key Store used, and deletes nothing, here and below.) *)
(* OK status, write descriptor: if the message is still in the            *)
(* conversation, panic("bug") when its contact is gone or has UnACKed 0;  *)
(* else UnACKed is decremented, the message marked delivered and its      *)
(* ciphertext dropped, and save() is called under conversationsMutex: the *)
(* worker blocks.  If it is not, MessageDelivered is emitted and nothing  *)
(* else happens: UnACKed keeps the append counted.  OK status on the read *)
(* descriptor is HandleReadResponse.                                      *)
HandleReply(t) ==
    /\ loop = "running"
    /\ transport[t] = "sent"
    /\ \E statusOK \in BOOLEAN :
        LET d  == sendMap[t]
            id == contactNicknames[d.nick]
        IN
        /\ statusOK => d = NoDesc \/ WriteAcked(t)
        /\ IF statusOK /\ d # NoDesc /\ Present(d) /\ ~Chargeable(d) THEN Die("panicBug")
           ELSE /\ transport' = [transport EXCEPT ![t] = "none"]
                /\ IF ~statusOK \/ d = NoDesc \/ ~Present(d)
                   THEN UNCHANGED <<loop, contacts, conversations>>
                   ELSE /\ contacts' = [contacts EXCEPT ![id].unacked = @ - 1]
                        /\ conversations' = [conversations EXCEPT ![d.nick][d.mid] =
                                               [@ EXCEPT !.delivered = TRUE,
                                                         !.hasCipher = FALSE]]
                        /\ loop' = "blocked"
                /\ UNCHANGED <<contactNicknames, usedIds, usedMids, readOffset, sendMap,
                               nextTid, kxTask, inbox, persisted, now>>

(* A reply with OK status to the read descriptor of transport id t: the    *)
(* spool answers for the slot requested, which must exist.                *)
ReadAnswered(t) ==
    /\ transport[t] = "sent"
    /\ sendMap[t] # NoDesc
    /\ sendMap[t].nick = User
    /\ sendMap[t].off < Len(inbox)

(* decryptMessage succeeds on the ciphertext of spool slot `slot` when    *)
(* its writer's contact is present, not pending and keyed.                *)
Decryptable(slot) ==
    LET id == inbox[slot] IN
    contacts[id] # NoContact /\ ~contacts[id].isPending /\ contacts[id].ratchetKeyed

(* Mutant: a read response at or below ReadOffset is taken for the tip    *)
(* (the duplicate case is missing).                                        *)
HandleReadResponseNoDupCheck(t) ==
    /\ loop = "running"
    /\ ReadAnswered(t)
    /\ transport' = [transport EXCEPT ![t] = "none"]
    /\ LET k == sendMap[t].off IN
       /\ k <= readOffset
       /\ Decryptable(k + 1)
       /\ readOffset' = readOffset + 1
       /\ \E mid \in MIDs \ usedMids :
             /\ conversations' = [conversations EXCEPT
                   ![contacts[inbox[k + 1]].nickname][mid] = Received(k + 1)]
             /\ usedMids' = usedMids \cup {mid}
    /\ UNCHANGED <<loop, contacts, contactNicknames, usedIds, sendMap, nextTid, kxTask,
                   inbox, persisted, now>>

(* Mutant: an undecryptable tip is skipped instead of panicking: the      *)
(* offset passes it with nothing stored.                                   *)
HandleReadResponseSkipUndecryptable(t) ==
    /\ loop = "running"
    /\ ReadAnswered(t)
    /\ transport' = [transport EXCEPT ![t] = "none"]
    /\ LET k == sendMap[t].off IN
       \/ /\ k < readOffset
          /\ UNCHANGED <<readOffset, conversations, usedMids>>
       \/ /\ k = readOffset
          /\ ~Decryptable(k + 1)
          /\ readOffset' = readOffset + 1
          /\ UNCHANGED <<conversations, usedMids>>
       \/ /\ k = readOffset
          /\ Decryptable(k + 1)
          /\ readOffset' = readOffset + 1
          /\ \E mid \in MIDs \ usedMids :
                /\ conversations' = [conversations EXCEPT
                      ![contacts[inbox[k + 1]].nickname][mid] = Received(k + 1)]
                /\ usedMids' = usedMids \cup {mid}
    /\ UNCHANGED <<loop, contacts, contactNicknames, usedIds, sendMap, nextTid, kxTask,
                   inbox, persisted, now>>

(* handleReply, OK status, read descriptor: below ReadOffset a duplicate, *)
(* dropped; at ReadOffset the offset advances and decryptMessage stores  *)
(* the message under a random MessageID in the conversation of the       *)
(* contact that decrypts it.  Nothing is saved.                           *)
HandleReadResponse(t) ==
    /\ loop = "running"
    /\ ReadAnswered(t)
    /\ transport' = [transport EXCEPT ![t] = "none"]
    /\ LET k == sendMap[t].off IN
       \/ /\ k < readOffset
          /\ UNCHANGED <<readOffset, conversations, usedMids>>
       \/ /\ k = readOffset
          /\ Decryptable(k + 1)
          /\ readOffset' = readOffset + 1
          /\ \E mid \in MIDs \ usedMids :
                /\ conversations' = [conversations EXCEPT
                      ![contacts[inbox[k + 1]].nickname][mid] = Received(k + 1)]
                /\ usedMids' = usedMids \cup {mid}
    /\ UNCHANGED <<loop, contacts, contactNicknames, usedIds, sendMap, nextTid, kxTask,
                   inbox, persisted, now>>

(* ... panic("failure to decrypt tip of spool") when no contact decrypts  *)
(* the tip, and panic("received spool response for MessageID not         *)
(* requested yet") above ReadOffset.                                      *)
HandleReadResponsePanics(t) ==
    /\ loop = "running"
    /\ ReadAnswered(t)
    /\ LET k == sendMap[t].off IN
       \/ k = readOffset /\ ~Decryptable(k + 1) /\ Die("panicDecrypt")
       \/ k > readOffset /\ Die("panicAhead")

(* garbageCollectSendMap: the session gave up on a reply.  Like the      *)
(* deferred Delete of handleReply, sendMap.Delete is passed the event's    *)
(* *[MessageIDLength]byte, not the array key Store used, and deletes      *)
(* nothing.                                                               *)
GarbageCollectSendMap(t) ==
    /\ loop = "running"
    /\ transport[t] = "sent"
    /\ transport' = [transport EXCEPT ![t] = "none"]
    /\ UNCHANGED <<loop, contacts, contactNicknames, usedIds, conversations, usedMids,
                   readOffset, sendMap, nextTid, kxTask, inbox, persisted, now>>

(* The conversation garbage collection the loop runs (not saved).         *)
GarbageCollectConversations ==
    /\ loop = "running"
    /\ conversations' = CollectGarbage(conversations)
    /\ UNCHANGED <<loop, contacts, contactNicknames, usedIds, usedMids, readOffset,
                   sendMap, transport, nextTid, kxTask, inbox, persisted, now>>

-----------------------------------------------------------------------------
(* Environment and process lifecycle.                                     *)

(* A peer whose exchange with contact id completed appends a ciphertext   *)
(* to our spool.                                                          *)
PeerAppend(id) ==
    /\ id \in usedIds
    /\ Len(inbox) < MaxInbox
    /\ inbox' = Append(inbox, id)
    /\ UNCHANGED <<loop, contacts, contactNicknames, usedIds, conversations, usedMids,
                   readOffset, sendMap, transport, nextTid, kxTask, persisted, now>>

Tick ==
    /\ now < MaxTime
    /\ now' = now + 1
    /\ UNCHANGED <<loop, contacts, contactNicknames, usedIds, conversations, usedMids,
                   readOffset, sendMap, transport, nextTid, kxTask, inbox, persisted>>

(* The process is killed, running or hung.                                *)
Kill ==
    /\ loop \in {"running", "blocked"}
    /\ Die("killed")

(* Start resumes the key exchange of a pending contact by unmarshalling  *)
(* its pandaKeyExchange; a nil one cannot be unmarshalled.                *)
Resumable(c) == c # NoContact /\ c.isPending => c.kxBlob # 0

(* New(state) and Start: the state file is loaded (see Die), the          *)
(* conversations are garbage collected and a PANDA task is resumed for    *)
(* every pending contact.                                                 *)
Restart ==
    /\ loop \in Down
    /\ \A id \in ContactIds : Resumable(contacts[id])
    /\ loop' = "running"
    /\ conversations' = CollectGarbage(conversations)
    /\ kxTask' = [id \in ContactIds |->
                    IF contacts[id] # NoContact /\ contacts[id].isPending
                    THEN "running" ELSE "none"]
    /\ UNCHANGED <<contacts, contactNicknames, usedIds, usedMids, readOffset, sendMap,
                   transport, nextTid, inbox, persisted, now>>

(* Start: UnmarshalKeyExchange fails for a loaded pending contact and     *)
(* Start panics; the process is down again with the same state file.      *)
RestartPanics ==
    /\ loop \in Down
    /\ \E id \in ContactIds : ~Resumable(contacts[id])
    /\ loop' = "panicStart"
    /\ UNCHANGED <<contacts, contactNicknames, usedIds, conversations, usedMids,
                   readOffset, sendMap, transport, nextTid, kxTask, inbox, persisted, now>>

Next ==
    \/ \E n \in Nicknames :
          NewContact(n) \/ RemoveContact(n) \/ SendMessage(n) \/ SendMessagePanics(n)
    \/ \E id \in ContactIds :
          \/ PandaTimeout(id) \/ PandaFailure(id)
          \/ PandaResult(id) \/ PeerAppend(id)
          \/ \E blob \in 1..MaxKxBlob : PandaProgress(id, blob)
    \/ ReadInbox
    \/ \E t \in Tids :
          \/ HandleSent(t) \/ HandleReply(t)
          \/ HandleReadResponse(t) \/ HandleReadResponsePanics(t)
          \/ GarbageCollectSendMap(t)
    \/ GarbageCollectConversations
    \/ Tick \/ Kill \/ Restart \/ RestartPanics

Spec == Init /\ [][Next]_vars

-----------------------------------------------------------------------------
TypeOK ==
    /\ loop \in {"running", "blocked"} \cup Down
    /\ contacts \in [ContactIds -> ContactRec \cup {NoContact}]
    /\ contactNicknames \in [Nicknames -> ContactIds \cup {NoContact}]
    /\ usedIds \subseteq ContactIds
    /\ conversations \in [Nicknames -> [MIDs -> MsgRec \cup {NoMsg}]]
    /\ usedMids \subseteq MIDs
    /\ readOffset \in Nat
    /\ sendMap \in [Tids -> Desc \cup {NoDesc}]
    /\ transport \in [Tids -> {"none", "submitted", "sent"}]
    /\ nextTid \in 1..(MaxTid + 1)
    /\ kxTask \in [ContactIds -> {"none", "running"}]
    /\ inbox \in Seq(ContactIds)
    /\ persisted \in [contacts: [ContactIds -> ContactRec \cup {NoContact}],
                      conversations: [Nicknames -> [MIDs -> MsgRec \cup {NoMsg}]],
                      readOffset: Nat]
    /\ now \in 0..MaxTime

-----------------------------------------------------------------------------
(* Properties.                                                            *)

(* handleReply panics with "received spool response for MessageID not    *)
(* requested yet" when a read response is above ReadOffset.  It cannot    *)
(* be: every read still in the send map asks for a slot at or below the   *)
(* offset, the offset never passes the end of the spool, and the state    *)
(* file never holds an offset ahead of memory - through restarts, which   *)
(* go back to the saved offset but start a session with no reads.         *)
ReadsNeverAhead ==
    /\ \A t \in Tids : sendMap[t] # NoDesc /\ sendMap[t].nick = User
                          => sendMap[t].off <= readOffset
    /\ persisted.readOffset <= readOffset
    /\ readOffset <= Len(inbox)
    /\ loop # "panicAhead"

(* Each received message lies in an inbox slot at or below ReadOffset and *)
(* no slot is stored twice, in memory and in the state file: duplicate    *)
(* read responses (several reads of one offset) are dropped, and a        *)
(* restart rolls the offset and the conversations back together.          *)
ReceivedAtMostOnceIn(convs, offset) ==
    \A n1, n2 \in Nicknames, m1, m2 \in MIDs :
        LET a == convs[n1][m1]
            b == convs[n2][m2]
        IN  a # NoMsg /\ ~a.outbound =>
               /\ a.plaintext \in 1..offset
               /\ (b # NoMsg /\ ~b.outbound /\ a.plaintext = b.plaintext)
                     => n1 = n2 /\ m1 = m2

ReceivedAtMostOnce ==
    /\ ReceivedAtMostOnceIn(conversations, readOffset)
    /\ ReceivedAtMostOnceIn(persisted.conversations, persisted.readOffset)

(* I5, O4 and P2: the ReadOffset of the state file never decreases, and   *)
(* the one in memory changes only when the process dies (New reloads the   *)
(* saved one) or by one, when handleReply takes the tip and decryptMessage *)
(* succeeds on it.                                                         *)
OffsetStep ==
    /\ persisted'.readOffset >= persisted.readOffset
    /\ readOffset' # readOffset =>
          \/ loop' \in Down
          \/ readOffset' = readOffset + 1 /\ Decryptable(readOffset')

OffsetMonotone == [][OffsetStep]_vars

(* I4: a contact never has more than MaxMissingMessages-1 unacknowledged  *)
(* appends (the ratchet's window): doSendMessage checks UnACKed against   *)
(* the window before it increments it.                                    *)
UnackedWithinWindow ==
    \A id \in ContactIds : contacts[id] # NoContact
        => contacts[id].unacked <= MaxMissingMessages - 1

(* I1/I2: contacts and contactNicknames describe the same contacts, one   *)
(* per nickname, also after New() rebuilds them from the state file.      *)
ContactIndexConsistent ==
    /\ \A n \in Nicknames : contactNicknames[n] # NoContact =>
          /\ contacts[contactNicknames[n]] # NoContact
          /\ contacts[contactNicknames[n]].nickname = n
    /\ \A id \in ContactIds : contacts[id] # NoContact =>
          contactNicknames[contacts[id].nickname] = id

(* The worker never blocks for good: every handler returns to the loop.   *)
LoopNeverBlocks == loop # "blocked"

(* I3: an established contact has a spool write descriptor and a keyed    *)
(* ratchet (doSendMessage dereferences the descriptor).                   *)
EstablishedHasSpool ==
    \A id \in ContactIds : contacts[id] # NoContact /\ ~contacts[id].isPending
        => contacts[id].hasSpool /\ contacts[id].ratchetKeyed

(* Removing a contact stops its key exchange: no PANDA task runs for an   *)
(* id that is no longer a contact.                                        *)
NoOrphanKeyExchange ==
    \A id \in ContactIds : kxTask[id] = "running" => contacts[id] # NoContact

(* A send at a full in-flight window retransmits at most someLimit        *)
(* messages and still sends: doRetransmit never panics.                   *)
NoRetransmitPanic == loop # "panicRetransmit"

(* I7: once a handler has finished, the state file holds the read offset  *)
(* the loop has advanced to.                                              *)
SavedAfterReceive == loop = "running" => persisted.readOffset = readOffset

(* P5 / 4.3: UnACKed counts the appends that still await their ack: a    *)
(* running client has, for each contact, at least UnACKed appends in      *)
(* flight, so that acks or retransmissions can bring it back down.        *)
UnackedTracksInFlight ==
    loop = "running" =>
        \A n \in Nicknames : contactNicknames[n] # NoContact =>
            contacts[contactNicknames[n]].unacked <=
                Cardinality({t \in Tids : sendMap[t] # NoDesc /\ sendMap[t].nick = n
                                          /\ transport[t] # "none"})

(* SendTracker is "drained on reply/gc" (spec 2): a descriptor whose      *)
(* transport id the session has answered or garbage collected is removed  *)
(* from sendMap by handleReply or garbageCollectSendMap.                  *)
SendMapDrained ==
    \A t \in Tids : transport[t] = "none" => sendMap[t] = NoDesc

(* The client implements the abstract contact book of ContactBook: the    *)
(* nickname index changes only when createContact adds a nickname under an *)
(* id no nickname holds (saved, or left unsaved when the key exchange      *)
(* cannot be set up) or doContactRemoval removes one and saves; other      *)
(* saves leave the index alone, and New rebuilds it from the saved         *)
(* contacts (I1, I2; I7 for contact removal).                              *)
Book == INSTANCE ContactBook
            WITH Names <- Nicknames, Ids <- ContactIds, None <- NoContact,
                 book <- contactNicknames, saved <- LoadedNicknames

BookRefinement == Book!BookSpec

(* P3 and Start: every state file save() writes can be loaded and        *)
(* started; Start never panics resuming the key exchange of a saved       *)
(* pending contact.                                                       *)
StartResumesExchanges == loop # "panicStart"

(* The client implements the abstract spool reader of SpoolReader: the   *)
(* spool's length, ReadOffset and the saved ReadOffset move only as slots *)
(* arrive, as handleReply consumes the tip, as save() writes the current   *)
(* offset, and as a crash reloads the saved one (P2, I5 up to crashes).    *)
Reader == INSTANCE SpoolReader
              WITH slots <- Len(inbox), offset <- readOffset,
                   saved <- persisted.readOffset

ReaderRefinement == Reader!ReaderSpec

(* Data from peers never makes the client panic: a ciphertext at the tip  *)
(* of our spool that no contact decrypts is not fatal.                    *)
NoPanicOnPeerData == loop # "panicDecrypt"

=============================================================================
