# TLA+ models of the catshadow client (src/client.go)

## The system

`src/client.go` is the core of the catshadow messaging client. One worker
goroutine, the control loop, owns the client's state and runs each handler to
completion, one at a time. It owns the contacts (`contacts` by id and
`contactNicknames`), the conversations, the send map (transport id →
`SentMessageDescriptor`) and the read offset of our own remote spool. Around it
are:

- **Key-exchange tasks.** There is one PANDA task per pending contact. It is
  started by `createContact` and resumed by `Start`, and reports to the loop over
  `pandaChan` (`processPANDAUpdate`).
- **The mixnet session.** The loop submits spool appends (`doSendMessage`,
  `doRetransmit`) and spool reads (`sendReadInbox`) to it. The session answers
  with sent, reply and garbage-collected events (`handleSent`, `handleReply`,
  `garbageCollectSendMap`).
- **The peers.** They append ciphertexts to our spool. The loop reads them slot by
  slot and trial-decrypts each one (`decryptMessage`).
- **The state file.** `save()` writes it. A process that dies is rebuilt from it
  by `New` and `Start`. A process can die because it is killed or because a
  handler panics.

## Inventory: which part is modelled where

All state-changing code is modelled in the module `Client.tla`. Two abstract
specifications state what two components promise, and `Client` implements both:

- `SpoolReader.tla` for the read cursor;
- `ContactBook.tla` for the contact store's nickname index.
The table lists each part of the system and where it is.

| Part (spec name) | Code | Modelled by | Status |
|---|---|---|---|
| ControlLoop | handlers of client.go; the worker loop (worker.go, not under src/) | `Next`, the interleaving of all actions | partly: the read-only accessors are not actions |
| ContactStore | `randID`, `createContact`, `doContactRemoval`, `New` | `NewContact`, `RemoveContact`, `LoadedContacts`, `LoadedNicknames`; abstractly `ContactBook` | modelled |
| ConversationStore | `doSendMessage`, `handleSent`, `handleReply`, `decryptMessage`, `garbageCollectConversations` | `SendMessage`, `HandleSent`, `HandleReply`, `HandleReadResponse`, `CollectGarbage` | modelled |
| SendTracker | `sendMap` Store and Delete | `StoreAll`, `GarbageCollectSendMap`, `HandleReply` | modelled (neither Delete removes anything) |
| SpoolIO | `sendReadInbox`, the read branch of `handleReply` | `ReadInbox`, `HandleReadResponse`, `HandleReadResponsePanics`; abstractly `SpoolReader` | modelled |
| KeyExchangeSupervisor | `processPANDAUpdate`, PANDA tasks started or resumed | `PandaTimeout`, `PandaFailure`, `PandaProgress`, `PandaResult`, `kxTask` | modelled |
| RatchetGateway | encrypt and trial decryption | `Decryptable`, `ratchetKeyed` | partly: payload framing is not modelled |
| StatePersister | `save`, `marshal` | `SaveState`, `persisted` | modelled |
| Lifecycle | `NewClientAndRemoteSpool`, `New`, `Start` | `Init`, `Die`, `Kill`, `Restart`, `RestartPanics` | partly: `Shutdown` and `CreateRemoteSpool` are not modelled |
| EventBus | `eventSinkWorker` | none | not modelled: its events carry no state the client reads back |

### How the code maps to the model

Data is abstracted to what the properties tell apart:

- **Contacts.** A contact is a record of the flags the handlers test:
  - `isPending`;
  - `kxBlob`, the serialised PANDA state, with 0 standing for nil;
  - `hasCancel`, set when `pandaShutdownChan` is not nil;
  - `kxFailed`, set when `pandaResult` is not empty;
  - `hasSpool`, set when the spool write descriptor is not nil;
  - `ratchetKeyed`;
  - `unacked`.
- **Ciphertexts.** A ciphertext in our spool is the id of the contact whose peer
  wrote it. A received message's plaintext is the spool slot it came from, so a
  slot stored twice can be seen.
- **Absent entries.** A map entry that is absent, or a nil pointer, is a
  sentinel model value: `NoContact`, `NoMsg` or `NoDesc`.
- **The session.** Each submission gets a transport id `t`, and
  `transport[t]` follows it through three states:
  - `submitted`, awaiting the sent event;
  - `sent`, awaiting the reply or the garbage collection;
  - `none`.

  `MaxTid` bounds the submissions of one session.
- **Mutex and crashes.** `conversationsMutex` is modelled by its one observable
  effect: a `save()` made while the mutex is held hangs the worker
  (`loop = "blocked"`). A crash or panic is `Die(reason)`. It discards memory,
  the tasks and the session, and shows the state file's content from then on.
  `Restart` is `New` followed by `Start`. `Start` cannot resume the key
  exchange of a loaded pending contact whose `pandaKeyExchange` is nil
  (`Resumable`). It then panics instead (`RestartPanics`), and the process
  stays down with the same state file.
- **Failed contact creation.** `createContact` inserts the contact into both
  maps before it sets up the key exchange. If `panda.NewKeyExchange` fails, it
  returns the error (299-301) and leaves the pending contact in memory with a
  nil `pandaKeyExchange`, no task and no `save()`. That is the second branch of
  `NewContact`. Its other late return, a nil panda config (292-294), cannot
  happen in a running client: `Start` has already panicked on the same nil.
- **Handlers are whole actions.** Each handler is one action, including its
  trailing `save()` (`SaveState`, taken in the state the handler leaves). Its
  early returns are branches of the same action.
- **Panics.** Panics are actions of their own: `SendMessagePanics` and
  `HandleReadResponsePanics`. The exception is `panic("bug")` in `HandleReply`,
  which is a branch of that action.
- **Deleting descriptors.** `Store` keys `sendMap` by the array value
  `*mesgID`. `handleReply` defers `sendMap.Delete(replyEvent.MessageID)` and
  `garbageCollectSendMap` calls `sendMap.Delete(gcEvent.MessageID)`. Both pass
  the `*[MessageIDLength]byte` pointer, a key of another type that is never in
  the map. So the model's `HandleReply` and `GarbageCollectSendMap` leave
  `sendMap` unchanged; they only retire the transport id.

## Runs

All runs use `MC_Client.tla`. Its instance has:

- one nickname (two in `contact_book` and `start_panics`);
- two contact ids;
- two conversation MessageIDs;
- `MaxTid = 2` (two submissions per session; one in `contact_book`);
- `MaxInbox = 2` (two spool slots; one in `contact_book`);
- `MaxKxBlob = 2`;
- `MaxTime = 1` with `MessageExpiration = 0`, so messages can expire;
- `MaxMissingMessages = 2`, a window of one in-flight append;
- `RetransmitLimit = 2`.

These bounds are large enough for the interesting cases to happen:

- two reads of the same offset, and a duplicate reply;
- a read from a new session after a crash;
- a contact removed and re-created under a fresh id;
- two nicknames competing for two ids, one of them created with a failed key
  exchange and then saved by the other's creation (`contact_book`).
- a full window;
- expiry of a message whose ack is still in flight.

**Symmetry.** The runs use symmetry over the nicknames, the contact ids and
the MessageIDs, which are only compared for equality. This is sound because
the only `CHOOSE` over ids (`LoadedNicknames`) picks the unique id that holds
the nickname; `SavedNicknamesUnique` in the proofs shows that id is unique.

**Deadlock checking** is on: a killed or panicked process can always restart.

| Run | Expect | Property | What it shows |
|---|---|---|---|
| client_safety | pass (≈268k distinct states) | TypeOK, ReadsNeverAhead, ReceivedAtMostOnce, UnackedWithinWindow, ContactIndexConsistent, OffsetMonotone, ReaderRefinement | see below |
| contact_book | pass (≈270k distinct states) | BookRefinement, ContactIndexConsistent | the contact indexes and the abstract contact book with two nicknames (below) |
| loop_blocks | violation | LoopNeverBlocks | `handleSent`/`handleReply` call `save()` under `conversationsMutex`, which `marshal` locks again: the worker hangs (client.go:636, 680) |
| failed_exchange_established | violation | EstablishedHasSpool | a failed PANDA result sets `IsPending = false` with no spool descriptor (445, 460) |
| orphan_key_exchange | violation | NoOrphanKeyExchange | the timeout restart drops the cancel channel (421), so removing the contact leaves the task running |
| retransmit_panic | violation | NoRetransmitPanic | `rTx[:someLimit]` with fewer candidates panics (578). In this model there are never any candidates: `Sent` is set only by `handleSent`, which hangs before saving it |
| receive_not_saved | violation | SavedAfterReceive | the tip branch advances `ReadOffset` without `save()` (702), against spec I7 |
| peer_data_panic | violation | NoPanicOnPeerData | an undecryptable tip panics (704): spec 4.4 prescribes the panic, spec 7 forbids it |
| send_map_leak | violation | SendMapDrained | a transport id the session is done with keeps its descriptor: both `Delete`s pass a pointer key (618, 653), so `sendMap` grows for the life of the process, against spec 2 ("drained on reply/gc") |
| start_panics | violation | StartResumesExchanges | `createContact` returns after a failed `NewKeyExchange` (299-301) with the pending contact in memory and no `pandaKeyExchange`. Another handler's `save()` writes it, and every later `Start` panics on it (175-177): a crash loop. Found in 5 states: failed creation, a second creation, kill, restart |
| unacked_leak | violation | UnackedTracksInFlight | `UnACKed` is never given back for a garbage-collected write, an expired message or a failed status (618, 661, 672) |

The passing runs check five invariants, one action property and two refinements:

- **ReadsNeverAhead.** Through reads, duplicate replies, crashes and restarts:
  - no read in the send map asks for a slot above `ReadOffset`, so the
    "not requested yet" panic cannot happen;
  - the offset never passes the end of the spool;
  - the saved offset is never ahead of memory.
- **ReceivedAtMostOnce.** No spool slot is stored twice, either in memory or in
  the state file.
- **UnackedWithinWindow.** `UnACKed` stays within the ratchet's window.
- **ContactIndexConsistent.** The two contact indexes agree, also after a reload
  from the state file.
- **TypeOK.** Every state is well typed.
- **OffsetMonotone** (action property, spec I5, O4, P2). In every step:
  - the saved `ReadOffset` never decreases;
  - the `ReadOffset` in memory changes only when the process dies, or by one
    when `handleReply` takes the tip and `decryptMessage` succeeds on it.
- **ReaderRefinement.** `Client` implements `SpoolReader` (below).
- **BookRefinement** (`contact_book`). `Client` implements `ContactBook`
  (below). It needs two nicknames, since only then can a new contact's id
  clash with another nickname's.

Each property has a mutant in PROJECT.json, a plausible bug that the property
catches:

- `sendReadInbox` asks for the slot before `ReadOffset`, or the slot after it;
- the duplicate check is missing;
- the window test is off by one;
- the removal forgets the nickname index;
- a restart starts reading at offset 0 instead of the saved offset;
- an undecryptable tip is skipped instead of panicking;
- `doContactRemoval` forgets its `save()`.

Every action of `Next`, and every branch of the actions, produces new states in
the passing run.

## The abstract spool reader (SpoolReader.tla)

`SpoolReader` states what the receive pipeline promises about its cursor
(spec 3, 4.4, I5), with contacts, conversations and the session abstracted
away. It has three variables: `slots` (ciphertexts in our spool), `offset`
(the next unread slot) and `saved` (the offset in the state file). It has four
actions:

- `Arrive`: a peer appends a slot;
- `Consume`: the cursor passes one slot that exists, and the state file may be
  written in the same step;
- `Save`: the state file takes the current offset;
- `Rollback`: a crash, after which the cursor is the saved offset.

`Client` defines `Reader == INSTANCE SpoolReader WITH slots <- Len(inbox),
offset <- readOffset, saved <- persisted.readOffset`, and the run checks
`ReaderRefinement == Reader!ReaderSpec` as a PROPERTY. So, in every behaviour:

- only a reply for a slot that exists at the current offset moves
  `ReadOffset`, and by one;
- no `save()` ever writes an offset other than the one in memory;
- a restart resumes from the saved offset.

`ReaderProofs.tla` proves it for all constants.

## The abstract contact book (ContactBook.tla)

`ContactBook` states what the contact store promises (spec I1, I2, and I7
for `remove_contact` and a `create_contact` that succeeds), with the records, the key exchange and
the conversations abstracted away. It has two variables: `book` (the id each
nickname names) and `saved` (the book in the state file). It has five actions:

- `Add(n, id)`: a free nickname takes an id that no nickname holds, and the
  file is written;
- `AddUnsaved(n, id)`: the same, but the file is not written. This is
  `createContact` failing after the insertion;
- `Remove(n)`: a nickname is removed, and the file is written;
- `SaveBook`: another operation writes the file;
- `RollbackBook`: a crash.

`Client` defines `Book == INSTANCE ContactBook WITH book <- contactNicknames,
saved <- LoadedNicknames`. Here `LoadedNicknames` is the index `New()` rebuilds
from the saved contacts. The run checks `BookRefinement == Book!BookSpec`.

This shows three things:

- removing a contact is durable when the handler returns, and so is adding one
  whose key exchange starts;
- no other handler changes the index;
- `createContact` never reuses an id held by another nickname.

Spec I7 asks every mutating operation to be saved. A failed creation is not,
which is why the book has `AddUnsaved`. `start_panics` shows what that costs:
a later save persists the half-created contact, and `Start` cannot resume it.

`BookProofs.tla` proves it for all constants.

## Fairness and liveness

No liveness property is checked and the specification has no fairness. The
worker hangs for good at its first delivery or sent event for a message still in
its conversation (`loop_blocks`). So "a sent message is eventually delivered"
does not hold under any fairness the code justifies. What could be asked
instead, such as eventual progress of a key exchange, depends on the PANDA
service and the network. The model leaves those out.

## What is proved (ClientProofs, ReaderProofs, WindowProofs, ReceiveProofs, BookProofs; TLAPS)

Every theorem holds for all values of the constants that satisfy
`ConstantsAssumption` and `SentinelsAssumption`:

- **TypeCorrect**: `Spec => []TypeOK`.
- **ContactIndexAlwaysConsistent**: `Spec => []ContactIndexConsistent`.
- **ReadsNeverAheadInvariant**: `Spec => []ReadsNeverAhead`.
- **IInvInvariant**: `Spec => []IInv`.
- **ImplementsReader** (ReaderProofs.tla): `Spec => ReaderRefinement`. The
  proof has the usual three parts: `Init` maps to `ReaderInit`; under `IInv`,
  every action maps to a `SpoolReader` step or a stutter (`NextRefines`, one
  step per action); and PTL combines the two. A handler that ends with `save()`
  is a `Save`, a crash or panic is a `Rollback`, the tip branch of
  `handleReply` is a `Consume`, and a peer append is an `Arrive`.
- **UnackedAlwaysWithinWindow** (WindowProofs.tla):
  `Spec => []UnackedWithinWindow`.
- **ReceivedAlwaysAtMostOnce** (ReceiveProofs.tla):
  `Spec => []ReceivedAtMostOnce`.
- **OffsetAlwaysMonotone** (ReceiveProofs.tla): `Spec => OffsetMonotone`.
- **ImplementsBook** (BookProofs.tla): `Spec => BookRefinement`.

Every property of the passing runs is thus proved for all constants.

### The inductive invariant

`TypeOK` is not inductive alone. The reason is that `Die` rebuilds the indexes
from the state file, so the proof needs facts about the saved state as well. It
is strengthened to

    IInv == TypeOK /\ ContactIndexConsistent /\ FreshIdsAbsent /\ SavedNicknamesUnique

The conjuncts say:

- `FreshIdsAbsent`: an id `randID` has not returned yet is absent from memory and
  from the state file. This is why `NewContact` cannot overwrite a contact.
- `SavedNicknamesUnique`: the saved contacts have distinct nicknames and each one
  has an id. This is why `LoadedNicknames` rebuilds a consistent index.

The proof has one lemma per action showing that the action keeps `IInv`, with
shared lemmas for the helpers:

- `StoreAllType`, `SaveStateType`, `CollectGarbageType`, `DieType`;
- `UpdateContact` for a contact changed in place.

`ReadsNeverAhead` is proved from `IInv /\ ReadsNeverAhead`, again with one step
per action:

- a new read asks for `readOffset` itself (`ReadInboxReads`);
- the tip branch only raises the offset;
- `Die` resets memory to the saved offset with an empty send map (`DieReads`);
- a panic for a read above the offset is excluded by the invariant itself.

### Why UnACKed stays within the window

`UnackedWithinWindow` is not inductive. `doSendMessage` increments `UnACKed`
even when the window is full, after `doRetransmit`. The count stays bounded
only because that path always panics: `doRetransmit` slices four candidates
out of none. There are never any candidates, because a message becomes `Sent`
only in `handleSent`, and that handler hangs the worker before anything else
runs. The proof states this as the strengthening

    WInv == /\ loop # "blocked" => SentFree(conversations)
            /\ SentFree(persisted.conversations)
            /\ WithinWindow(contacts) /\ WithinWindow(persisted.contacts)

It is proved inductive given `IInv` (`NextWInv`, one lemma per action). The
facts it uses:

- a `save()` in a running worker writes no `Sent` message;
- a restart loads the saved contacts (`WithinWindowLoaded`);
- a full window with no `Sent` message has no retransmission batch, so
  `SendMessage` cannot increment there.

So the theorem holds because of the deadlock (`loop_blocks`) and the panic
(`retransmit_panic`). If the deadlock were fixed, the bound would rest on
`doRetransmit` alone.

### Why no slot is stored twice

`ReceivedAtMostOnce` is inductive relative to `IInv`; it needs no
strengthening. The proof abstracts each step by `ReceivedKept(c, c2)`: every
received message of the new conversations was a received message with the
same plaintext at the same place before. Each handler falls into one of these
cases:

- **Keeps the received messages and does not lower `ReadOffset`**
  (`KeptAtMostOnce`):
  - it drops messages (`KeptCollect`);
  - it re-flags a message (`handleSent`, `handleReply`);
  - or it writes an outbound message (`doSendMessage`).
- **The tip branch of `handleReply`** stores slot `ReadOffset + 1` exactly
  when `ReadOffset` becomes that slot. Every stored slot is at most the old
  offset, so the new slot is fresh (`TipAtMostOnce`).
- **A crash** reloads conversations and offset from the same `save()`.

`OffsetMonotone` follows from `ReadsNeverAhead`. `save()` writes the offset
in memory, which is never behind the saved one. Only the tip branch and a
crash move the offset in memory.

### The contact book refinement

`ImplementsBook` rests on `IInv` in both states of a step. There are three
ingredients:

- **The saved index is the memory index** (`SavedIndexIsMemory`). Right after
  `save()`, the index rebuilt from the file is the index in memory, because
  the two contact maps agree.
- **Adding uses a free id.** `createContact` takes an id that `randID` has not
  returned, so no contact holds it (`FreshIdsAbsent`) and, by consistency, no
  nickname names it. The branch that saves is an `Add`; the branch that returns
  the `NewKeyExchange` error leaves the file, and so the saved index, alone,
  which is an `AddUnsaved`.
- **A crash rolls back.** `Die` takes the rebuilt index, which is
  `RollbackBook`.

### What stays with TLC

The following are only model-checked:

- everything the violation runs show;
- all liveness.

TLAPS does not reason about `ENABLED` or fairness.

## Not modelled

- **The event bus.** It is output only.
- **Read-only accessors.** `GetContacts`, `GetConversation` and
  `GetAllConversations` return the live maps after unlocking, which is a data
  race with the worker. The client's own state does not depend on those readers.
- **Data conversions.** These are payload framing, CBOR marshalling, and the
  encoding of the offset into a MessageID. They are pure conversions that no
  property is about. The offset is kept as a number.
- **Network and shutdown.** `CreateRemoteSpool` is a network round trip before
  the first state. `Shutdown` saves and halts, which a `Kill` after the last save
  covers.
- **Fatal-error channel.** A send on the fatal-error channel for a descriptor of
  the wrong type cannot happen: the map only ever holds descriptors. Two hazards
  around it are listed without a property:
  - the watcher goroutine calls `Shutdown`, whose `save()` races with a handler
    the worker may still be running (190);
  - `Shutdown` closes `fatalErrCh` (391), so a later fatal-error send panics.

## Plan for later work

- Model the per-message event order O2/O3 with an event log variable.
- Check a variant of the model with the deadlock fixed (save outside the mutex),
  so that the retransmission path and the liveness of acks can be explored.
- Refine the event bus's MessageSent/MessageDelivered order (O2) against an
  abstract per-message protocol.
