# TLA+ project for expo-libsignal

expo-libsignal wraps libsignal for React Native. The cryptography is
libsignal's; what this repository adds, and what can go wrong in it, is the
state around it: the native operations are stateless, and TypeScript code reads
records from a database, passes them to a native operation and writes the
answer back. The properties here are about that loop: what is read, what is
written, in which order, and what happens when two operations, a failure or a
kill come in between.

## Inventory

| Component | State | Operations | Source |
|---|---|---|---|
| Operation queue | one promise, `this.queue` | `runExclusive` | `src/stores/SQLCipherProtocolStore.ts:361` |
| Protocol store | tables `sessions`, `trusted_identities`, `prekeys`, `signed_prekeys`, `kyber_prekeys`, `sender_keys`, `local_identity`; one SQLite connection | one load/store method per record kind | `src/stores/SQLCipherProtocolStore.ts`, `src/stores/schema.ts` |
| Store lifecycle | database file, key in the keychain, schema version | `open`, `runMigrations`, `resolveDatabaseKey`, `initializeLocalIdentity`, `close`, `wipe` | `src/stores/*.ts` |
| 1:1 sessions | none of their own: a sequence of awaits on the store and the native module | `SessionBuilder.processPreKeyBundle`, `SessionCipher.encrypt`, `decryptPreKeySignal`, `decryptSignal` | `src/core/SessionBuilder.ts`, `SessionCipher.ts` |
| Native session operations | an in-memory libsignal store, seeded and dropped in each call | `run*Op` | `android/.../SessionOps.kt`, `ios/SessionOps.swift` |
| Groups | sender-key records | create, process, encrypt, decrypt | `src/core/Group*.ts`, `GroupOps.kt`, `GroupOps.swift` |
| Sealed sender | as for 1:1 sessions | `encrypt`, `decryptMessage` | `src/core/SealedSender.ts`, `SealedSenderOps.*` |
| Native boundary framing | none | `encodeRecordList`, `decodeRecordList` | `src/core/recordList.ts`, `SessionOps.kt:122` |
| Reference client | the store, the sealed-sender configuration | publish, start, send, receive, group welcome and send | `example/src/client/*.ts` |
| Chat | conversations, messages, transport subscriptions, what the screen has rendered | `appendMessage`, `send`, `attachReceiver`, mounting and leaving the screen | `example/src/chat/*.ts`, `example/src/screens/ChatHomeScreen.tsx` |
| Config plugin | the Podfile and two Gradle files of an app | the injections of `expo prebuild` | `plugin/src/index.ts` |
| Value types, module registration, demo screens | none that matters here | | `src/core/*.ts`, `ExpoLibsignalModule.*`, `example/src/screens/` |

**How they interact.** `SignalClient` builds a `SessionCipher` or
`SessionBuilder` over the store and gives the whole operation to
`runExclusive`. The operation awaits the store for each record, awaits one
native operation with all of them as arguments, and awaits one store method per
record to write back. SQLite commits each statement on its own; only
`saveIdentity` and the migrations open a transaction. A native error arrives as
an exception with a `kind`, becomes an error class (`src/errors.ts`), and ends
the operation with what it has written so far still written.

**Which behaviours are hard.**

- Interleaving: every store method is asynchronous, so without the queue two
  operations mix at every await. The queue is a promise chain, not a lock.
- Partial failure and crash: an operation makes up to four separate commits. It
  can stop between any two, because a statement is rejected or because the
  system kills the app.
- Delivery: the transport belongs to the application. Messages arrive late,
  twice, out of order, or from a peer that lost its store.
- Stale reads: what is written back (session, identity) was read before the
  native call; the sealed flag of a chat message is the one last rendered.
- Histories on both sides: the sender writes its row, ships, and the receiver
  writes its own, on two databases and without a common transaction.

**What makes each component correct.**

- Queue: mutual exclusion, call order, and that a failing function does not
  stop the ones behind it.
- Sessions: no message key is used for two ciphertexts; no message is decrypted
  twice; a stored record is never replaced by one that misses an update.
- Prekeys: a one-time prekey outlives the handshake until its session is
  stored, and carries one session; what is published is stored first.
- Identities: a pin is never silently replaced; the session in use belongs to
  the pinned identity; a session without a pin is explained by a stopped call.
- Store lifecycle: the key in the keychain opens the database, whatever step of
  an open or a wipe was the last to run; a committed schema is whole; an older
  library leaves a newer database alone; the local identity is made once; a file
  changes only in the ways `DatabaseFiles` lists.
- Groups: no iteration of a sender key is used twice; a message opens once; a
  member that has processed a welcome can open what follows it.
- Sealed sender: sealed and plain messages share chains and prekeys without using
  one twice, and an envelope that does not validate changes nothing.
- Framing: both sides of the native boundary read the same records from the
  same bytes, or both fail; what was encoded is what is read.
- Chat: what a history shows as received, the sender's history has as sent, and it
  is shown once; own messages stay in order; the list of conversations agrees with the messages.
- Config plugin: repeated prebuilds inject once, a pod and its checksum are of
  one version, and what is injected lands in the block it is meant for.

## Modules

| Module | Models |
|---|---|
| `SerialQueue` | what `runExclusive` promises: calls wait in order, one at a time is served |
| `ExclusiveQueue` | the promise chain itself |
| `LibsignalSession` | external: what the double ratchet does to a session record |
| `SessionOps` | the native session operations, as functions of their arguments |
| `MessageKeys` | what a device promises about message keys, with no store and no steps; implemented by `ProtocolClient` and by `GroupMessaging` |
| `ProtocolClient` | one device: store, the five operations, failures, kills; extends the queue and the operations |
| `ProtocolClientProofs` | the queue's inductive invariant, its mutual exclusion and refinement of `SerialQueue`; the inductive invariant of its message keys and the theorems, the refinements among them |
| `PreKeyProofs` | the inductive invariant of its prekey, pin and session tables and the theorems |
| `SealedSender` | the device of `ProtocolClient` with the two sealed operations |
| `SealedSenderProofs` | its refinement of the queue, its two inductive invariants and the theorems |
| `DatabaseFiles` | what the stores promise about database files, with no handles, keys or transactions |
| `StoreLifecycle` | keychain, files and handles: open, migrations, close, wipe, the local identity; implements `DatabaseFiles` |
| `StoreLifecycleProofs` | its inductive invariant and the theorems, the refinement among them |
| `SenderKeyOps` | the native operations on sender keys, as functions; what libsignal does in them is external |
| `GroupMessaging` | one group on its devices: welcome, send and receive, section by section |
| `GroupMessagingProofs` | its inductive invariant and the theorems, the refinement among them |
| `RecordList` | the framing of record lists: one encoder, the unsigned and the signed decoder |
| `RecordListProofs` | both decoders return the same for every blob, and what was encoded for every list |
| `ChatHistories` | what the chat promises to those who read it, with no sessions, awaits or transport |
| `ChatDelivery` | the chat of the example app: personas, chat databases, transport, screen; implements `ChatHistories` |
| `ChatDeliveryProofs` | its inductive invariant and the theorems, the refinement among them |
| `ConfigPlugin` | the edits of the config plugin on files as sequences of lines |
| `ConfigPluginProofs` | its inductive invariant, what an inserted line does to counts and depths, and the theorems |
| `MCProtocolClient`, `MCSealedSender`, `MCStoreLifecycle`, `MCGroupMessaging`, `MCChatDelivery`, `MCConfigPlugin`, `MCPluginHook` | instances for TLC; the last has the Podfiles that `MCConfigPlugin` leaves out |

### ExclusiveQueue

`runExclusive(fn)` is `run = this.queue.then(fn, fn); this.queue = run.then(ok,
ok)`. A call is one element of `Calls`. `tail` is `this.queue`, named by the
call it derives from; `prev[t]` is the promise call `t` was chained on, read
from `tail` in the same synchronous step; `phase[t]` follows the promise `run`.
`order` is a history of the calls this process made; no action reads it.
`StartFn` is the reaction of `then(fn, fn)`: it needs only `prev[t]` to be
settled, either way. `Restart` drops the store object: pending calls are
`lost`, and the new queue is `Promise.resolve()`.

`run` and `run.then(...)` settle a microtask apart and nothing else can observe
the second without being chained on it, so both are one value here.

### ProtocolClient

Each await of an operation is one action, because between two awaits other
callbacks run and the process may be killed. The label in `pc[t]` names the
await the call is at; the operation's local variables are
`existingSession`, `remoteIdentity`, `kyberBlob` and `result`.

| Code | Model |
|---|---|
| `runExclusive(() => cipher.encrypt(..))` and the other call sites in `SignalClient` | `Invoke`, then `Begin` when the queue starts the function |
| `loadSession` and the `SessionNotFoundError` guard | `LoadSession` |
| `getIdentity` | `GetIdentity` |
| `loadPreKey`, `loadSignedPreKey`, `loadKyberPreKeys` | the actions of the same names, `InvalidKeyError` included |
| `NativeModule.*Op` | `RunOp`, by the functions of `SessionOps` |
| `storeSession`, `removePreKey`, `markKyberPreKeyUsed`, `saveIdentity` with their `if`s | the actions of the same names; `AfterSession`, `AfterPreKey`, `AfterKyber` are the `if`s |
| the three writes of `publishOneTimePreKey` | `StorePreKey`, `StoreSignedPreKey`, `StoreKyberPreKey` |
| the promise fulfils | `Return` |
| a rejected statement, a native error | `StoreFails`, `Throw`: nothing is rolled back |
| the app is killed and started again | `Kill`: tables stay, calls and their local variables are gone |

`getIdentityKeyPair` and `getLocalRegistrationId` read a row that no operation
writes; their failure is that of the read after them. `saveIdentity` is one
step: its transaction reads and upserts one row, and no other operation runs.
Plaintexts, timestamps, device ids and serialized forms are left out; the
deserializing of a stored record is the identity on the abstraction, and its
failure is that of the read.

A session is named by the base key of its handshake. In the state of a session,
`sent` names the next sending key and `rcvd` the spent receiving keys; ratchet
steps, which renew the chains and keep counters distinct, are folded into one
counter per direction. Archived states are kept without limit (libsignal keeps
40), and every message decrypts when its session is there (skipped keys are
kept without limit; libsignal keeps 2000 per chain).

A prekey is a key pair that one publication generates, and `Id` its id, which is all
that a message carries. The tables have at most one row for each id: the three store
methods are upserts (`Upsert`), and `removePreKey` deletes what is under the id
(`DeleteRow`). An application may publish an id again, as `ChatHomeScreen.tsx:86` does
at every mount, so a bundle that was offered may lose its keys to a later one; a
handshake then meets a prekey it was not made for, which the native operation
refuses (`CanBuild`). The used mark of a kyber prekey belongs to the id and stays.

The environment is what the peers may send (`Incoming`). `MayArrive` lets a
message arrive any number of times and in any order, once it can exist: a
handshake needs a bundle this device has published, an answer needs a
ciphertext that left this device. It is no code of the repository, and neither is
`FreshBundle`. A bundle may be named without its one-time
prekey, as a server that has run out hands it out. Bundles are handed to
`startSession` once each: the handshake of a second use has a new base key and
is another member of `Bundles`.

`MessageKeys` is what the caller of such a device is told: a call of encrypt
that returns has taken a key no call took before, a call of decrypt that
returns has opened a key no call opened before, and what was handed out is
never taken back. Its two variables are sets of pairs of a call and a key;
the refinement mapping (`OneUse`) reads them off the calls that have
returned, the key being the session and the counter of the message. Every read,
write, failure and kill is then a stutter, and only `Return` is a step. Because
`NoMessageKeyReuse` and `AtMostOnce` are invariants of one state, they do not
say that a used key stays used; the refinement does.

### SealedSender

Two more kinds of call on the state of `ProtocolClient`, whose own calls run
beside them; `preKeysBlob` and `signedPreKeysBlob` are their further local
variables.

| Code | Model |
|---|---|
| `runExclusive(() => SealedSender.encrypt(..))`, `decryptMessage` | `InvokeSealed`, `BeginSealed` |
| `loadSession` and the guard of `encrypt` | `LoadSessionToSeal` |
| `loadPreKeys`, `loadSignedPreKeys`, `loadKyberPreKeys` | `LoadPreKeys`, `LoadSignedPreKeys`, `LoadKyberPreKeys` |
| `sealedSenderEncryptOp`, `sealedSenderDecryptOp` | `RunSealedOp` |
| the writes | those of `ProtocolClient`: `decryptMessage` writes no identity, because it reads none |

An envelope is the message inside it, the sender its certificate names and
whether the certificate validates. `ReportsPreKey` is the one difference between
the platforms: iOS returns `consumedPreKeyId`, Android returns null. Making and
reading certificates is external.

### StoreLifecycle

None of these operations is queued by `runExclusive`, so this module stands
beside `ProtocolClient`: the two meet at the open store that one ends with and
the other begins with. A handle is one call of `SQLCipherProtocolStore.open`
and what becomes of it; `pc[h]` names the await it is at.

| Code | Model |
|---|---|
| `resolveDatabaseKey` | `GetItem`, `SetItem` (a generated key is one that is not in use) |
| `PRAGMA key` and the probe | `Probe`: fails on a file made with another key |
| `PRAGMA journal_mode = WAL` | `Journal`, the first write of a new file |
| `runMigrations` | `ReadVersion`, `ExecStatement`, `StampVersion`, `Commit` |
| the `catch` of `open` | `OpenFails`, `Fail` |
| `close`, `wipe`, `deleteDatabaseKey` | `Close`; `Wipe`, `DeleteDatabase`, `DeleteDatabaseKey`, `WipeFails` |
| `SignalClient.initializeIfNeeded`, `initializeLocalIdentity` | `Initialize`, `IfNeeded`, `CheckInitialized`, `InsertIdentity` |
| the app is killed, updated, downgraded, reinstalled | `Kill` |

`work[h]` is what the open transaction would commit, `executed[h]` the
statements of the batch run so far. A table is named by its batch and position,
so that a statement repeated on a table that exists fails, as `CREATE TABLE`
does. A reinstallation removes the files; the keychain may survive it, as on
iOS. Two stores on one database file are excluded, as the documentation asks;
two databases on one keychain alias, the default, are not. Restoring a backup
of the files to another device, where the keychain entry is not, is left out.

`DatabaseFiles` is what a user of the library can count on across all of this: a
file has the tables of its version and no other, goes up one version at a time and
never past the installed library, gets its identity once and at that library's version, and
is deleted only by a library that can read it or by a reinstallation. The mapping
(`content`) is the committed part of the files; keys, handles and
open transactions are left out, so that of a whole `open` only the first
write and each commit are steps.

### GroupMessaging

A call of `welcome`, `send` or `receive` is a sequence of functions given to
`runExclusive`, with something awaited before each; `section[t]` names the
function, `pc[t]` the await it is at. `queue[d]` is the order in which the
device runs them, which is what `SerialQueue` promises.

| Code | Model |
|---|---|
| a call of the application, an envelope the transport delivers | `Invoke` |
| what is awaited before `runExclusive`, and its call | `Resume`, then `Enter` when its turn has come |
| `loadSenderKey` and the `SenderKeyNotFoundError` guard | `LoadSenderKey` |
| `NativeModule.*SenderKey*Op`, `group*Op` | `RunOp`, by the functions of `SenderKeyOps` |
| `storeSenderKey`, and the return to the caller | `StoreSenderKey` |
| `cipher.encrypt(skdmBytes)` for a member; the decryption of what a welcome carries, with its `catch` | `Wrap`; `Unwrap`, `UnwrapFails` |
| a rejection, a kill | `Fails`, `Kill` |

A section on a 1:1 session is one step: what happens inside it is
`ProtocolClient`, and here it matters only that a 1:1 message opens at most
once (`spent`, which is `AtMostOnce` there). Envelopes are what calls have
returned (`Emitted`); each is delivered any number of times, in any order, or
never. A sender key chain is named for the call that made it. libsignal's limits
(five chains, 2000 skipped keys) and signatures are left out.

The devices of a group implement `MessageKeys` too (`ImplementsMessageKeys`): a key is a
sender's message (the chain and the iteration in it) at a device, `sent` has what calls of
`send` returned and `opened` what calls of `receive` opened of the group's messages. Sections, welcomes,
failures and kills are stutters.

### RecordList

Pure operators; the loops are recursive functions. `EncodeRecordList` is the TypeScript encoder (`recordList.ts`);
`RecordAt` the bounds check of the TypeScript and Swift decoders, `SignedRecordAt`
that of Kotlin, where the length is a signed `Int` and `offset + len` wraps
around. `copyOfRange` throws on a reversed range, and so does a read past the
end; both are `Error`. The width of a length and the values of a byte are
constants, an `Int` is as wide as a length, and blobs are shorter than the
largest `Int`, as every array is. `DecodersAgree` says that the two decoders
return the same for every blob, `FramingRoundTrip` that lists come back as they were
encoded. `FramingAgrees` is both, beside the operations that send such lists
across; a framing has no state, so it is evaluated once, before the first call.

### ChatDelivery

| Code | Model |
|---|---|
| `useEffect`, `mount()` and its three loops | `Mount`, `Attach`, `StartSession`, `CreateMissing`, `Ready`; an await that throws is `MountFails` |
| the cleanup of the effect | `Unmount` |
| `send(text)` up to its first await | `Press`: takes the rendered flag and the time |
| `client.send`, `group.send`; `group.welcome` for each member | `Encrypt`; `Welcome` |
| the two statements of `appendMessage` | `Insert`, `Touch` |
| `transport.send` to each peer in turn | `Ship`: starts a handler, or throws when nobody is subscribed |
| `setSealed`, the refreshes after it, after `send` and by the poll | `SetSealed`, `RefreshConversation` |
| the handler of `attachReceiver` | `Decrypt`, `PickConversation`, `InsertReceived`, `TouchReceived` |
| its `catch`; a rejected `send`; a closed store | `HandlerFails`, `HandlerClosed`; `SendFails`, `SendClosed` |
| the app is killed | `Kill` |

What the protocol client does inside one await is one step here, and what it
opens is `Opens`: the outcome of the modules above. `preKey[p][q]` says of which mount
the prekey is that `q` has for `p`: the ids are those of the mount before, so
`StartSession` replaces it. `record[p][q]` is `p`'s session record for `q`, a current
session and those it holds. A session is named by who started it and in which
mount, and by the message its other side was built from (`built`), since two
messages of one handshake can build it twice, with two ratchets. Its starter's messages carry the
handshake until it has opened one of the other side's. A plain message opens in any
session of the record that fits (`Found`); a handshake needs a prekey under its id
as well, whether or not the session is there; a sealed message opens only as a
handshake of this mount, since the trust root is made anew in each, and the
session it builds replaces the record (`Opened`, `SealedSender.ts:126`).
`StartSession` is `publishOneTimePreKey` and `startSession` in one, and `Attach`
the opening of two stores and the subscription: in the loop nothing else can
use the stores before. A certificate expires a day after the mount; that is left out. A handler that runs does not block a call of `send`, of
the same persona or another. `now` is `Date.now()`, which moves between two
readings of it; two presses in one millisecond, and a clock that is set back, are left out. `lost` is a history of the texts whose
reception failed.

`AnsweredArrives` is about the messages a user would count on: a plain one in a session
whose two sides have heard from each other, and one to the group of which the receiver
was told before. While the screen is there it arrives, unless its handler fails, or a
sealed handshake was stored over the session. That last exception is the code's: `p` sends `q` a
sealed message, its first, and `q` sends `p` a plain one, its first; the plain one arrives, and
`p` goes on in the session `q` started; then the sealed one arrives and leaves
`q` only the session of `p`. What `p` sends in the other, without a handshake,
cannot be decrypted and is only logged. TLC finds this when the exception is taken out.

`ChatHistories` is what the readers of the chat see: a message is shown to its sender
first, then as it is and at most once to each persona it is for, and stays. The
mapping (`Entry`, `history`) turns the rows of a database into such entries, in
which a message to one persona has the same `to` on both sides, where the
conversation has not. Of `appendMessage` only the first statement is a step.

### ConfigPlugin

A file is a sequence of lines, each with its kind; its blocks are nested and
indented by two spaces a level, so `Depth` gives the indent that the regular
expressions look at. An injected line keeps the version of the library that
wrote it. `WithLibsignalPodfile` applies the three injections to what was read and writes
once, as the code does; the Gradle mods are actions of their own, and `Aborted` is a
prebuild that throws between them. `BlockEnds` is what `blockRegex` can match
last: an `end` two to four spaces in, after `post_install`. `LandsInBlock` asks that the
hook is the last line of `post_install` itself (`LastInside`), as the comments of the code
have it, and is checked on the Podfiles for which the guess is right (`Spliceable`): post_install
is inside a block, and no inner `end` is two to four spaces in. `LoopTakesHook` is the
other case. Blank
lines, comments, and files whose indentation is not that of the templates are left out.

## Runs

| Run | Instance | Shows |
|---|---|---|
| `client_safety` | 3 calls, one peer, two handshakes under two identities on one published bundle and one on a bundle that is published later under the same ids, two bundles under the same two identities, plain messages; symmetric in calls; 994,131 states | prekey, pin and session tables agree however calls are stopped and ids published again; the inductive invariant of the proofs about them |
| `client_conversation` | 4 calls, one session this device starts, two answers, a crossing handshake; symmetric in calls; 1,286,111 states | no key reuse, at most once, no lost update, refinement of `MessageKeys`; the inductive invariant of the proofs |
| `client_publish` | 3 calls, nothing published at first, two publications under the same ids; fairness, no symmetry; 238,800 states | what leaves the device is stored, and makes way only for another publication; the chain invariant, mutual exclusion and refinement of `SerialQueue`; every operation settles |
| `sealed_safety` | 3 calls, plain and sealed, one peer under two identities, a sealed handshake with and one without one-time prekey, one whose certificate does not validate; iOS; symmetric in calls; 669,600 states | sealed and plain operations share chains and prekeys without reuse; the decoders of the native boundary agree, and read back what is encoded |
| `store_lifecycle` | 3 handles, 2 calls on the identity, two databases on one alias, the second with a keyProvider that may return either of two passphrases; versions 1 and 2 of the library with 2 and 1 statements; symmetric in handles, calls and keys; 514,820 states | key, schema and identity survive kills, failures, updates, downgrades and reinstalls: refinement of `DatabaseFiles`; the inductive invariant of the proofs |
| `group_safety` | 5 calls, two devices, one of which sends; symmetric in calls; 546,141 states | refinement of `MessageKeys`: no reuse of an iteration, none opened twice; welcomed members stay in the conversation; the inductive invariant of the proofs |
| `chat` | 2 personas and the group, 3 calls of `send`, 2 mounts, a cost of 4 (see below); Android; 507,044 states | refinement of `ChatHistories`: what is shown was sent, and is shown once; own messages in order; the list of conversations agrees; what is sent in an answered session, and to the group after a welcome, arrives unless a sealed handshake took the session; the inductive invariant of the proofs |
| `plugin` | every well-formed Podfile of up to 8 lines with at most one post_install, which is in a block and has no inner `end` two to four spaces in; 2 versions; 401,760 states | one injection each, one version, in its block, the hook last |
| `sealed_session` | as `sealed_safety`, Android | violation, see below |
| `group_race` | 4 calls, as `group_safety` | violation, see below |
| `client_repeat` | as `client_safety` | violation, see below |
| `plugin_hook` | every well-formed Podfile of up to 6 lines with at most one post_install | violation, see below |

**Why these bounds.** A call carries its operation with it, so the bound on
calls is the bound on operations over all restarts. Three calls are enough for
every pair of operations plus one that is stopped and repeated, and for
publish-receive-receive; the conversation run needs four, for start, encrypt,
receive and encrypt. One peer is enough: an operation touches the rows of one
peer, and the tables shared between peers (prekeys) are contended by the two
identities and two handshakes of that one. Counters need no bound of their own:
each encryption is a call. Deadlock is not checked in the client runs, because
a behaviour ends when its calls are used up; that no call is ever stuck is
`EveryOperationSettles`.

For the store, three handles allow an open that is killed, one by another
version of the library, and one more; two handles are enough to have both
databases open at once. A batch of two statements is the least that can be cut
in the middle, and two versions the least that can be cut between batches.

The sealed run has three calls too: a bundle and two sends on the chain it
starts, or two deliveries of an envelope of which the first is stopped.

For groups, two devices are enough for one sender's messages: a device keeps one
row per sender and other members' rows do not touch it. Five calls allow two
welcomes and a message on one side with two receives on the other, in which the
welcomes may arrive in either order, or a welcome, a message and three receives,
of which one is repeated or interrupted.

For the chat, two personas are enough for a pair of histories, and the group
shows a welcome on the way before the message; a third persona adds a
second pair that shares nothing with the first but the transport, and the group
envelope that fails half-way (`Ship` to the first member and not to the second),
which changes no row of the member that was left out. Which call may be whose is
`Presses`: the second may be an answer or go to the group, and the third comes from
the persona of the first, so that messages overtake each other, handshakes cross, plain
or sealed, and a message follows the answer in the session it settled.
`MaxCost` bounds what a behaviour combines: a call or a use of the switch costs one, a failure or a
remount two, and four is spent in all. So three calls come with one use of the switch, which is
how a sealed and a plain handshake cross and a third message follows; two calls with a failure or a remount;
and in every state that is reached the app may be killed or the screen left. `MaxMounts` is two because an envelope outlives the mount
it was made in at most by being shipped in the next.

Framing is checked for lengths of two digits to the base four, every blob of up to
seven bytes: lengths reach 15, past the largest `Int` (7), so the sign and the
sum wrap; the code's four bytes to the base 256 are the same definitions with larger
constants, for which the theorems hold too. The lists of the round trip have up to two records of up to two bytes.

Podfiles of eight lines hold a post_install in a target, with lines of its own, and one in a target of
a target with a block inside; two versions are enough for one upgrade between two prebuilds.

**Fairness.** `StartFn` is weakly fair because the engine runs the reactions of
a settled promise; a step of a running call is weakly fair because each await
is on SQLite or on the native module, which answer or throw. `Invoke`,
`StoreFails` and `Kill` are not fair: nothing needs to be asked, to fail or to
die. Liveness is stated up to `lost`, since a killed process does not resume.
`GroupMessaging` states the same fairness of `Step`, for the run `group_race`.
In `ChatDelivery` only the steps of the handlers are weakly fair (each awaits SQLite
or the native module, which answer or throw; a failure ends the
handler and is in `lost`). That somebody presses send, or that a screen stays mounted, is
not assumed: `AnsweredArrives` speaks of envelopes that have a handler, and ends when the screen is left.

### What the documentation says and the code does not do

- `client_repeat`. A message of a handshake whose one-time prekey has been used
  is refused with `InvalidKeyError`, although its session exists:
  `decryptPreKeySignal` loads the prekey first (`SessionCipher.ts:103`), and
  `loadPreKey` throws. A comment (`SessionCipher.ts:109`), the phase 3 design
  and the README's `DuplicateMessageError` row describe a decryption against
  the existing session. This concerns the second and later messages of an
  initiator that has had no answer, as much as a replay. The native operation
  by itself would accept it (`DecryptPreKeySignalOp`).
- `group_race`. The README and the facade design say that
  `SenderKeyNotFoundError` means that no distribution message was exchanged.
  `receive` decrypts the one of a welcome in one exclusive section and processes
  it in another; a group message that arrived after the welcome can be tried in
  between, and is refused. The example screen waits half a second between the
  two for this reason; `attachReceiver`, which starts a receive per envelope,
  does not keep the message for later.

- `sealed_session`. `decryptMessage` gives the native operation neither the
  session nor the pinned identity of the sender (it learns the sender from the
  operation), so a sealed message opens only when it carries a handshake whose
  prekeys are in the store. The facade design shows sealed messages received
  like others, and the kickoff of phase 4b lists `existingSession?` and
  `existingRemoteIdentity?` as arguments.
- `plugin_hook`. The comment at `plugin/src/index.ts:38` says that the hook goes
  into the existing `post_install`, because CocoaPods invokes only the last
  one. `blockRegex` wants an `end` that is two to four spaces in. In a Podfile
  whose `post_install` begins a line, its own `end` is at column 0 and does not
  match; when no other `end` does, a second block is appended.

  When another `end` does match, the hook goes there, while the comments say that it is spliced
  "just before its closing `end`" and "before the closing `end` of `post_install`" (`index.ts:80`, `:93`).
  A post_install at the top level whose loop ends two spaces in, or one in a target
  whose inner block ends four spaces in, takes the hook into that loop or block, where it
  runs for each round or not at all. `MCPluginHook` evaluates the second of these as an assumption (`LoopTakesHook`), and
  `LandsInBlock` leaves such Podfiles out; templates of Expo and React Native that have the loop
  over the pods' targets in their post_install are of this kind.

More can be read off the models and has no run. `decryptPreKeySignal` writes back
the identity it read, so on first contact it writes none (`SessionCipher.ts:148`),
while the comment above says the trusted identity is re-saved; the peer is pinned
only when this device processes a bundle of it. In the chat, a message takes the
sealed flag the screen last rendered (`Press`), where the design says that the
current value is read at send time. A second message that is sent before the
first was answered is a second message of one handshake: its prekey is consumed,
so it does not arrive, and `attachReceiver` only logs that; a sealed message after the peer
has answered does not open either, and a sealed handshake takes from its receiver the session it
had, with the plain messages still on their way in it (the exception in `AnsweredArrives`). `listMessages` returns the oldest 200 rows where
the design speaks of recent messages. Two calls of
`initializeLocalIdentity` that race both pass the check; the second throws the
constraint error of the database where the phase 3 design has `StoreError`, and
the identity stays the first one. A sealed handshake without `consumedPreKeyId`
(Android, or no one-time prekey) opens again when it is delivered again, where
the README has `DuplicateMessageError`; `UnsealedOnce` says when it does not. A
sealed handshake under a changed identity becomes the session in use while the
pin keeps the old identity; the next encryption throws.

Properties of the prekey and pin tables are stated with this behaviour in mind:
`CurrentSessionTrusted` and `UnpinnedOnlyWhenStopped` speak of pinned peers and
of sessions this device started.

### What the runs establish, and what a stopped call costs

- `OneTimePreKey` allows one exception: a call stopped between `storeSession`
  and `removePreKey` leaves the prekey, and a second handshake can use it.
- `OfferIsBacked` does not say that offered keys are kept: it says that they are there, all
  three, when the bundle is handed out, and that a signed or kyber prekey goes only
  when another is stored under its id. Of a publication stopped
  after its first write, the one-time prekey of an offered bundle is replaced and the other two are not.
- `PreKeyOutlivesHandshake` is about the row of an id. A message of an old handshake that is
  repeated after its id was published again finds its session, and then deletes the
  prekey that took the place of its own, unused: the bundle of the new one is offered without it.
- `UnpinnedOnlyWhenStopped` likewise for `processPreKeyBundle` stopped between
  its two writes.
- `AtMostOnce` is at most once, not exactly once: the session is committed
  before the plaintext is handed out, so a kill in between loses the message.
- A welcome that is interrupted between its two sections is lost, and the member
  needs another. Of two welcomes the one processed first fixes where the chain
  begins, so when the later is processed first the messages between the two do
  not open: `WelcomedOpens` speaks of the messages after all of them.

## Proofs

`ChainInv` is the inductive invariant of the queue. Mutual exclusion is not
inductive: it does not say on whom a queued call waits. `ChainInv` adds that the
calls of this process form one sequence, that each is chained on its
predecessor, that `this.queue` is the last, and that everything before a call
that has that has begun has settled. The refinement of `SerialQueue` follows from it.
These proofs are the first part of `ProtocolClientProofs`.

The refinement of `MessageKeys` (`ClientImplementsMessageKeys`) needs `ClientInv`
for one step: when a call returns, its key differs from that of every call that has
returned. That no other step changes the mapped sets is `OnlyReturnFulfils`.

`ClientInv` is the inductive invariant of the client. Its argument: (1) by
mutual exclusion, proved of the queue and transferred by
`ClientImplementsQueue`, what a running call has read is still what the tables
hold until it writes it itself (`FreshReads`); (2) so what it is about to store
is computed from what is stored (`ResultInv`, `Computed`); (3) so a stored
record covers every message key that was handed out (`SpentInv`), and two calls
never hold one key (`KeysOnce`). `BundleInv` and `OwnerInv` say that sessions
belong to one peer and that a bundle is used once, which is what keeps a new
session from replacing an old one.

`TableInv` is the inductive invariant of the tables that a session record refers
to. `PreKeyOutlivesHandshake` is not inductive: it does not say why the call
that is about to remove a prekey has stored a session. The argument: (1) a
handshake that has passed `loadPreKey` keeps what it loaded in the table until its own
`removePreKey`, because operations take turns (`HandshakeInv`); (2) so at its
`storeSession` no other session is built on that prekey, unless one whose
removal was stopped (`PreKeyInv`); (3) a row that is gone was deleted after a
session was stored that was built on a prekey of its id, and sessions stay (`RemovedInv`, from the `ClientInv` of the
other proofs); (4) between the two writes of `processPreKeyBundle` the pin
is pending (`PinInv`). What a stopped call leaves is therefore exactly its last
write, and the exceptions in `OneTimePreKey` and `UnpinnedOnlyWhenStopped` name it.
These parts are `HandshakeTables`; `OfferedRows` adds that every offered bundle finds a row
under its signed and its kyber id, because the upserts replace a row and nothing deletes one.

`UnsealedInv` is the inductive invariant of `decryptMessage`. The sealed calls go
through the same queue (`SealedImplementsQueue`), so mutual exclusion holds of sealed
and plain calls together. (1) The prekeys a call has loaded are those of the table
until it writes (`UnsealInv`). (2) So a call that opens an envelope has its
prekey claimed while the prekey is in the table, and removes it before it returns.
(3) A prekey that was removed is not stored again, since each publication generates its own,
whatever ids it takes. So no two calls claim one prekey (`ClaimsOnce`), which is
`UnsealedOnce`.

`SealedTableInv` is the inductive invariant of the tables that sealed and plain calls
share. `ClientInv` does not hold here: a sealed decryption does not extend the record it
finds, it replaces it by one with a single session, so sessions do not stay. What
holds instead: (1) a plain call, and a sealed encryption, stores what is computed from
the record that is stored (`ReadInv`, `AnswerInv`); (2) a session this device started
is stored once, by the one call of its bundle (`StartInv`), so when it is gone it
is gone for good; (3) a message encrypted in it is behind the counter of the session,
or the session is gone (`SentInv`), so no two messages have one key (`SentOnce`);
(4) the row of a prekey is deleted by a call that has stored a session built on a prekey of its id, and
that session is there until another sealed handshake is stored over it.
Both invariants are stated in `SealedSenderProofs`. TLC found them to hold on the instance of `sealed_safety`, where they are not
among the properties of the run.

Framing is proved for every blob and every list. (1) `Power` and the
running value of `ReadUint` are recursive functions, which exist because they are defined by
recursion on the naturals, and what they satisfy is shown by
the induction lemma for sets of numbers, from the well-foundedness of `<`. (2) A length is less than `Words`
(`ReadUint`), so either it fits an `Int`, or Kotlin reads a negative number; and
`offset + len` either fits or wraps below zero. In each of these cases the signed bounds check
throws exactly where the unsigned one does, since a blob is shorter than the largest `Int`.
(3) So the two functions from offsets to records are equal, and with them the decoders (`AllDecodersAgree`). (4) For
the round trip, `ReadUint` undoes `Uint` below `Words`; the blob built of the
first records is a prefix of the whole, so at the end of each the next length is found; the decoder returns from
there the records that are left, which is shown from the last to the first.
`KotlinDecodesWhatIsEncoded` combines both.

`LifecycleInv` is the inductive invariant of the store. That a file's key is in
the keychain is not inductive: a handle may be about to write a file with the
key it resolved some steps ago. The invariant adds that the key a handle holds
is still the one in the keychain while its alias is its own (`KeyInv`), which
holds because no second handle is on that database (`HandlesInv`), and that the
open transaction is the committed schema and the statements since
(`MigrationInv`). `FileChanges` lists the ways a file can change; the two action
properties follow from it. So does the refinement of `DatabaseFiles`: a commit
stores exactly the tables of the next version, which the library knows, because the open transaction holds
the committed schema and all statements of its batch; an identity is inserted
through a handle that is open, whose file is at the version of the library; a wipe
is of a store that was open since the app started, so its file is not newer than the library.

`GroupInv` is the inductive invariant of a group. (1) The sections of a device
take turns: the head of its queue is the one in progress (`TurnInv`), so the row
a section has loaded is unchanged when it stores (`HeldInv`). (2) So rows only
grow: a chain is never dropped and its position never goes back (`Keeps`). (3) A
device creates one chain and everything it emits is of it (`OfChainInv`) and
behind its own row (`SentInv`), which gives `NoIterationReuse`. (4) What was
received does not open again (`ReceivedInv`), which gives `OpensOnce`. (5) A chain a
device has of another one began at a welcome, and every iteration from there
to its position was opened or is kept as skipped (`BeganInv`); with (3), that is
`WelcomedOpens`. `StaysOpen` is about a step and follows from (1) and (2). The
refinement of `MessageKeys` adds to (3) and (4) that only a return changes the mapped
sets, by one pair: a call of `send` puts out one message, and what is returned is not taken back.

`ChatInv` is the inductive invariant of the chat. The two histories have no common
transaction, so the invariant relates both to a third thing, the call of `send`:
what a call took at its press never changes, and rows and conversations are only added
(`Keeps`). A text is shipped only when its row is written (`Ships`, `Handled`), and every row
and every envelope agrees with the call of its text (`Agrees`, `OfCall`); so a row that was
received has the sender's row behind it. Calls are pressed in the order of their
times (`Pressed`), which orders a persona's own rows. An append ends in its second
statement, which gives the conversation a time, or is stopped, refused or on its way.
That the welcomes of a call are made to the peers in turn, and end, needs the least and the greatest
element of a finite set of personas; both are shown from the well-foundedness of strict inclusion.

That an entry is shown once is not inductive either: a second envelope of the text, or a
second handler, may be on the way to a persona who has not been shown it yet. `OnceInv` follows the text
of a call from press to screen: until the call has inserted its row there is none,
while a text is still to be shipped to a persona it is neither shown there nor in a handler for it,
and a text and a persona have one handler. With `Agrees` and `OfCall`, this is the refinement of
`ChatHistories`: an insert of the sender adds a text no history has, an insert of a
receiver an entry the sender has, and every other step changes no row's entry.

`PluginInv` is the inductive invariant of the config plugin. A mod reads and writes
its file once, so a file is the template, or it has every line that its mod injects and
the mod leaves it alone; an aborted prebuild cannot tear a file. Every edit is made of insertions of one
line, and the lemmas say what an insertion does to the number of lines of a kind and to
the depth of every line. `LandsInBlock` needs more of the templates than that they are
whole: `PluginLandsInBlock` assumes `NestedTemplates`, that the Podfile is `Spliceable` and that
the repositories and compile options which the regular expressions find first are those of
`allprojects` and `android`. The argument for the hook: every `end` two to four spaces in that
follows post_install and is inside it is the one that closes it, so the first such `end` is
that one, and what is put before it is the last line of the block; the other two injections into the Podfile do not
change which block a line ends. TLC evaluates `NestedTemplates` on the templates
of `plugin`; the files of `plugin_hook` do not satisfy it, and there the code
appends a second block.

Proved for every value of the constants: the theorems of PROJECT.json, with
`ResolvedAssumption`, the two `NoneAssumption`s, `ErrorAssumption`, `ClientAssumption`,
`RequestAssumption`, `LifecycleAssumption`, `FileAssumption`,
`SealedAssumption`, `SealedRequestAssumption`, `FramingAssumption`, `SenderKeyAssumption`, `GroupAssumption`,
`EnvelopeAssumption`, `ChatAssumption` and `PluginAssumption`. They say that null, errors and model values differ, that the
environment's messages are well formed, that a byte has an even number of values and a length at least one byte, that there is a batch for each version,
that the templates of an app are whole files without the plugin's lines, and that there are at least two personas (the code has three, `ChatHomeScreen.tsx:24`). One
conjunct of `ClientAssumption`, and one of `SealedAssumption` for sealed messages, is about the
peer: messages that repeat a handshake name the same prekeys (and, plain ones, the same
identity), as libsignal's sender repeats what it keeps of a handshake until it is answered. A
session that this device starts has a base key of its own, so no handshake of a peer is of it. TLC
evaluates all of them in the runs.

Only model-checked: the liveness properties `EveryOperationSettles` and `AnsweredArrives`, since
fairness and ENABLED are out of the prover's reach, and what the four runs that expect a violation show. Every other
property of a run is stated by a theorem.

## Plan

What could be added is `PairwiseSession`: two devices joined by a lossy network, to
replace the environment of `ProtocolClient` by the same code on the other side.

## Not modelled

- The value types (`ProtocolAddress`, keys, records, messages, certificates,
  `Fingerprint`) are immutable handles; module registration declares functions
  and converts arguments. Neither keeps state that an operation depends on.
- The other demo screens and `runSmoke` are scripts: they call the operations
  above in one fixed order and show the outcome. `InMemoryProtocolStore` is
  the tables of `ProtocolClient` in maps that only those scripts use.
- `ChatStore.open` and its migrations have the form of those of the protocol
  store (`StoreLifecycle`), on another file.
- A screen that is left while its mount is in progress: stores and subscriptions
  that are opened after the cleanup stay open.
- Cryptography, serialization formats and SQLCipher are dependencies.

## Running

    tlc -workers 2 -config MCClientSafety.cfg MCProtocolClient
    tlc -workers 2 -config MCSealedSafety.cfg MCSealedSender
    tlc -workers 2 -config MCStoreLifecycle.cfg MCStoreLifecycle
    tlc -workers 2 -config MCGroupSafety.cfg MCGroupMessaging
    tlc -workers 2 -config MCChat.cfg MCChatDelivery
    tlc -workers 2 -config MCConfigPlugin.cfg MCConfigPlugin
    tlc -workers 2 -config MCPluginHook.cfg MCPluginHook
    tlapm ProtocolClientProofs.tla

and `tlapm` in the same way on `PreKeyProofs`, `SealedSenderProofs`, `RecordListProofs`, `StoreLifecycleProofs`,
`GroupMessagingProofs`, `ChatDeliveryProofs` and `ConfigPluginProofs`.
