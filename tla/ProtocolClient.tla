--------------------------- MODULE ProtocolClient ---------------------------
(***************************************************************************)
(* One device: its SQLCipherProtocolStore and the protocol operations that *)
(* run on it, each a function given to runExclusive, one await at a time.  *)
(* An operation reads the records it needs, runs one native operation on   *)
(* them and writes back what changed, record by record; SQLite commits     *)
(* each statement on its own.  Between any two awaits the process may be   *)
(* killed, and any access to the database may throw.                       *)
(*                                                                         *)
(* The remote devices are the environment: they send the messages in       *)
(* Incoming, in any order and any number of times.                         *)
(***************************************************************************)
EXTENDS ExclusiveQueue, SessionOps

CONSTANTS Peers,          \* addresses of remote devices
          LocalIdentity,  \* the identity key of this device
          Bundles,        \* [peer, sid, ident, ids]: prekey bundles of the peers
          Incoming,       \* [from, msg]: what the peers may send
          OwnIds,         \* members of BundleIds this device may publish
          Published       \* those that are published from the start

ASSUME ClientAssumption ==
  /\ LocalIdentity \in Identities
  /\ Bundles \subseteq [peer : Peers, sid : Sids, ident : Identities, ids : BundleIds]
  /\ Incoming \subseteq [from : Peers, msg : CiphertextMessage]
  /\ \A i \in Incoming : i.msg.type = "preKeySignal" =>
        i.msg.ids \in BundleIds /\ i.msg.ident \in Identities
  /\ OwnIds \subseteq BundleIds
  \* Each publication generates its three prekeys; the application chooses their
  \* ids and may choose the ids of an earlier one.
  /\ \A b, c \in OwnIds :
        /\ b.preKey # None
        /\ b # c => b.preKey # c.preKey /\ b.signed # c.signed /\ b.kyber # c.kyber
  /\ Published \subseteq OwnIds
  /\ \A b, c \in Published : b # c =>       \* they are rows of their own
        /\ Id[b.preKey] # Id[c.preKey]
        /\ Id[b.signed] # Id[c.signed]
        /\ Id[b.kyber] # Id[c.kyber]
  \* A session has one peer, and one side that started it.
  /\ \A b, c \in Bundles : b.sid = c.sid => b = c
  /\ \A i, j \in Incoming : i.msg.sid = j.msg.sid => i.from = j.from
  /\ \A b \in Bundles, i \in Incoming :
        b.sid = i.msg.sid => b.peer = i.from /\ i.msg.type = "signal"
  \* The messages that repeat a handshake name the prekeys and the identity of it.
  /\ \A i, j \in Incoming :
        i.msg.type = "preKeySignal" /\ j.msg.type = "preKeySignal" /\ i.msg.sid = j.msg.sid =>
          i.msg.ids = j.msg.ids /\ i.msg.ident = j.msg.ident

VARIABLES session,        \* table sessions, by address
          identity,       \* table trusted_identities, by address
          preKeys,        \* prekeys in table prekeys, at most one for each id
          signedPreKeys,  \* those in table signed_prekeys
          kyberPreKeys,   \* and those in table kyber_prekeys
          kyberUsed,      \* ids of kyber_prekeys whose used_at is set
          request,        \* request[t]: what call t is to do
          pc,             \* pc[t]: the await call t is at
          existingSession,  \* local variables of call t: the record it loaded,
          remoteIdentity,   \* the pinned identity it loaded,
          preKey,           \* the prekey,
          signedPreKey,     \* the signed prekey
          kyberBlob,        \* and the kyber prekeys it loaded,
          result            \* and what the native operation answered

tables == <<session, identity, preKeys, signedPreKeys, kyberPreKeys, kyberUsed>>
loaded == <<preKey, signedPreKey, kyberBlob>>
locals == <<existingSession, remoteIdentity, loaded, result>>
volatile == <<request, pc, locals>>
vars == <<queueVars, tables, volatile>>

Reads  == {"loadSession", "getIdentity", "loadPreKey", "loadSignedPreKey",
           "loadKyberPreKeys"}
Writes == {"storeSession", "removePreKey", "markKyberPreKeyUsed", "saveIdentity",
           "storePreKey", "storeSignedPreKey", "storeKyberPreKey"}
Labels == {"start", "runOp", "return"} \cup Reads \cup Writes

Requests ==
       [kind : {"processPreKeyBundle"}, peer : Peers, arg : Bundles]
  \cup [kind : {"encrypt"}, peer : Peers, arg : {None}]
  \cup [kind : {"decryptPreKeySignal", "decryptSignal"}, peer : Peers,
        arg : {i.msg : i \in Incoming}]
  \cup [kind : {"publishOneTimePreKey"}, peer : {None}, arg : OwnIds]

ASSUME RequestAssumption == None \notin Requests

\* The rows of a table of prekeys after DELETE ... WHERE id, and after INSERT ... ON
\* CONFLICT(id) DO UPDATE with a prekey.
DeleteRow(table, id) == {k \in table : Id[k] # id}
Upsert(table, key) == DeleteRow(table, Id[key]) \cup {key}

TypeOK ==
  /\ QueueTypeOK
  /\ session \in [Peers -> SessionRecord \cup {None}]
  /\ identity \in [Peers -> Identities \cup {None}]
  /\ preKeys \subseteq PreKeys
  /\ signedPreKeys \subseteq SignedKeys
  /\ kyberPreKeys \subseteq Kybers
  /\ kyberUsed \subseteq Ids(kyberPreKeys)
  /\ request \in [Calls -> Requests \cup {None}]
  /\ pc \in [Calls -> Labels]
  /\ existingSession \in [Calls -> SessionRecord \cup {None}]
  /\ remoteIdentity \in [Calls -> Identities \cup {None}]
  /\ preKey \in [Calls -> PreKeys \cup {None}]
  /\ signedPreKey \in [Calls -> SignedKeys \cup {None}]
  /\ kyberBlob \in [Calls -> SUBSET Kybers]
  /\ result \in [Calls -> Result]

-----------------------------------------------------------------------------
(* The environment *)

Fulfilled(t, kind) == phase[t] = "fulfilled" /\ request[t].kind = kind

\* A ciphertext of session sid has left this device.
Emitted(sid) ==
  \E t \in Calls : Fulfilled(t, "encrypt") /\ result[t].msg.sid = sid

\* The bundles that have left this device.
Offered ==
  Published \cup {request[t].arg : t \in {u \in Calls : Fulfilled(u, "publishOneTimePreKey")}}

\* A peer names a bundle once it has been offered, with or without its one-time
\* prekey, and stops repeating its handshake once it has heard from us in that
\* session.
MayArrive(msg) ==
  IF msg.type = "signal" THEN Emitted(msg.sid)
  ELSE \E b \in Offered : /\ msg.ids.signed = b.signed /\ msg.ids.kyber = b.kyber
                          /\ msg.ids.preKey \in {b.preKey, None}

\* The handshake of a bundle generates a new base key each time.
FreshBundle(b) == \A t \in Calls : request[t] # None => request[t].arg # b

Arrives(r) ==
  CASE r.kind = "processPreKeyBundle" -> r.arg.peer = r.peer /\ FreshBundle(r.arg)
    [] r.kind \in {"decryptPreKeySignal", "decryptSignal"} ->
         /\ [from |-> r.peer, msg |-> r.arg] \in Incoming
         /\ (r.kind = "decryptSignal") <=> (r.arg.type = "signal")
         /\ MayArrive(r.arg)
    [] r.kind = "publishOneTimePreKey" ->
         r.arg \notin Published /\ \A t \in Calls : request[t] # None => request[t].arg # r.arg
    [] OTHER -> TRUE

-----------------------------------------------------------------------------
(* The steps of a call *)

At(t, label) == phase[t] = "running" /\ pc[t] = label

Goto(t, label) == pc' = [pc EXCEPT ![t] = label]

Kind(t) == request[t].kind
Peer(t) == request[t].peer
Arg(t)  == request[t].arg

\* The function throws: its promise is rejected, and nothing more is written.
Throw(t, err) ==
  /\ SettleFn(t, "rejected")
  /\ result' = [result EXCEPT ![t] = Failure(err)]
  /\ UNCHANGED <<tables, request, pc, existingSession, remoteIdentity, loaded>>

\* SignalClient and its callers hand an operation to runExclusive.
Invoke(t) ==
  /\ RunExclusive(t)
  /\ \E r \in Requests : Arrives(r) /\ request' = [request EXCEPT ![t] = r]
  /\ UNCHANGED <<tables, pc, locals>>

Begin(t) ==
  /\ StartFn(t)
  /\ Goto(t, IF Kind(t) = "publishOneTimePreKey" THEN "storePreKey" ELSE "loadSession")
  /\ UNCHANGED <<tables, request, locals>>

LoadSession(t) ==
  /\ At(t, "loadSession")
  /\ IF Kind(t) \in {"encrypt", "decryptSignal"} /\ session[Peer(t)] = None
     THEN Throw(t, "SessionNotFound")
     ELSE /\ existingSession' = [existingSession EXCEPT ![t] = session[Peer(t)]]
          /\ Goto(t, "getIdentity")
          /\ UNCHANGED <<queueVars, tables, request, remoteIdentity, loaded, result>>

GetIdentity(t) ==
  /\ At(t, "getIdentity")
  /\ remoteIdentity' = [remoteIdentity EXCEPT ![t] = identity[Peer(t)]]
  /\ Goto(t, IF Kind(t) # "decryptPreKeySignal" THEN "runOp"
             ELSE IF Arg(t).ids.preKey # None THEN "loadPreKey" ELSE "loadSignedPreKey")
  /\ UNCHANGED <<queueVars, tables, request, existingSession, loaded, result>>

\* Mutant of LoadPreKey: the prekey is taken out when it is loaded.
LoadPreKeyTakes(t) ==
  LET id == Id[Arg(t).ids.preKey]
  IN  /\ At(t, "loadPreKey")
      /\ IF id \notin Ids(preKeys)
         THEN Throw(t, "InvalidKey")
         ELSE /\ \E k \in preKeys : Id[k] = id /\ preKey' = [preKey EXCEPT ![t] = k]
              /\ preKeys' = DeleteRow(preKeys, id)
              /\ Goto(t, "loadSignedPreKey")
              /\ UNCHANGED <<queueVars, session, identity, signedPreKeys, kyberPreKeys,
                             kyberUsed, request, existingSession, remoteIdentity,
                             signedPreKey, kyberBlob, result>>

\* The prekey under the id a message names is loaded whether or not the handshake
\* is known.
LoadPreKey(t) ==
  LET id == Id[Arg(t).ids.preKey]
  IN  /\ At(t, "loadPreKey")
      /\ IF id \notin Ids(preKeys)
         THEN Throw(t, "InvalidKey")
         ELSE /\ \E k \in preKeys : Id[k] = id /\ preKey' = [preKey EXCEPT ![t] = k]
              /\ Goto(t, "loadSignedPreKey")
              /\ UNCHANGED <<queueVars, tables, request, existingSession, remoteIdentity,
                             signedPreKey, kyberBlob, result>>

LoadSignedPreKey(t) ==
  LET id == Id[Arg(t).ids.signed]
  IN  /\ At(t, "loadSignedPreKey")
      /\ IF id \notin Ids(signedPreKeys)
         THEN Throw(t, "InvalidKey")
         ELSE /\ \E k \in signedPreKeys :
                   Id[k] = id /\ signedPreKey' = [signedPreKey EXCEPT ![t] = k]
              /\ Goto(t, "loadKyberPreKeys")
              /\ UNCHANGED <<queueVars, tables, request, existingSession, remoteIdentity,
                             preKey, kyberBlob, result>>

LoadKyberPreKeys(t) ==
  /\ At(t, "loadKyberPreKeys")
  /\ kyberBlob' = [kyberBlob EXCEPT ![t] = kyberPreKeys]
  /\ Goto(t, "runOp")
  /\ UNCHANGED <<queueVars, tables, request, existingSession, remoteIdentity, preKey,
                 signedPreKey, result>>

\* The native operation, on the records the call has read.
Op(t) ==
  LET record == existingSession[t]
      pinned == remoteIdentity[t]
  IN  CASE Kind(t) = "processPreKeyBundle" -> ProcessPreKeyBundleOp(Arg(t), record, pinned)
        [] Kind(t) = "encrypt" -> EncryptOp(record, pinned, LocalIdentity)
        [] Kind(t) = "decryptPreKeySignal" ->
             DecryptPreKeySignalOp(Arg(t), record, pinned, preKey[t], signedPreKey[t],
                                   kyberBlob[t])
        [] OTHER -> DecryptSignalOp(Arg(t), record, pinned)

\* Mutant of RunOp: a decryption hands its plaintext out before it stores.
RunOpDecryptReturns(t) ==
  /\ At(t, "runOp")
  /\ LET answer == Op(t)
     IN  IF answer.err # None
         THEN Throw(t, answer.err)
         ELSE /\ result' = [result EXCEPT ![t] = answer]
              /\ Goto(t, IF Kind(t) = "decryptSignal" THEN "return" ELSE "storeSession")
              /\ UNCHANGED <<queueVars, tables, request, existingSession, remoteIdentity,
                             loaded>>

\* Mutant of RunOp: an encryption hands its ciphertext out before it stores.
RunOpEncryptReturns(t) ==
  /\ At(t, "runOp")
  /\ LET answer == Op(t)
     IN  IF answer.err # None
         THEN Throw(t, answer.err)
         ELSE /\ result' = [result EXCEPT ![t] = answer]
              /\ Goto(t, IF Kind(t) = "encrypt" THEN "return" ELSE "storeSession")
              /\ UNCHANGED <<queueVars, tables, request, existingSession, remoteIdentity,
                             loaded>>

RunOp(t) ==
  /\ At(t, "runOp")
  /\ LET answer == Op(t)
     IN  IF answer.err # None
         THEN Throw(t, answer.err)
         ELSE /\ result' = [result EXCEPT ![t] = answer]
              /\ Goto(t, "storeSession")
              /\ UNCHANGED <<queueVars, tables, request, existingSession, remoteIdentity,
                             loaded>>

\* Mutant of ToPin: the identity the bundle brought is not written back.
ToPinOnlyRead(t) == remoteIdentity[t]

\* The identity the call writes back: the one the bundle brought, otherwise the
\* one it read; none when none was pinned.
ToPin(t) == IF Kind(t) = "processPreKeyBundle" THEN result[t].trusted ELSE remoteIdentity[t]

AfterKyber(t)   == IF ToPin(t) # None THEN "saveIdentity" ELSE "return"
AfterPreKey(t)  == IF result[t].kyber # None THEN "markKyberPreKeyUsed" ELSE AfterKyber(t)
\* Mutant of AfterSession: the prekey a handshake used is kept.
AfterSessionKeepsPreKey(t) == AfterPreKey(t)

AfterSession(t) == IF result[t].consumed # None THEN "removePreKey" ELSE AfterPreKey(t)

StoreSession(t) ==
  /\ At(t, "storeSession")
  /\ session' = [session EXCEPT ![Peer(t)] = result[t].session]
  /\ Goto(t, AfterSession(t))
  /\ UNCHANGED <<queueVars, identity, preKeys, signedPreKeys, kyberPreKeys, kyberUsed,
                 request, locals>>

RemovePreKey(t) ==
  /\ At(t, "removePreKey")
  /\ preKeys' = DeleteRow(preKeys, Id[result[t].consumed])
  /\ Goto(t, AfterPreKey(t))
  /\ UNCHANGED <<queueVars, session, identity, signedPreKeys, kyberPreKeys, kyberUsed,
                 request, locals>>

\* Mutant of MarkKyberPreKeyUsed: a DELETE.
MarkKyberPreKeyUsedDeletes(t) ==
  /\ At(t, "markKyberPreKeyUsed")
  /\ kyberUsed' = kyberUsed \ {Id[result[t].kyber]}
  /\ kyberPreKeys' = DeleteRow(kyberPreKeys, Id[result[t].kyber])
  /\ Goto(t, AfterKyber(t))
  /\ UNCHANGED <<queueVars, session, identity, preKeys, signedPreKeys, request, locals>>

\* An UPDATE: it sets used_at where the id is present and removes nothing.
MarkKyberPreKeyUsed(t) ==
  /\ At(t, "markKyberPreKeyUsed")
  /\ kyberUsed' = kyberUsed \cup ({Id[result[t].kyber]} \cap Ids(kyberPreKeys))
  /\ Goto(t, AfterKyber(t))
  /\ UNCHANGED <<queueVars, session, identity, preKeys, signedPreKeys, kyberPreKeys,
                 request, locals>>

SaveIdentity(t) ==
  /\ At(t, "saveIdentity")
  /\ identity' = [identity EXCEPT ![Peer(t)] = ToPin(t)]
  /\ Goto(t, "return")
  /\ UNCHANGED <<queueVars, session, preKeys, signedPreKeys, kyberPreKeys, kyberUsed,
                 request, locals>>

\* The three writes of publishOneTimePreKey; the bundle leaves after the last.
StorePreKey(t) ==
  /\ At(t, "storePreKey")
  /\ preKeys' = Upsert(preKeys, Arg(t).preKey)
  /\ Goto(t, "storeSignedPreKey")
  /\ UNCHANGED <<queueVars, session, identity, signedPreKeys, kyberPreKeys, kyberUsed,
                 request, locals>>

\* Mutant of StoreSignedPreKey: the kyber prekey is not stored.
StoreSignedPreKeyReturns(t) ==
  /\ At(t, "storeSignedPreKey")
  /\ signedPreKeys' = Upsert(signedPreKeys, Arg(t).signed)
  /\ Goto(t, "return")
  /\ UNCHANGED <<queueVars, session, identity, preKeys, kyberPreKeys, kyberUsed,
                 request, locals>>

StoreSignedPreKey(t) ==
  /\ At(t, "storeSignedPreKey")
  /\ signedPreKeys' = Upsert(signedPreKeys, Arg(t).signed)
  /\ Goto(t, "storeKyberPreKey")
  /\ UNCHANGED <<queueVars, session, identity, preKeys, kyberPreKeys, kyberUsed,
                 request, locals>>

StoreKyberPreKey(t) ==
  /\ At(t, "storeKyberPreKey")
  /\ kyberPreKeys' = Upsert(kyberPreKeys, Arg(t).kyber)
  /\ Goto(t, "return")
  /\ UNCHANGED <<queueVars, session, identity, preKeys, signedPreKeys, kyberUsed,
                 request, locals>>

\* The promise of the operation is fulfilled with its ciphertext or plaintext.
Return(t) ==
  /\ At(t, "return")
  /\ SettleFn(t, "fulfilled")
  /\ UNCHANGED <<tables, volatile>>

\* expo-sqlite rejects a statement; the operation does not catch it.
StoreFails(t) ==
  /\ phase[t] = "running"
  /\ pc[t] \in Reads \cup Writes
  /\ Throw(t, "StoreError")

\* The process is killed and started again: the tables are what was committed.
Kill ==
  /\ \E t \in Calls : phase[t] \in {"queued", "running"}
  /\ Restart
  /\ UNCHANGED <<tables, volatile>>

Read(t)  == \/ LoadSession(t) \/ GetIdentity(t) \/ LoadPreKey(t) \/ LoadSignedPreKey(t)
            \/ LoadKyberPreKeys(t)
Write(t) == \/ StoreSession(t) \/ RemovePreKey(t) \/ MarkKyberPreKeyUsed(t) \/ SaveIdentity(t)
            \/ StorePreKey(t) \/ StoreSignedPreKey(t) \/ StoreKyberPreKey(t)
Step(t)  == Begin(t) \/ Read(t) \/ RunOp(t) \/ Write(t) \/ Return(t)

Init ==
  /\ QueueInit
  /\ session = [p \in Peers |-> None]
  /\ identity = [p \in Peers |-> None]
  /\ preKeys = {b.preKey : b \in Published} \ {None}
  /\ signedPreKeys = {b.signed : b \in Published}
  /\ kyberPreKeys = {b.kyber : b \in Published}
  /\ kyberUsed = {}
  /\ request = [t \in Calls |-> None]
  /\ pc = [t \in Calls |-> "start"]
  /\ existingSession = [t \in Calls |-> None]
  /\ remoteIdentity = [t \in Calls |-> None]
  /\ preKey = [t \in Calls |-> None]
  /\ signedPreKey = [t \in Calls |-> None]
  /\ kyberBlob = [t \in Calls |-> {}]
  /\ result = [t \in Calls |-> Failure(None)]

Next == (\E t \in Calls : Invoke(t) \/ Step(t) \/ StoreFails(t)) \/ Kill

Spec == Init /\ [][Next]_vars

\* A call that has begun takes its next await unless the process dies: the
\* database and the native module answer, and reactions run.
FairSpec == Spec /\ \A t \in Calls : WF_vars(Step(t))
-----------------------------------------------------------------------------
(* Safety *)

Encrypted(t) == Fulfilled(t, "encrypt")
Decrypted(t) == Fulfilled(t, "decryptPreKeySignal") \/ Fulfilled(t, "decryptSignal")

SameKey(t, u) == result[t].msg.sid = result[u].msg.sid /\ result[t].msg.ctr = result[u].msg.ctr

\* Two ciphertexts handed to the application never use the same message key,
\* although the sending counter is read from the database, advanced by the
\* native operation and written back in three separate steps, and a crash or a
\* failed write may come between any two of them.
NoMessageKeyReuse ==
  \A t, u \in Calls : t # u /\ Encrypted(t) /\ Encrypted(u) => ~SameKey(t, u)

\* A message is decrypted at most once, however often it is delivered: its key
\* is spent in the stored record before the plaintext is handed out.
AtMostOnce ==
  \A t, u \in Calls : t # u /\ Decrypted(t) /\ Decrypted(u) => ~SameKey(t, u)

KeyOf(t) == <<result[t].msg.sid, result[t].msg.ctr>>

OneUse == INSTANCE MessageKeys WITH
  Calls  <- Calls,
  Keys   <- Sids \X Nat,
  sent   <- {<<t, KeyOf(t)>> : t \in {u \in Calls : Encrypted(u)}},
  opened <- {<<t, KeyOf(t)>> : t \in {u \in Calls : Decrypted(u)}}

\* The operations with their reads and writes, over failures and kills, implement what
\* the caller is promised: each step hands out at most one ciphertext or plaintext, its
\* key has not been used in that way, and what was handed out is never taken back.
ImplementsMessageKeys == OneUse!Spec

\* new has every session of old, at least as far advanced.
Extends(new, old) ==
  old # None => \A s \in Sids : old.states[s] # None =>
    /\ new # None /\ new.states[s] # None
    /\ new.states[s].sent >= old.states[s].sent
    /\ old.states[s].rcvd \subseteq new.states[s].rcvd

\* A stored session record is only replaced by one computed from it: no
\* operation writes back a record that misses what another one stored.
NoLostUpdate == [][\A p \in Peers : Extends(session'[p], session[p])]_vars

\* The handshakes a peer started with us.
Inbound == {i.msg.sid : i \in {j \in Incoming : j.msg.type = "preKeySignal"}}

\* The inbound sessions stored that were built on one-time prekey k.
BuiltOn(k) ==
  {s \in Inbound : \E p \in Peers : /\ Has(session[p], s)
                                     /\ session[p].states[s].ids.preKey = k}

\* A session built on a prekey of this id is stored.
BuiltUnder(id) == \E b \in OwnIds : Id[b.preKey] = id /\ BuiltOn(b.preKey) # {}

\* The row of a one-time prekey that was offered is deleted only after a session built
\* on a prekey of its id is stored: a crash between the two leaves a message that can
\* still be decrypted.  (The row goes by its id: when the id was published again, a
\* repeated message of the old handshake deletes the prekey that took its place.)
PreKeyOutlivesHandshake ==
  \A b \in Offered : Id[b.preKey] \notin Ids(preKeys) => BuiltUnder(Id[b.preKey])

\* The call stopped at the write label, by a crash or by a failure of the write.
Stopped(t, label) == phase[t] \in {"lost", "rejected"} /\ pc[t] = label

\* A one-time prekey carries one session, unless a call that had stored a session
\* built on it was stopped before it could delete it.
OneTimePreKey ==
  \A b \in OwnIds : \A s, r \in BuiltOn(b.preKey) :
    s # r => \E t \in Calls : Stopped(t, "removePreKey") /\ Arg(t).ids.preKey = b.preKey

\* Once pinned, the identity of a peer is never replaced: every operation writes
\* back the identity it read, or one the native operation checked against it.
IdentityPinIsStable ==
  [][\A p \in Peers : identity[p] # None => identity'[p] = identity[p]]_vars

\* The session the next message will be encrypted with belongs to the pinned
\* identity of the peer, whatever sessions other identities started before.
CurrentSessionTrusted ==
  \A p \in Peers : session[p] # None /\ identity[p] # None =>
                     Current(session[p]).ident = identity[p]

\* A session this device started is stored before the identity it was started
\* with is pinned: it is found unpinned only while that write is pending or
\* when the call was stopped there.
UnpinnedOnlyWhenStopped ==
  \A b \in Bundles : Has(session[b.peer], b.sid) /\ identity[b.peer] = None =>
    \E t \in Calls : /\ request[t] # None
                     /\ Arg(t) = b
                     /\ At(t, "saveIdentity") \/ Stopped(t, "saveIdentity")

\* Call t is storing the signed and the kyber prekey of a bundle.
Stores(t, label) == At(t, label) /\ Kind(t) = "publishOneTimePreKey"

\* A bundle leaves the device when its three prekeys are stored, all of them at once,
\* whatever other calls have published under the same ids; and a signed or kyber prekey
\* that was offered is given up to another one that a call stores under its id, and to
\* nothing else: no use, failure or crash deletes it, and messages that name it may be late.
OfferIsBacked ==
  [][/\ \A b \in Offered' \ Offered :
          b.preKey \in preKeys' /\ b.signed \in signedPreKeys' /\ b.kyber \in kyberPreKeys'
     /\ \A b \in Offered :
          /\ b.signed \in signedPreKeys \ signedPreKeys' =>
               \E t \in Calls : /\ Stores(t, "storeSignedPreKey")
                                /\ Id[Arg(t).signed] = Id[b.signed]
                                /\ Arg(t).signed \in signedPreKeys'
          /\ b.kyber \in kyberPreKeys \ kyberPreKeys' =>
               \E t \in Calls : /\ Stores(t, "storeKyberPreKey")
                                /\ Id[Arg(t).kyber] = Id[b.kyber]
                                /\ Arg(t).kyber \in kyberPreKeys'
    ]_vars

-----------------------------------------------------------------------------
(* What the documentation says and the code does not do *)

\* README.md has a DuplicateMessageError for a message already processed, and
\* SessionCipher has a null kyberPreKeyId for a handshake repeated against an
\* existing session.  Neither is reached: the prekey of the first message was
\* removed, and loadPreKey throws before the session is looked at.
RepeatedHandshakeNeedsNoPreKey ==
  \A t \in Calls :
    (/\ phase[t] = "rejected" /\ Kind(t) = "decryptPreKeySignal"
     /\ Has(existingSession[t], Arg(t).sid)) => result[t].err # "InvalidKey"

-----------------------------------------------------------------------------
(***************************************************************************)
(* The inductive invariant.  What a running call has read is still what    *)
(* the tables hold, because no other call runs; what it is about to write  *)
(* is computed from that; and what has been stored covers every message    *)
(* key that was handed out.                                                *)
(***************************************************************************)
Running(t) == phase[t] = "running"

Decrypts == {"decryptPreKeySignal", "decryptSignal"}

RequestInv(t) ==
  IF phase[t] = "idle" THEN request[t] = None ELSE
  /\ request[t] \in Requests
  /\ Kind(t) = "processPreKeyBundle" => Arg(t).peer = Peer(t)
  /\ Kind(t) \in Decrypts => /\ [from |-> Peer(t), msg |-> Arg(t)] \in Incoming
                             /\ Kind(t) = "decryptSignal" <=> Arg(t).type = "signal"

Resolving  == {"loadPreKey", "loadSignedPreKey", "loadKyberPreKeys"}
Publishing == {"storePreKey", "storeSignedPreKey", "storeKyberPreKey"}
Cleanup    == {"removePreKey", "markKyberPreKeyUsed", "saveIdentity"}

LabelInv(t) == Running(t) =>
  /\ pc[t] # "start"
  /\ pc[t] \in Resolving => Kind(t) = "decryptPreKeySignal"
  /\ pc[t] \in Publishing => Kind(t) = "publishOneTimePreKey"
  /\ Kind(t) = "publishOneTimePreKey" => pc[t] \in Publishing \cup {"return"}

\* Between the read of the session and its write, and from the read of the
\* identity to the last write, what was read is still stored.
FreshReads(t) == Running(t) =>
  /\ pc[t] \in {"getIdentity", "runOp", "storeSession"} \cup Resolving =>
       /\ existingSession[t] = session[Peer(t)]
       /\ Kind(t) = "encrypt" => existingSession[t] # None
  /\ pc[t] \in {"runOp", "storeSession"} \cup Resolving \cup Cleanup =>
       remoteIdentity[t] = identity[Peer(t)]

\* answer is what a native operation may make of record old for request r.
Computed(answer, r, old) ==
  /\ Extends(answer.session, old)
  /\ \A s \in Sids : Has(answer.session, s) =>
       Has(old, s) \/ (r.kind \in {"processPreKeyBundle", "decryptPreKeySignal"} /\ s = r.arg.sid)
  /\ r.kind = "encrypt" =>
       /\ answer.msg \in CiphertextMessage
       /\ Has(old, answer.msg.sid) /\ Has(answer.session, answer.msg.sid)
       /\ old.states[answer.msg.sid].sent = answer.msg.ctr
       /\ answer.msg.ctr < answer.session.states[answer.msg.sid].sent
  /\ r.kind \in Decrypts =>
       /\ answer.msg = r.arg
       /\ Has(old, r.arg.sid) => r.arg.ctr \notin old.states[r.arg.sid].rcvd
       /\ Has(answer.session, r.arg.sid)
       /\ r.arg.ctr \in answer.session.states[r.arg.sid].rcvd

ResultInv(t) == Running(t) /\ pc[t] \in {"storeSession"} \cup Cleanup =>
  /\ result[t].session \in SessionRecord
  /\ Kind(t) = "processPreKeyBundle" =>
       result[t].trusted \in Identities /\ Trusted(remoteIdentity[t], result[t].trusted)
  /\ pc[t] = "storeSession" => Computed(result[t], request[t], existingSession[t])
  /\ pc[t] = "removePreKey" => result[t].consumed # None
  /\ pc[t] = "markKyberPreKeyUsed" => result[t].kyber # None
  /\ pc[t] = "saveIdentity" => ToPin(t) # None

\* A session this device may still start is not stored yet.
Unstored(t) ==
  \/ phase[t] = "queued"
  \/ Running(t) /\ pc[t] \in {"loadSession", "getIdentity", "runOp", "storeSession"}

BundleInv ==
  /\ \A b \in Bundles : FreshBundle(b) => ~Has(session[b.peer], b.sid)
  /\ \A t \in Calls : Unstored(t) /\ Kind(t) = "processPreKeyBundle" =>
       ~Has(session[Peer(t)], Arg(t).sid)
  /\ \A t, u \in Calls :
       (/\ phase[t] # "idle" /\ Kind(t) = "processPreKeyBundle"
        /\ phase[u] # "idle" /\ Kind(u) = "processPreKeyBundle"
        /\ Arg(t) = Arg(u)) => t = u

\* Session s is one with peer p.
Owns(p, s) == \/ \E b \in Bundles : b.peer = p /\ b.sid = s
              \/ \E i \in Incoming : i.from = p /\ i.msg.sid = s

OwnerInv == \A p \in Peers : \A s \in Sids : Has(session[p], s) => Owns(p, s)

\* The call has stored the session it computed.
Done(t) == phase[t] = "fulfilled" \/ (Running(t) /\ pc[t] \in Cleanup \cup {"return"})

SpentInv(t) == Done(t) =>
  /\ Kind(t) = "encrypt" =>
       /\ result[t].msg \in CiphertextMessage
       /\ Has(session[Peer(t)], result[t].msg.sid)
       /\ result[t].msg.ctr < session[Peer(t)].states[result[t].msg.sid].sent
  /\ Kind(t) \in Decrypts =>
       /\ result[t].msg = Arg(t)
       /\ Has(session[Peer(t)], Arg(t).sid)
       /\ Arg(t).ctr \in session[Peer(t)].states[Arg(t).sid].rcvd

KeysOnce ==
  \A t, u \in Calls :
    (/\ t # u /\ Done(t) /\ Done(u)
     /\ \/ Kind(t) = "encrypt" /\ Kind(u) = "encrypt"
        \/ Kind(t) \in Decrypts /\ Kind(u) \in Decrypts)
    => ~SameKey(t, u)

CallInv(t) ==
  RequestInv(t) /\ LabelInv(t) /\ FreshReads(t) /\ ResultInv(t) /\ SpentInv(t)

ClientInv ==
  /\ TypeOK
  /\ \A t \in Calls : CallInv(t)
  /\ BundleInv
  /\ OwnerInv
  /\ KeysOnce

-----------------------------------------------------------------------------
(***************************************************************************)
(* The inductive invariant of the tables that a session record refers to:  *)
(* the prekeys its handshake used, which are published by one call and     *)
(* deleted by another, and the identity that is pinned for its peer.       *)
(***************************************************************************)
Publishes(t) == phase[t] # "idle" /\ Kind(t) = "publishOneTimePreKey"

\* The publishing call is at one of the labels given, or has returned.
Written(t, labels) ==
  Publishes(t) /\ (phase[t] = "fulfilled" \/ (Running(t) /\ pc[t] \in labels))

\* What a publishing call has stored is there until it returns.
StoredInv(t) == Running(t) /\ Kind(t) = "publishOneTimePreKey" =>
  /\ pc[t] \in {"storeSignedPreKey", "storeKyberPreKey", "return"} => Arg(t).preKey \in preKeys
  /\ pc[t] \in {"storeKyberPreKey", "return"} => Arg(t).signed \in signedPreKeys
  /\ pc[t] = "return" => Arg(t).kyber \in kyberPreKeys

\* Two calls publish two bundles.
PublishInv ==
  /\ \A t \in Calls : StoredInv(t)
  /\ \A t \in Calls : Publishes(t) => Arg(t) \in OwnIds \ Published
  /\ \A t, u \in Calls : Publishes(t) /\ Publishes(u) /\ Arg(t) = Arg(u) => t = u

\* The inbound sessions of a record are those of the handshakes they were built by.
Fits(record) ==
  \A i \in Incoming : i.msg.type = "preKeySignal" /\ Has(record, i.msg.sid) =>
    /\ record.states[i.msg.sid].ids = i.msg.ids
    /\ record.states[i.msg.sid].ident = i.msg.ident

\* A one-time prekey that is named has been offered.
Named(k) == k # None => \E b \in Offered : b.preKey = k

\* What the stored records say of the handshakes behind their inbound sessions.
SessionsInv ==
  \A p \in Peers :
    /\ Fits(session[p])
    /\ \A s \in Inbound : Has(session[p], s) => Named(session[p].states[s].ids.preKey)

\* The prekey the call has to remove.
Consumes(t) == IF Kind(t) = "decryptPreKeySignal" THEN Arg(t).ids.preKey ELSE None

\* What a call holds on the way to its last write: a handshake keeps the prekey it
\* loaded until it removes it, and the session it stores has an identity it checked.
HandshakeInv(t) ==
  /\ phase[t] # "idle" => Named(Consumes(t))
  /\ Running(t) /\ pc[t] \in {"loadSignedPreKey", "loadKyberPreKeys", "runOp"} =>
       Consumes(t) = None \/ preKey[t] \in preKeys
  /\ Running(t) /\ pc[t] = "storeSession" =>
       Consumes(t) \in preKeys \cup {None} \/ Has(existingSession[t], Arg(t).sid)
  /\ Running(t) /\ pc[t] \in {"storeSession"} \cup Cleanup =>
       /\ result[t].consumed = Consumes(t)
       /\ Kind(t) = "processPreKeyBundle" =>
            /\ result[t].kyber = None
            /\ Current(IF pc[t] = "storeSession" THEN result[t].session
                       ELSE session[Peer(t)]).ident = result[t].trusted
  /\ Running(t) /\ pc[t] = "storeSession" =>
       /\ Fits(result[t].session)
       /\ Trusted(remoteIdentity[t], Current(result[t].session).ident)

\* Call t is about to make its last write, or was stopped before it.
Pending(t, label) == phase[t] \in {"running", "lost", "rejected"} /\ pc[t] = label

\* A prekey that is still there has no session, unless its removal is pending.
PreKeyInv ==
  \A b \in OwnIds : b.preKey \in preKeys /\ BuiltOn(b.preKey) # {} =>
    \E t \in Calls : Pending(t, "removePreKey") /\ Consumes(t) = b.preKey

\* An id that has no row any more has one.
RowInv(b) == Id[b.preKey] \in Ids(preKeys) \/ BuiltUnder(Id[b.preKey])

RemovedInv ==
  /\ \A b \in Published : RowInv(b)
  /\ \A t \in Calls : Written(t, {"storeSignedPreKey", "storeKyberPreKey", "return"}) =>
       RowInv(Arg(t))

\* A session this device started has its identity pinned, or about to be.
PinInv ==
  \A b \in Bundles : Has(session[b.peer], b.sid) /\ identity[b.peer] = None =>
    \E t \in Calls : /\ phase[t] # "idle" /\ Kind(t) = "processPreKeyBundle" /\ Arg(t) = b
                     /\ Pending(t, "saveIdentity")

\* How far each handshake, its prekeys and its pin have come.
HandshakeTables ==
  /\ TypeOK
  /\ PublishInv
  /\ SessionsInv
  /\ \A t \in Calls : HandshakeInv(t)
  /\ PreKeyInv
  /\ RemovedInv
  /\ OneTimePreKey
  /\ CurrentSessionTrusted
  /\ PinInv

\* There is a signed and a kyber prekey under the ids of every bundle that was offered.
OfferedRows ==
  \A b \in Offered :
    Id[b.signed] \in Ids(signedPreKeys) /\ Id[b.kyber] \in Ids(kyberPreKeys)

TableInv == HandshakeTables /\ OfferedRows

-----------------------------------------------------------------------------
(* Liveness *)

\* Every operation handed to runExclusive settles, whatever the operations before
\* it ran into, unless the process dies.
EveryOperationSettles ==
  \A t \in Calls : phase[t] = "queued" ~> phase[t] \in Outcomes \cup {"lost"}
=============================================================================
