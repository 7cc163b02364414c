---------------------------- MODULE SealedSender ----------------------------
(***************************************************************************)
(* A device of ProtocolClient that also sends and receives sealed          *)
(* messages.  SealedSender.encrypt and decryptMessage run in runExclusive  *)
(* on the same tables.  The seal itself is external: an arriving envelope  *)
(* is the message inside it, its real sender, and whether its certificate  *)
(* is valid for the trust root at the time.                                *)
(*                                                                         *)
(* decryptMessage loads every prekey and neither a session nor a pinned    *)
(* identity, so the native operation works on a store without sessions,    *)
(* and what it returns replaces the record of the sender.                  *)
(***************************************************************************)
EXTENDS ProtocolClient, RecordList

CONSTANTS SealedIncoming,  \* [from, msg, certified]: what the peers may seal
          ReportsPreKey    \* the native side returns consumedPreKeyId: iOS, not Android

ASSUME SealedAssumption ==
  /\ ReportsPreKey \in BOOLEAN
  /\ None # "rejected"
  /\ SealedIncoming \subseteq [from : Peers, msg : CiphertextMessage, certified : BOOLEAN]
  /\ \A i \in SealedIncoming : i.msg.type = "preKeySignal" =>
        i.msg.ids \in BundleIds /\ i.msg.ident \in Identities
  \* The messages that repeat a handshake, sealed or plain, name the prekeys of it, and a
  \* session this device starts is not one of them.
  /\ \A b \in Bundles, i \in SealedIncoming : b.sid = i.msg.sid => i.msg.type = "signal"
  /\ \A i, j \in Incoming \cup SealedIncoming :
        i.msg.type = "preKeySignal" /\ j.msg.type = "preKeySignal" /\ i.msg.sid = j.msg.sid =>
          i.msg.ids = j.msg.ids

VARIABLES preKeysBlob,      \* further local variables of call t: the prekeys
          signedPreKeysBlob \* and the signed prekeys it loaded

blobs == <<preKeysBlob, signedPreKeysBlob>>
sealedVars == <<vars, blobs>>

SealedKinds == {"sealedEncrypt", "sealedDecrypt"}
SealedRequests ==
       [kind : {"sealedEncrypt"}, peer : Peers, arg : {None}]
  \cup {[kind |-> "sealedDecrypt", peer |-> i.from, arg |-> i] : i \in SealedIncoming}

ASSUME SealedRequestAssumption == None \notin SealedRequests

-----------------------------------------------------------------------------
(* The native operations *)

\* A sealed message counts as one that left, for what the peers can answer to.
SealedMayArrive(msg) ==
  \/ MayArrive(msg)
  \/ /\ msg.type = "signal"
     /\ \E t \in Calls : Fulfilled(t, "sealedEncrypt") /\ result[t].msg.sid = msg.sid

\* Mutant of SealedDecryptOp: the certificate is not validated.
SealedDecryptOpUnchecked(envelope, oneTime, signed, kyber) ==
  LET m == envelope.msg
  IN  IF ~CanBuild(m, oneTime, signed, kyber)
      THEN Failure("rejected")
      ELSE DecryptWith(Install(None, m.sid, NewState(m.ident, FALSE, m.ids)), m,
                       IF ReportsPreKey THEN m.ids.preKey ELSE None, m.ids.kyber)

\* The kinds of error differ by platform and are not told apart.
SealedDecryptOp(envelope, oneTime, signed, kyber) ==
  LET m == envelope.msg
  IN  IF ~envelope.certified \/ ~CanBuild(m, oneTime, signed, kyber)
      THEN Failure("rejected")
      ELSE DecryptWith(Install(None, m.sid, NewState(m.ident, FALSE, m.ids)), m,
                       IF ReportsPreKey THEN m.ids.preKey ELSE None, m.ids.kyber)

SealedOp(t) ==
  IF Kind(t) = "sealedEncrypt"
  THEN EncryptOp(existingSession[t], remoteIdentity[t], LocalIdentity)
  ELSE SealedDecryptOp(Arg(t), preKeysBlob[t], signedPreKeysBlob[t], kyberBlob[t])

-----------------------------------------------------------------------------
(* The steps of a sealed call; those from storeSession on are ProtocolClient's *)

InvokeSealed(t) ==
  /\ RunExclusive(t)
  /\ \E r \in SealedRequests :
       /\ r.kind = "sealedDecrypt" => SealedMayArrive(r.arg.msg)
       /\ request' = [request EXCEPT ![t] = r]
  /\ UNCHANGED <<tables, pc, locals, blobs>>

BeginSealed(t) ==
  /\ StartFn(t)
  /\ Goto(t, IF Kind(t) = "sealedEncrypt" THEN "loadSession" ELSE "loadPreKeys")
  /\ UNCHANGED <<tables, request, locals, blobs>>

LoadSessionToSeal(t) ==
  /\ At(t, "loadSession")
  /\ IF session[Peer(t)] = None
     THEN Throw(t, "SessionNotFound")
     ELSE /\ existingSession' = [existingSession EXCEPT ![t] = session[Peer(t)]]
          /\ Goto(t, "getIdentity")
          /\ UNCHANGED <<queueVars, tables, request, remoteIdentity, loaded, result>>
  /\ UNCHANGED blobs

LoadPreKeys(t) ==
  /\ At(t, "loadPreKeys")
  /\ preKeysBlob' = [preKeysBlob EXCEPT ![t] = preKeys]
  /\ Goto(t, "loadSignedPreKeys")
  /\ UNCHANGED <<queueVars, tables, request, locals, signedPreKeysBlob>>

LoadSignedPreKeys(t) ==
  /\ At(t, "loadSignedPreKeys")
  /\ signedPreKeysBlob' = [signedPreKeysBlob EXCEPT ![t] = signedPreKeys]
  /\ Goto(t, "loadKyberPreKeys")
  /\ UNCHANGED <<queueVars, tables, request, locals, preKeysBlob>>

\* Mutant of RunSealedOp: the prekey is deleted first.
RunSealedOpRemovesFirst(t) ==
  /\ At(t, "runOp")
  /\ LET answer == SealedOp(t)
     IN  IF answer.err # None
         THEN Throw(t, answer.err)
         ELSE /\ result' = [result EXCEPT ![t] = answer]
              /\ Goto(t, IF answer.consumed # None THEN "removePreKey" ELSE "storeSession")
              /\ UNCHANGED <<queueVars, tables, request, existingSession, remoteIdentity,
                             loaded>>
  /\ UNCHANGED blobs

\* Mutant of RunSealedOp: the ciphertext is handed out before the session is stored.
RunSealedOpReturns(t) ==
  /\ At(t, "runOp")
  /\ LET answer == SealedOp(t)
     IN  IF answer.err # None
         THEN Throw(t, answer.err)
         ELSE /\ result' = [result EXCEPT ![t] = answer]
              /\ Goto(t, IF Kind(t) = "sealedEncrypt" THEN "return" ELSE "storeSession")
              /\ UNCHANGED <<queueVars, tables, request, existingSession, remoteIdentity,
                             loaded>>
  /\ UNCHANGED blobs

RunSealedOp(t) ==
  /\ At(t, "runOp")
  /\ LET answer == SealedOp(t)
     IN  IF answer.err # None
         THEN Throw(t, answer.err)
         ELSE /\ result' = [result EXCEPT ![t] = answer]
              /\ Goto(t, "storeSession")
              /\ UNCHANGED <<queueVars, tables, request, existingSession, remoteIdentity,
                             loaded>>
  /\ UNCHANGED blobs

SealedStoreFails(t) ==
  /\ phase[t] = "running"
  /\ pc[t] \in Reads \cup Writes \cup {"loadPreKeys", "loadSignedPreKeys"}
  /\ Throw(t, "StoreError")
  /\ UNCHANGED blobs

SealedStep(t) ==
  \/ BeginSealed(t) \/ LoadSessionToSeal(t) \/ LoadPreKeys(t) \/ LoadSignedPreKeys(t)
  \/ RunSealedOp(t) \/ SealedStoreFails(t)
  \/ (GetIdentity(t) \/ LoadKyberPreKeys(t) \/ Write(t) \/ Return(t)) /\ UNCHANGED blobs

SealedInit ==
  /\ Init
  /\ preKeysBlob = [t \in Calls |-> {}]
  /\ signedPreKeysBlob = [t \in Calls |-> {}]

IsSealed(t) == request[t] # None /\ Kind(t) \in SealedKinds

SealedNext ==
  \/ \E t \in Calls : IsSealed(t) /\ SealedStep(t)
  \/ \E t \in Calls : InvokeSealed(t)
  \/ \E t \in Calls : ~IsSealed(t) /\ (Invoke(t) \/ Step(t) \/ StoreFails(t)) /\ UNCHANGED blobs
  \/ Kill /\ UNCHANGED blobs

SealedSpec == SealedInit /\ [][SealedNext]_sealedVars

-----------------------------------------------------------------------------
(* Safety *)

Sends(t)    == Fulfilled(t, "encrypt") \/ Fulfilled(t, "sealedEncrypt")
Unsealed(t) == Fulfilled(t, "sealedDecrypt")

\* The handshakes a peer started with us, plain or sealed.
Started ==
  {i.msg.sid : i \in {j \in Incoming \cup SealedIncoming : j.msg.type = "preKeySignal"}}

\* Sealed and plain messages to a peer draw on one sending chain: in a session this
\* device started, no two of them have the same key.  (In one a peer started, a sealed
\* handshake that comes again starts a new chain, which the counters do not name.)
NoKeyReuseSealed ==
  \A t, u \in Calls : t # u /\ Sends(t) /\ Sends(u) /\ SameKey(t, u) =>
    result[t].msg.sid \in Started

\* A sealed handshake on a one-time prekey is decrypted at most once where the native
\* side reports the prekey, because decryptMessage deletes it before it returns; in
\* between it may be stopped, and the envelope may come again.
UnsealedOnce ==
  \A t, u \in Calls :
    (/\ t # u /\ Unsealed(t) /\ Unsealed(u)
     /\ ReportsPreKey /\ Arg(t).msg.ids.preKey # None) => ~SameKey(t, u)

\* A session built on one-time prekey k is in the record; one is stored.
BuiltIn(record, k) == \E s \in Started : Has(record, s) /\ record.states[s].ids.preKey = k
Built(k) == \E p \in Peers : BuiltIn(session[p], k)

\* One is stored that was built on a prekey of this id.
BuiltAs(id) == \E k \in PreKeys : Id[k] = id /\ Built(k)

\* decryptMessage, like decryptPreKeySignal, deletes the row of a one-time prekey only
\* after a session built on a prekey of its id is stored: when it is stopped in between,
\* the envelope can come again.  That session may be gone later, because another sealed
\* handshake was stored over it.
PreKeyOutlivesSealed ==
  \A b \in Offered : Id[b.preKey] \notin Ids(preKeys) =>
    \/ BuiltAs(Id[b.preKey])
    \/ \E t \in Calls : /\ IsSealed(t) /\ Kind(t) = "sealedDecrypt"
                         /\ pc[t] \in Cleanup \cup {"return"}
                         /\ Arg(t).msg.ids.preKey # b.preKey

\* An envelope whose certificate does not validate changes nothing that is stored.
UncertifiedIsHarmless ==
  [][tables' # tables =>
       \A t \in Calls : phase[t] = "running" /\ Kind(t) = "sealedDecrypt" =>
         Arg(t).certified]_sealedVars

\* The lists of prekeys that loadPreKeys returns and the native operation decodes are read
\* as they were written, and whatever else arrives is read alike by the decoders of the two
\* sides or is an error of both.  What a decoder answers depends on the blob alone: they are
\* compared in the states before the first call, and not again in every state.
FramingAgrees ==
  (\A t \in Calls : request[t] = None) => DecodersAgree /\ FramingRoundTrip

-----------------------------------------------------------------------------
(* What the documentation says and the code does not do *)

\* The facade design shows a sealed message sent in a session that exists received as
\* any other.  The native operation is not given the session: the message is refused,
\* unless it repeats a handshake whose prekey is still there.
SealedOpensInSession ==
  \A t \in Calls :
    LET m == Arg(t).msg
        record == session[Peer(t)]
    IN  (/\ At(t, "runOp") /\ Kind(t) = "sealedDecrypt" /\ Arg(t).certified
         /\ Has(record, m.sid) /\ m.ctr \notin record.states[m.sid].rcvd)
        => SealedOp(t).err = None
=============================================================================
