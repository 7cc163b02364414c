----------------------------- MODULE SessionOps -----------------------------
(***************************************************************************)
(* The native operations of SessionOps.kt and SessionOps.swift.  Each one  *)
(* seeds an in-memory libsignal store with the records it is given, runs   *)
(* one libsignal call and returns what that store then holds.  Nothing is  *)
(* persisted here: a native operation is a function of its arguments.      *)
(***************************************************************************)
EXTENDS LibsignalSession

Errors == {"SessionNotFound", "InvalidKey", "InvalidMessage", "DuplicateMessage",
           "UntrustedIdentity", "StoreError"}

ASSUME ErrorAssumption == None \notin Errors

\* The error class the operation throws, or what it returns.
Result ==
  [err : Errors \cup {None},
   session : SessionRecord \cup {None},         \* newSession
   msg : CiphertextMessage \cup {None},         \* the ciphertext, or the message decrypted
   consumed : PreKeys \cup {None},              \* consumedPreKeyId
   kyber : Kybers \cup {None},                  \* kyberPreKeyId
   trusted : Identities \cup {None}]            \* trustedRemoteIdentity

Failure(err) ==
  [err |-> err, session |-> None, msg |-> None, consumed |-> None,
   kyber |-> None, trusted |-> None]

Returned(session, msg, consumed, kyber, trusted) ==
  [err |-> None, session |-> session, msg |-> msg, consumed |-> consumed,
   kyber |-> kyber, trusted |-> trusted]

\* Mutant of Trusted: any identity is accepted.
TrustedAlways(pinned, ident) == TRUE

\* The in-memory store trusts the first identity it sees for an address; it is
\* seeded with the pinned one, when there is one.
Trusted(pinned, ident) == pinned = None \/ pinned = ident

\* A bundle is [sid, ident, ids]; sid is the session its handshake creates.
ProcessPreKeyBundleOp(bundle, session, pinned) ==
  IF ~Trusted(pinned, bundle.ident)
  THEN Failure("UntrustedIdentity")
  ELSE Returned(Install(session, bundle.sid, NewState(bundle.ident, TRUE, bundle.ids)),
                None, None, None, bundle.ident)

EncryptOp(session, pinned, ourIdentity) ==
  IF ~Trusted(pinned, Current(session).ident)
  THEN Failure("UntrustedIdentity")
  ELSE Returned(AdvanceSending(session), NextMessage(session, ourIdentity), None, None, None)

\* Decrypt m with the session of its handshake, which record must hold.
DecryptWith(record, m, consumed, kyber) ==
  IF m.ctr \in record.states[m.sid].rcvd
  THEN Failure("DuplicateMessage")
  ELSE Returned(AdvanceReceiving(record, m.sid, m.ctr), m, consumed, kyber, None)

\* The store that is seeded with these prekeys, and with no session, can decrypt m: the
\* session it builds is the one of the handshake only if they are the prekeys of that.
CanBuild(m, oneTime, signed, kyber) ==
  /\ m.type = "preKeySignal"
  /\ m.ids.preKey \in oneTime \cup {None}
  /\ m.ids.signed \in signed
  /\ m.ids.kyber \in kyber

(***************************************************************************)
(* A handshake the record already holds is promoted and touches no prekey. *)
(* Otherwise the session is built from the seeded prekeys.  consumed       *)
(* stands for the prekey id the message names, in both cases.              *)
(***************************************************************************)
DecryptPreKeySignalOp(m, session, pinned, preKey, signedPreKey, kyberPreKeys) ==
  IF ~Trusted(pinned, m.ident) THEN Failure("UntrustedIdentity")
  ELSE IF Has(session, m.sid) THEN DecryptWith(session, m, m.ids.preKey, None)
  ELSE IF Id[m.ids.kyber] \notin Ids(kyberPreKeys) THEN Failure("InvalidKey")
  ELSE IF ~CanBuild(m, {preKey}, {signedPreKey}, kyberPreKeys) THEN Failure("InvalidMessage")
  ELSE DecryptWith(Install(session, m.sid, NewState(m.ident, FALSE, m.ids)),
                   m, m.ids.preKey, m.ids.kyber)

DecryptSignalOp(m, session, pinned) ==
  IF ~Has(session, m.sid) THEN Failure("InvalidMessage")
  ELSE IF ~Trusted(pinned, session.states[m.sid].ident) THEN Failure("UntrustedIdentity")
  ELSE DecryptWith(session, m, None, None)
=============================================================================
