-------------------------- MODULE LibsignalSession --------------------------
(***************************************************************************)
(* The part of libsignal's session that this library's correctness turns   *)
(* on.  libsignal is a dependency, not part of the repository; these       *)
(* operators say what its double ratchet does to a session record, as the  *)
(* native operations of the library use it.                                *)
(*                                                                         *)
(* A record holds the current session and the archived ones, by session    *)
(* (the base key of its X3DH handshake).  The two chains of a session are  *)
(* abstracted to a counter of messages sent, which names the message key   *)
(* an encryption uses, and the set of counters received, which names the   *)
(* message keys that are spent.                                            *)
(***************************************************************************)
EXTENDS Naturals

CONSTANTS Sids,        \* sessions, one for each handshake
          Identities,  \* identity public keys
          PreKeys,     \* one-time prekeys, each a key pair generated once
          SignedKeys,  \* signed prekeys
          Kybers,      \* kyber prekeys
          Id,          \* the id of each, which is what a message carries
          None         \* null

\* The ids of a set of prekeys.
Ids(keys) == {Id[k] : k \in keys}

\* The prekeys of a bundle; the one-time prekey is optional.
BundleIds == [preKey : PreKeys \cup {None}, signed : SignedKeys, kyber : Kybers]

SessionState ==
  [ident   : Identities,             \* the remote identity of the handshake
   pending : BOOLEAN,                \* initiator, and no message came back yet
   ids     : BundleIds,              \* the prekeys it was computed with
   sent    : Nat,                    \* the next sending counter
   rcvd    : SUBSET Nat]             \* the counters decrypted

SessionRecord ==
  {r \in [current : Sids, states : [Sids -> SessionState \cup {None}]] :
     r.states[r.current] # None}

CiphertextMessage ==
  [type : {"preKeySignal", "signal"}, sid : Sids, ctr : Nat,
   ids : BundleIds \cup {None}, ident : Identities \cup {None}]

\* null is no id, and neither a session nor a record of sessions.
ASSUME NoneAssumption ==
  None \notin Sids \cup Identities \cup PreKeys \cup SignedKeys \cup Kybers
             \cup SessionState \cup SessionRecord \cup CiphertextMessage

Has(record, sid) == record # None /\ record.states[sid] # None

\* Make sid, in state st, the current session; the one it replaces is archived.
Install(record, sid, st) ==
  LET states == IF record = None THEN [s \in Sids |-> None] ELSE record.states
  IN  [current |-> sid, states |-> [states EXCEPT ![sid] = st]]

NewState(ident, pending, ids) ==
  [ident |-> ident, pending |-> pending, ids |-> ids, sent |-> 0, rcvd |-> {}]

Current(record) == record.states[record.current]

\* Message keys are taken from the current session; a session nothing has come
\* back on yet still repeats its handshake.
NextMessage(record, ourIdentity) ==
  LET st == Current(record)
  IN  [type  |-> IF st.pending THEN "preKeySignal" ELSE "signal",
       sid   |-> record.current,
       ctr   |-> st.sent,
       ids   |-> IF st.pending THEN st.ids ELSE None,
       ident |-> IF st.pending THEN ourIdentity ELSE None]

AdvanceSending(record) ==
  LET st == Current(record)
  IN  Install(record, record.current,
              [ident |-> st.ident, pending |-> st.pending, ids |-> st.ids,
               sent |-> st.sent + 1, rcvd |-> st.rcvd])

\* Decryption spends the message key, promotes the session it was found in and
\* acknowledges the handshake.
AdvanceReceiving(record, sid, ctr) ==
  LET st == record.states[sid]
  IN  Install(record, sid,
              [ident |-> st.ident, pending |-> FALSE, ids |-> st.ids,
               sent |-> st.sent, rcvd |-> st.rcvd \cup {ctr}])
=============================================================================
