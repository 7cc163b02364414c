---------------------------- MODULE PreKeyProofs ----------------------------
(***************************************************************************)
(* Proofs about the tables of a device that a session record refers to.    *)
(* One call publishes a prekey, others load it, store the session built on *)
(* it and delete it, and a crash may come between any two of these steps;  *)
(* the identity of a peer is pinned after the session it was checked for   *)
(* is stored.  HandshakeTables says how far each of them has come, and     *)
(* mutual exclusion with ClientInv makes it inductive.                     *)
(***************************************************************************)
EXTENDS ProtocolClientProofs

USE DEF Phases, Outcomes, Reads, Writes, Labels, Resolving, Publishing, Cleanup, Decrypts

-----------------------------------------------------------------------------
(* The native operations *)

\* A record keeps its inbound sessions as their handshakes built them when a session
\* is installed that does so too; the one installed becomes the current one.
LEMMA InstallFits ==
  ASSUME NEW record \in SessionRecord \cup {None}, NEW sid \in Sids,
         NEW st \in SessionState, Fits(record),
         \A i \in Incoming : i.msg.type = "preKeySignal" /\ i.msg.sid = sid =>
           st.ids = i.msg.ids /\ st.ident = i.msg.ident
  PROVE  /\ Fits(Install(record, sid, st))
         /\ Current(Install(record, sid, st)) = st
<1> DEFINE new == Install(record, sid, st)
<1>1. /\ new \in SessionRecord
      /\ new.states[sid] = st
      /\ \A s \in Sids : s # sid =>
           new.states[s] = IF record = None THEN None ELSE record.states[s]
  BY InstallType
<1>2. new.current = sid
  BY DEF Install
<1>. HIDE DEF new
<1>3. ASSUME NEW i \in Incoming, i.msg.type = "preKeySignal", Has(new, i.msg.sid)
      PROVE  /\ new.states[i.msg.sid].ids = i.msg.ids
             /\ new.states[i.msg.sid].ident = i.msg.ident
  <2>1. i.msg.sid \in Sids
    BY ClientAssumption DEF CiphertextMessage
  <2>2. CASE i.msg.sid = sid
    BY <1>1, <1>3, <2>2
  <2>3. CASE i.msg.sid # sid
    <3>1. Has(record, i.msg.sid) /\ new.states[i.msg.sid] = record.states[i.msg.sid]
      BY <1>1, <1>3, <2>1, <2>3 DEF Has
    <3>. QED
      BY <1>3, <3>1 DEF Fits
  <2>. QED  BY <2>2, <2>3
<1>. QED
  BY <1>1, <1>2, <1>3 DEF Fits, Current, new

\* Decryption promotes the session it was found in and leaves its handshake as it is.
LEMMA DecryptWithFits ==
  ASSUME NEW record \in SessionRecord, NEW m \in CiphertextMessage,
         Has(record, m.sid), Fits(record),
         NEW consumed, NEW kyber,
         DecryptWith(record, m, consumed, kyber).err = None
  PROVE  LET answer == DecryptWith(record, m, consumed, kyber)
         IN  /\ Fits(answer.session)
             /\ Current(answer.session).ident = record.states[m.sid].ident
             /\ answer.consumed = consumed
<1> DEFINE old == record.states[m.sid]
           st == [ident |-> old.ident, pending |-> FALSE, ids |-> old.ids,
                  sent |-> old.sent, rcvd |-> old.rcvd \cup {m.ctr}]
           answer == DecryptWith(record, m, consumed, kyber)
<1>1. m.sid \in Sids /\ m.ctr \in Nat
  BY DEF CiphertextMessage
<1>2. old \in SessionState
  BY <1>1 DEF Has, SessionRecord
<1>3. st \in SessionState /\ st.ident = old.ident /\ st.ids = old.ids
  BY <1>1, <1>2 DEF SessionState
<1>4. /\ answer.session = Install(record, m.sid, st)
      /\ answer.consumed = consumed
  BY ErrorAssumption DEF DecryptWith, Failure, Errors, Returned, AdvanceReceiving
<1>5. \A i \in Incoming : i.msg.type = "preKeySignal" /\ i.msg.sid = m.sid =>
        st.ids = i.msg.ids /\ st.ident = i.msg.ident
  BY <1>3 DEF Fits
<1>. HIDE DEF st, answer
<1>6. Fits(answer.session) /\ Current(answer.session) = st
  BY <1>1, <1>3, <1>4, <1>5, InstallFits
<1>. QED
  BY <1>3, <1>4, <1>6 DEF answer

\* The session a native operation makes the current one has an identity that was
\* checked against the pinned one, and names the prekey to remove for a handshake only.
LEMMA OpFits ==
  ASSUME ClientInv, NEW t \in Calls, At(t, "runOp"), Op(t).err = None,
         Fits(existingSession[t])
  PROVE  /\ Fits(Op(t).session)
         /\ Trusted(remoteIdentity[t], Current(Op(t).session).ident)
         /\ Op(t).consumed = Consumes(t)
         /\ Consumes(t) \in {preKey[t], None} \/ Has(existingSession[t], Arg(t).sid)
         /\ Kind(t) = "processPreKeyBundle" =>
              /\ Op(t).kyber = None
              /\ Current(Op(t).session).ident = Op(t).trusted
<1> DEFINE record == existingSession[t]
           pinned == remoteIdentity[t]
<1>1. /\ CallInv(t)
      /\ phase[t] = "running" /\ pc[t] = "runOp"
      /\ Running(t)
      /\ record \in SessionRecord \cup {None}
  BY DEF ClientInv, TypeOK, At, Running
<1>2. /\ Kind(t) \in {"processPreKeyBundle", "encrypt", "decryptPreKeySignal", "decryptSignal"}
      /\ Kind(t) = "processPreKeyBundle" => Arg(t) \in Bundles
      /\ Kind(t) \in Decrypts => Arg(t) \in CiphertextMessage
      /\ Kind(t) = "decryptPreKeySignal" =>
           Arg(t).ids \in BundleIds /\ Arg(t).ident \in Identities
  BY <1>1, RequestTypes DEF CallInv, LabelInv
<1>3. Kind(t) = "encrypt" => record # None
  BY <1>1 DEF CallInv, FreshReads
<1>4. CASE Kind(t) = "processPreKeyBundle"
  <2> DEFINE st == NewState(Arg(t).ident, TRUE, Arg(t).ids)
  <2>1. Arg(t).sid \in Sids /\ st \in SessionState /\ st.ident = Arg(t).ident
    BY <1>2, <1>4, ClientAssumption DEF NewState, SessionState
  <2>2. \A i \in Incoming : i.msg.type = "preKeySignal" => i.msg.sid # Arg(t).sid
    BY <1>2, <1>4, ClientAssumption
  <2>3. /\ Trusted(pinned, Arg(t).ident)
        /\ Op(t) = Returned(Install(record, Arg(t).sid, st), None, None, None, Arg(t).ident)
    BY <1>4, ErrorAssumption DEF Op, ProcessPreKeyBundleOp, Failure, Errors
  <2>. HIDE DEF st
  <2>4. /\ Fits(Install(record, Arg(t).sid, st))
        /\ Current(Install(record, Arg(t).sid, st)) = st
    BY <1>1, <2>1, <2>2, InstallFits
  <2>. QED
    BY <1>4, <2>1, <2>3, <2>4 DEF Returned, Consumes
<1>5. CASE Kind(t) = "encrypt"
  <2> DEFINE old == Current(record)
             st == [ident |-> old.ident, pending |-> old.pending, ids |-> old.ids,
                    sent |-> old.sent + 1, rcvd |-> old.rcvd]
  <2>1. record \in SessionRecord
    BY <1>1, <1>3, <1>5
  <2>2. record.current \in Sids /\ old \in SessionState /\ Has(record, record.current)
    BY <2>1, NoneAssumption DEF SessionRecord, Has, Current
  <2>3. st \in SessionState /\ st.ident = old.ident /\ st.ids = old.ids
    BY <2>2 DEF SessionState
  <2>4. /\ Trusted(pinned, old.ident)
        /\ Op(t) = Returned(Install(record, record.current, st),
                            NextMessage(record, LocalIdentity), None, None, None)
    BY <1>5, ErrorAssumption DEF Op, EncryptOp, Failure, Errors, AdvanceSending
  <2>5. \A i \in Incoming : i.msg.type = "preKeySignal" /\ i.msg.sid = record.current =>
          st.ids = i.msg.ids /\ st.ident = i.msg.ident
    BY <2>2, <2>3 DEF Fits, Current
  <2>. HIDE DEF st, old
  <2>6. /\ Fits(Install(record, record.current, st))
        /\ Current(Install(record, record.current, st)) = st
    BY <2>1, <2>2, <2>3, <2>5, InstallFits
  <2>. QED
    BY <1>5, <2>3, <2>4, <2>6 DEF Returned, Consumes
<1>6. CASE Kind(t) = "decryptPreKeySignal"
  <2> DEFINE m == Arg(t)
  <2>1. /\ m \in CiphertextMessage /\ m.sid \in Sids
        /\ Op(t) = DecryptPreKeySignalOp(m, record, pinned, preKey[t], signedPreKey[t],
                                         kyberBlob[t])
        /\ Trusted(pinned, m.ident)
    BY <1>2, <1>6, ErrorAssumption
       DEF Op, CiphertextMessage, DecryptPreKeySignalOp, Failure, Errors
  <2>2. /\ [from |-> Peer(t), msg |-> m] \in Incoming
        /\ m.type = "preKeySignal"
    <3>1. /\ [from |-> Peer(t), msg |-> m] \in Incoming
          /\ m.type # "signal"
      BY <1>1, <1>6 DEF CallInv, RequestInv
    <3>. QED
      BY <2>1, <3>1 DEF CiphertextMessage
  <2>3. \A i \in Incoming : i.msg.type = "preKeySignal" /\ i.msg.sid = m.sid =>
          m.ids = i.msg.ids /\ m.ident = i.msg.ident
    BY <2>2, ClientAssumption
  <2>4. CASE Has(record, m.sid)
    <3>1. record \in SessionRecord
      BY <1>1, <2>4 DEF Has
    <3>2. Op(t) = DecryptWith(record, m, m.ids.preKey, None)
      BY <2>1, <2>4, ErrorAssumption DEF DecryptPreKeySignalOp, Failure, Errors
    <3>3. record.states[m.sid].ident = m.ident
      BY <2>2, <2>4 DEF Fits
    <3>4. /\ Fits(Op(t).session)
          /\ Current(Op(t).session).ident = m.ident
          /\ Op(t).consumed = m.ids.preKey
      BY <2>1, <2>4, <3>1, <3>2, <3>3, DecryptWithFits
    <3>. QED
      BY <1>6, <2>1, <2>4, <3>4 DEF Consumes
  <2>5. CASE ~Has(record, m.sid)
    <3> DEFINE st == NewState(m.ident, FALSE, m.ids)
               base == Install(record, m.sid, st)
    <3>1. st \in SessionState /\ st.ids = m.ids /\ st.ident = m.ident
      BY <1>2, <1>6 DEF NewState, SessionState
    <3>2. /\ Op(t) = DecryptWith(base, m, m.ids.preKey, m.ids.kyber)
          /\ m.ids.preKey \in {preKey[t], None}
      <4>1. Failure("InvalidKey").err # None /\ Failure("InvalidMessage").err # None
        BY ErrorAssumption DEF Failure, Errors
      <4>2. /\ Id[m.ids.kyber] \in Ids(kyberBlob[t])
            /\ CanBuild(m, {preKey[t]}, {signedPreKey[t]}, kyberBlob[t])
        BY <2>1, <2>5, <4>1 DEF DecryptPreKeySignalOp
      <4>. QED
        BY <2>1, <2>5, <4>2 DEF DecryptPreKeySignalOp, CanBuild
    <3>. HIDE DEF st
    <3>3. Fits(base)
      BY <1>1, <2>1, <2>3, <3>1, InstallFits
    <3>4. base \in SessionRecord /\ base.states[m.sid] = st
      BY <1>1, <2>1, <3>1, InstallType
    <3>5. Has(base, m.sid) /\ base.states[m.sid].ident = m.ident
      BY <3>1, <3>4, NoneAssumption DEF Has
    <3>. HIDE DEF base
    <3>6. /\ Fits(Op(t).session)
          /\ Current(Op(t).session).ident = m.ident
          /\ Op(t).consumed = m.ids.preKey
      BY <2>1, <3>2, <3>3, <3>4, <3>5, DecryptWithFits
    <3>. QED
      BY <1>6, <2>1, <3>2, <3>6 DEF Consumes
  <2>. QED  BY <2>4, <2>5
<1>7. CASE Kind(t) = "decryptSignal"
  <2> DEFINE m == Arg(t)
  <2>1. /\ m \in CiphertextMessage
        /\ Has(record, m.sid)
        /\ Trusted(pinned, record.states[m.sid].ident)
        /\ Op(t) = DecryptWith(record, m, None, None)
    BY <1>2, <1>7, ErrorAssumption DEF Op, DecryptSignalOp, Failure, Errors
  <2>2. record \in SessionRecord
    BY <1>1, <2>1 DEF Has
  <2>3. /\ Fits(Op(t).session)
        /\ Current(Op(t).session).ident = record.states[m.sid].ident
        /\ Op(t).consumed = None
    BY <2>1, <2>2, DecryptWithFits
  <2>. QED
    BY <1>7, <2>1, <2>3 DEF Consumes
<1>. QED
  BY <1>2, <1>4, <1>5, <1>6, <1>7

-----------------------------------------------------------------------------
(* What a step leaves as it is *)

\* A bundle that has been offered stays offered, and so do the prekeys it names.
LEMMA OfferedStays ==
  ASSUME \A u \in Calls : phase[u] = "fulfilled" =>
           phase'[u] = "fulfilled" /\ request'[u] = request[u]
  PROVE  /\ Offered \subseteq Offered'
         /\ \A k : Named(k) => Named(k)'
<1>1. Offered \subseteq Offered'
  BY DEF Offered, Fulfilled
<1>. QED
  BY <1>1 DEF Named

\* A session that was built on a prekey is kept.
LEMMA BuiltOnGrows ==
  ASSUME \A p \in Peers : /\ Fits(session[p]) /\ Fits(session'[p])
                          /\ Extends(session'[p], session[p])
  PROVE  \A k : BuiltOn(k) \subseteq BuiltOn(k)'
<1>. SUFFICES ASSUME NEW k, NEW s \in BuiltOn(k) PROVE s \in BuiltOn(k)'
  OBVIOUS
<1>1. PICK i \in Incoming : i.msg.type = "preKeySignal" /\ i.msg.sid = s
  BY DEF BuiltOn, Inbound
<1>2. PICK p \in Peers : Has(session[p], s) /\ session[p].states[s].ids.preKey = k
  BY DEF BuiltOn
<1>3. s \in Sids
  BY <1>1, ClientAssumption DEF CiphertextMessage
<1>4. Has(session'[p], s)
  BY <1>2, <1>3 DEF Has, Extends
<1>5. session'[p].states[s].ids = i.msg.ids /\ session[p].states[s].ids = i.msg.ids
  BY <1>1, <1>2, <1>4 DEF Fits
<1>6. s \in Inbound
  BY <1>1 DEF Inbound
<1>. QED
  BY <1>2, <1>4, <1>5, <1>6 DEF BuiltOn

\* A call that takes no step keeps what it holds, as long as the tables do or it is
\* not running.
LEMMA HandshakeStays ==
  ASSUME NEW u \in Calls, HandshakeInv(u),
         phase'[u] = phase[u], request'[u] = request[u], pc'[u] = pc[u],
         remoteIdentity'[u] = remoteIdentity[u], result'[u] = result[u],
         existingSession'[u] = existingSession[u], preKey'[u] = preKey[u],
         (session' = session /\ preKeys \subseteq preKeys') \/ ~Running(u),
         Named(Consumes(u)) => Named(Consumes(u))'
  PROVE  HandshakeInv(u)'
<1>1. Kind(u)' = Kind(u) /\ Peer(u)' = Peer(u) /\ Consumes(u)' = Consumes(u)
      /\ Running(u)' = Running(u) /\ Arg(u)' = Arg(u)
  BY DEF Kind, Peer, Consumes, Arg, Running
<1>. QED
  BY <1>1 DEF HandshakeInv

\* A step of one call that writes neither a session, nor an identity, nor a prekey.
LEMMA QuietStep ==
  ASSUME HandshakeTables, TypeOK', NEW t \in Calls, OnlyCall(t),
         request' = request, session' = session, identity' = identity,
         preKeys' = preKeys,
         \/ signedPreKeys' = signedPreKeys /\ kyberPreKeys' = kyberPreKeys
         \/ MutualExclusion /\ phase[t] = "running",
         phase[t] \in {"queued", "running"},
         phase'[t] \in {"running", "fulfilled", "rejected"},
         HandshakeInv(t)', StoredInv(t)',
         Written(t, {"storeSignedPreKey", "storeKyberPreKey", "return"})' =>
           Written(t, {"storeSignedPreKey", "storeKyberPreKey", "return"}),
         \A l \in {"removePreKey", "saveIdentity"} : Pending(t, l) => Pending(t, l)'
  PROVE  HandshakeTables'
<1>1. \A u \in Calls : /\ Kind(u)' = Kind(u) /\ Arg(u)' = Arg(u) /\ Peer(u)' = Peer(u)
                       /\ Consumes(u)' = Consumes(u)
                       /\ Publishes(u)' = Publishes(u)
                       /\ (phase'[u] = "idle") = (phase[u] = "idle")
  BY DEF OnlyCall, Kind, Arg, Peer, Consumes, Publishes
<1>2. \A k : /\ Named(k) => Named(k)'
             /\ BuiltOn(k)' = BuiltOn(k)
  BY OfferedStays DEF OnlyCall, BuiltOn
<1>12. \A b : RowInv(b)' = RowInv(b)
  BY <1>2 DEF RowInv, BuiltUnder
<1>3. \A u \in Calls : u # t => \A labels : Written(u, labels)' = Written(u, labels)
  BY <1>1 DEF OnlyCall, Written, Running
<1>4. \A u \in Calls : \A l \in {"removePreKey", "saveIdentity"} :
        /\ Pending(u, l) => Pending(u, l)'
        /\ Stopped(u, l) => Stopped(u, l)'
  BY DEF OnlyCall, Pending, Stopped
<1>5. PublishInv'
  <2>1. ASSUME NEW u \in Calls, u # t PROVE StoredInv(u)'
    <3>1. Running(u)' = Running(u) /\ pc'[u] = pc[u]
      BY <2>1 DEF OnlyCall, Running
    <3>2. Running(u) => signedPreKeys' = signedPreKeys /\ kyberPreKeys' = kyberPreKeys
      BY <2>1 DEF MutualExclusion, Running
    <3>3. StoredInv(u)
      BY DEF HandshakeTables, PublishInv
    <3>. QED
      BY <1>1, <3>1, <3>2, <3>3 DEF StoredInv
  <2>. QED
    BY <1>1, <2>1 DEF HandshakeTables, PublishInv
<1>6. \A u \in Calls : HandshakeInv(u)'
  <2>1. ASSUME NEW u \in Calls, u # t PROVE HandshakeInv(u)'
    <3>1. Named(Consumes(u)) => Named(Consumes(u))'
      BY <1>1, <1>2 DEF Named
    <3>. QED
      BY <2>1, <3>1, HandshakeStays DEF HandshakeTables, OnlyCall
  <2>. QED  BY <2>1
<1>7. PreKeyInv'
  BY <1>1, <1>2, <1>4 DEF HandshakeTables, PreKeyInv
<1>8. RemovedInv'
  BY <1>1, <1>12, <1>3 DEF HandshakeTables, RemovedInv
<1>9. OneTimePreKey'
  <2>1. \A u \in Calls : Stopped(u, "removePreKey") => Stopped(u, "removePreKey")'
    BY <1>4
  <2>2. OneTimePreKey
    BY DEF HandshakeTables
  <2>. QED
    BY <1>1, <1>2, <2>1, <2>2 DEF OneTimePreKey
<1>10. CurrentSessionTrusted' /\ PinInv'
  <2>1. CurrentSessionTrusted /\ PinInv
    BY DEF HandshakeTables
  <2>2. \A u \in Calls : Pending(u, "saveIdentity") => Pending(u, "saveIdentity")'
    BY <1>4
  <2>3. CurrentSessionTrusted'
    BY <2>1 DEF CurrentSessionTrusted
  <2>. QED
    BY <1>1, <2>1, <2>2, <2>3 DEF PinInv
<1>11. SessionsInv'
  BY <1>2 DEF HandshakeTables, SessionsInv
<1>. QED
  BY <1>5, <1>6, <1>7, <1>8, <1>9, <1>10, <1>11 DEF HandshakeTables

-----------------------------------------------------------------------------
(* The steps that write neither a session, nor an identity, nor a prekey *)

\* A call that throws leaves behind what it had written, and is stopped where it was.
LEMMA ThrowTables ==
  ASSUME ClientInv, HandshakeTables, TypeOK', NEW t \in Calls, NEW err, Throw(t, err)
  PROVE  HandshakeTables'
<1>1. TypeOK /\ HandshakeInv(t)
  BY DEF HandshakeTables
<1>2. /\ OnlyCall(t) /\ request' = request /\ UNCHANGED tables /\ pc' = pc
      /\ phase[t] = "running" /\ phase'[t] = "rejected"
  BY <1>1 DEF Throw, SettleFn, OnlyCall, loaded, TypeOK, QueueTypeOK
<1>3. \A k : Named(k) => Named(k)'
  BY <1>2, OfferedStays DEF OnlyCall
<1>4. HandshakeInv(t)'
  BY <1>1, <1>2, <1>3 DEF HandshakeInv, Running, Consumes, Kind, Arg, Named
<1>5. StoredInv(t)' /\ \A labels : ~Written(t, labels)'
  BY <1>2 DEF StoredInv, Written, Running
<1>6. \A l \in {"removePreKey", "saveIdentity"} : Pending(t, l) => Pending(t, l)'
  BY <1>2 DEF Pending
<1>. QED
  BY <1>2, <1>4, <1>5, <1>6, QuietStep DEF tables

\* A call that is entered holds nothing.
LEMMA BeginTables ==
  ASSUME ClientInv, HandshakeTables, TypeOK', NEW t \in Calls, Begin(t)
  PROVE  HandshakeTables'
<1>1. TypeOK /\ HandshakeInv(t)
  BY DEF HandshakeTables
<1>2. /\ OnlyCall(t) /\ request' = request /\ UNCHANGED tables
      /\ phase[t] = "queued" /\ phase'[t] = "running"
      /\ pc'[t] \in {"storePreKey", "loadSession"}
  BY <1>1 DEF Begin, StartFn, Goto, OnlyCall, loaded, locals, TypeOK, QueueTypeOK
<1>3. \A k : Named(k) => Named(k)'
  BY <1>2, OfferedStays DEF OnlyCall
<1>4. HandshakeInv(t)'
  BY <1>1, <1>2, <1>3 DEF HandshakeInv, Running, Consumes, Kind, Arg, Named
<1>5. StoredInv(t)' /\ ~Written(t, {"storeSignedPreKey", "storeKyberPreKey", "return"})'
  BY <1>2 DEF StoredInv, Written, Running
<1>6. \A l : ~Pending(t, l)
  BY <1>2 DEF Pending
<1>. QED
  BY <1>2, <1>4, <1>5, <1>6, QuietStep DEF tables

\* A step inside a call that is no write: it goes from one label to another.
LEMMA InnerStep ==
  ASSUME ClientInv, HandshakeTables, TypeOK', NEW t \in Calls, OnlyCall(t),
         request' = request, UNCHANGED tables,
         phase[t] = "running", phase'[t] = "running",
         Kind(t) # "publishOneTimePreKey",
         pc[t] \notin {"removePreKey", "saveIdentity"},
         HandshakeInv(t)'
  PROVE  HandshakeTables'
<1>1. StoredInv(t)' /\ \A labels : ~Written(t, labels)'
  BY DEF StoredInv, Written, Publishes, Kind
<1>2. \A l \in {"removePreKey", "saveIdentity"} : ~Pending(t, l)
  BY DEF Pending
<1>. QED
  BY <1>1, <1>2, QuietStep DEF tables

\* The reads: a handshake goes on only if the prekey it names is there.
LEMMA ReadTables ==
  ASSUME ClientInv, HandshakeTables, TypeOK', NEW t \in Calls, Read(t)
  PROVE  HandshakeTables'
<1>. USE DEF At, Goto
<1>1. TypeOK /\ CallInv(t) /\ HandshakeInv(t)
  BY DEF HandshakeTables, ClientInv
<1>2. CASE \E err : Throw(t, err)
  BY <1>2, ThrowTables
<1>3. ASSUME OnlyCall(t), request' = request, UNCHANGED tables,
             phase[t] = "running", phase'[t] = "running",
             pc[t] \in Reads,
             pc'[t] \in {"getIdentity", "runOp", "loadPreKey", "loadSignedPreKey",
                         "loadKyberPreKeys"},
             pc'[t] \in {"loadSignedPreKey", "loadKyberPreKeys", "runOp"} =>
               Consumes(t) = None \/ preKey'[t] \in preKeys
      PROVE  HandshakeTables'
  <2>1. \A k : Named(k) => Named(k)'
    BY <1>3, OfferedStays DEF OnlyCall
  <2>2. Consumes(t)' = Consumes(t) /\ preKeys' = preKeys
    BY <1>3 DEF Consumes, Kind, Arg, tables
  <2>3. Named(Consumes(t))'
    BY <1>1, <1>3, <2>1, <2>2 DEF HandshakeInv, Named
  <2>4. HandshakeInv(t)'
    BY <1>3, <2>2, <2>3 DEF HandshakeInv, Running
  <2>5. Kind(t) # "publishOneTimePreKey"
    BY <1>1, <1>3 DEF CallInv, LabelInv, Running
  <2>. QED
    BY <1>3, <2>4, <2>5, InnerStep
<1>4. CASE LoadSession(t) /\ ~Throw(t, "SessionNotFound")
  <2>1. /\ OnlyCall(t) /\ request' = request /\ UNCHANGED tables
        /\ phase[t] = "running" /\ phase'[t] = "running"
        /\ pc[t] = "loadSession" /\ pc'[t] = "getIdentity"
    BY <1>1, <1>4 DEF LoadSession, OnlyCall, loaded, queueVars, TypeOK
  <2>. QED
    BY <1>3, <2>1
<1>5. CASE GetIdentity(t)
  <2>1. /\ OnlyCall(t) /\ request' = request /\ UNCHANGED tables
        /\ phase[t] = "running" /\ phase'[t] = "running"
        /\ pc[t] = "getIdentity"
        /\ pc'[t] = IF Kind(t) # "decryptPreKeySignal" THEN "runOp"
                    ELSE IF Arg(t).ids.preKey # None THEN "loadPreKey" ELSE "loadSignedPreKey"
    BY <1>1, <1>5 DEF GetIdentity, OnlyCall, loaded, queueVars, TypeOK
  <2>2. pc'[t] # "loadPreKey" => Consumes(t) = None
    BY <2>1 DEF Consumes
  <2>. QED
    BY <1>3, <2>1, <2>2
<1>6. CASE LoadPreKey(t) /\ ~Throw(t, "InvalidKey")
  <2>1. /\ OnlyCall(t) /\ request' = request /\ UNCHANGED tables
        /\ phase[t] = "running" /\ phase'[t] = "running"
        /\ pc[t] = "loadPreKey" /\ pc'[t] = "loadSignedPreKey"
        /\ preKey'[t] \in preKeys
    BY <1>1, <1>6 DEF LoadPreKey, OnlyCall, loaded, queueVars, locals, TypeOK
  <2>. QED
    BY <1>3, <2>1
<1>7. CASE LoadSignedPreKey(t) /\ ~Throw(t, "InvalidKey")
  <2>1. /\ OnlyCall(t) /\ request' = request /\ UNCHANGED tables
        /\ phase[t] = "running" /\ phase'[t] = "running"
        /\ pc[t] = "loadSignedPreKey" /\ pc'[t] = "loadKyberPreKeys" /\ preKey' = preKey
    BY <1>1, <1>7 DEF LoadSignedPreKey, OnlyCall, loaded, queueVars, locals, TypeOK
  <2>2. Consumes(t) = None \/ preKey[t] \in preKeys
    BY <1>1, <2>1 DEF HandshakeInv, Running
  <2>. QED
    BY <1>3, <2>1, <2>2
<1>8. CASE LoadKyberPreKeys(t)
  <2>1. /\ OnlyCall(t) /\ request' = request /\ UNCHANGED tables
        /\ phase[t] = "running" /\ phase'[t] = "running"
        /\ pc[t] = "loadKyberPreKeys" /\ pc'[t] = "runOp" /\ preKey' = preKey
    BY <1>1, <1>8 DEF LoadKyberPreKeys, OnlyCall, loaded, queueVars, TypeOK
  <2>2. Consumes(t) = None \/ preKey[t] \in preKeys
    BY <1>1, <2>1 DEF HandshakeInv, Running
  <2>. QED
    BY <1>3, <2>1, <2>2
<1>. QED
  BY <1>2, <1>4, <1>5, <1>6, <1>7, <1>8 DEF Read

\* The native operation checks the identity of the session it makes the current one.
LEMMA RunOpTables ==
  ASSUME ClientInv, HandshakeTables, TypeOK', NEW t \in Calls, RunOp(t)
  PROVE  HandshakeTables'
<1>1. TypeOK /\ CallInv(t) /\ HandshakeInv(t) /\ SessionsInv
  BY DEF HandshakeTables, ClientInv
<1>2. CASE Op(t).err # None
  BY <1>2, ThrowTables DEF RunOp
<1>3. CASE Op(t).err = None
  <2>1. /\ OnlyCall(t) /\ request' = request /\ UNCHANGED tables
        /\ phase[t] = "running" /\ phase'[t] = "running"
        /\ pc[t] = "runOp" /\ pc'[t] = "storeSession"
        /\ remoteIdentity'[t] = remoteIdentity[t] /\ existingSession' = existingSession
        /\ result'[t] = Op(t)
    BY <1>1, <1>3 DEF RunOp, At, Goto, OnlyCall, loaded, queueVars, TypeOK
  <2>2. /\ Kind(t) # "publishOneTimePreKey"
        /\ phase[t] # "idle" /\ Running(t)
    BY <1>1, <2>1 DEF CallInv, LabelInv, Running
  <2>3. Peer(t) \in Peers /\ existingSession[t] = session[Peer(t)]
    BY <1>1, <2>1, <2>2, RequestTypes DEF CallInv, FreshReads
  <2>4. Fits(existingSession[t])
    BY <1>1, <2>3 DEF SessionsInv
  <2>5. /\ Fits(Op(t).session)
        /\ Trusted(remoteIdentity[t], Current(Op(t).session).ident)
        /\ Op(t).consumed = Consumes(t)
        /\ Consumes(t) \in {preKey[t], None} \/ Has(existingSession[t], Arg(t).sid)
        /\ Kind(t) = "processPreKeyBundle" =>
             /\ Op(t).kyber = None
             /\ Current(Op(t).session).ident = Op(t).trusted
    BY <1>3, <2>4, OpFits DEF RunOp
  <2>6. \A k : Named(k) => Named(k)'
    BY <2>1, OfferedStays DEF OnlyCall
  <2>7. /\ Consumes(t)' = Consumes(t) /\ Kind(t)' = Kind(t) /\ Arg(t)' = Arg(t)
        /\ preKeys' = preKeys /\ Running(t)'
    BY <2>1 DEF Consumes, Kind, Arg, tables, Running
  <2>8. /\ Named(Consumes(t))'
        /\ Consumes(t) \in preKeys \cup {None} \/ Has(existingSession[t], Arg(t).sid)
    BY <1>1, <2>1, <2>2, <2>5, <2>6, <2>7 DEF HandshakeInv, Named
  <2>9. /\ Fits(result'[t].session)
        /\ Trusted(remoteIdentity'[t], Current(result'[t].session).ident)
        /\ result'[t].consumed = Consumes(t)
        /\ Kind(t) = "processPreKeyBundle" =>
             /\ result'[t].kyber = None
             /\ Current(result'[t].session).ident = result'[t].trusted
    BY <2>1, <2>5
  <2>10. HandshakeInv(t)'
    BY <2>1, <2>7, <2>8, <2>9 DEF HandshakeInv, Trusted, Current, Has
  <2>. QED
    BY <2>1, <2>2, <2>10, InnerStep
<1>. QED  BY <1>2, <1>3

\* A call that returns has made all its writes.
LEMMA ReturnTables ==
  ASSUME ClientInv, HandshakeTables, TypeOK', NEW t \in Calls, Return(t)
  PROVE  HandshakeTables'
<1>1. TypeOK /\ HandshakeInv(t) /\ PublishInv
  BY DEF HandshakeTables
<1>2. /\ OnlyCall(t) /\ request' = request /\ UNCHANGED tables
      /\ phase[t] = "running" /\ phase'[t] = "fulfilled" /\ pc[t] = "return"
  BY <1>1 DEF Return, At, SettleFn, OnlyCall, loaded, volatile, locals, TypeOK, QueueTypeOK
<1>3. \A k : Named(k) => Named(k)'
  BY <1>2, OfferedStays DEF OnlyCall
<1>4. HandshakeInv(t)'
  BY <1>1, <1>2, <1>3 DEF HandshakeInv, Running, Consumes, Kind, Arg, Named
<1>5. Publishes(t)' = Publishes(t)
  BY <1>2 DEF Publishes, Kind
<1>6. \A labels : Written(t, labels)' /\ "return" \in labels => Written(t, labels)
  BY <1>2, <1>5 DEF Written, Running
<1>7. StoredInv(t)'
  BY <1>2 DEF StoredInv, Running
<1>8. \A l \in {"removePreKey", "saveIdentity"} : ~Pending(t, l)
  BY <1>2 DEF Pending
<1>. QED
  BY <1>2, <1>4, <1>6, <1>7, <1>8, QuietStep DEF tables

-----------------------------------------------------------------------------
(* The writes *)

\* Marking a kyber prekey, and the second and third writes of a publication.
LEMMA LaterWriteTables ==
  ASSUME ClientInv, HandshakeTables, MutualExclusion, TypeOK', NEW t \in Calls,
         MarkKyberPreKeyUsed(t) \/ StoreSignedPreKey(t) \/ StoreKyberPreKey(t)
  PROVE  HandshakeTables'
<1>. USE DEF At, Goto
<1>1. TypeOK /\ CallInv(t) /\ HandshakeInv(t) /\ PublishInv
  BY DEF HandshakeTables, ClientInv
<1>2. /\ phase' = phase /\ request' = request /\ session' = session /\ identity' = identity
      /\ preKeys' = preKeys /\ result' = result /\ remoteIdentity' = remoteIdentity
      /\ OnlyCall(t) /\ Running(t) /\ phase[t] = "running"
  BY <1>1 DEF MarkKyberPreKeyUsed, StoreSignedPreKey, StoreKyberPreKey, Running, queueVars,
              locals, TypeOK, OnlyCall, loaded
<1>3. /\ Kind(t)' = Kind(t) /\ Arg(t)' = Arg(t) /\ Peer(t)' = Peer(t)
      /\ Consumes(t)' = Consumes(t) /\ Running(t)'
  BY <1>2 DEF Kind, Arg, Peer, Consumes, Running
<1>4. Named(Consumes(t))'
  BY <1>1, <1>2, <1>3, OfferedStays DEF HandshakeInv, Named, Running
<1>5. CASE MarkKyberPreKeyUsed(t)
  <2>1. pc[t] = "markKyberPreKeyUsed" /\ pc'[t] \in {"saveIdentity", "return"}
    BY <1>1, <1>5 DEF MarkKyberPreKeyUsed, AfterKyber, TypeOK
  <2>2. HandshakeInv(t)'
    BY <1>1, <1>2, <1>3, <1>4, <2>1 DEF HandshakeInv, Current
  <2>3. StoredInv(t)' /\ \A labels : ~Written(t, labels)'
    BY <1>1, <1>2, <1>3, <2>1 DEF StoredInv, Written, Publishes, CallInv, LabelInv
  <2>4. \A l \in {"removePreKey", "saveIdentity"} : ~Pending(t, l)
    BY <2>1 DEF Pending
  <2>. QED
    BY <1>2, <2>2, <2>3, <2>4, QuietStep
<1>6. CASE StoreSignedPreKey(t)
  <2>1. /\ pc[t] = "storeSignedPreKey" /\ pc'[t] = "storeKyberPreKey"
        /\ Arg(t).signed \in signedPreKeys'
    BY <1>1, <1>6 DEF StoreSignedPreKey, Upsert, TypeOK
  <2>2. HandshakeInv(t)'
    BY <1>4, <2>1 DEF HandshakeInv
  <2>3. /\ Written(t, {"storeSignedPreKey", "storeKyberPreKey", "return"})' =>
             Written(t, {"storeSignedPreKey", "storeKyberPreKey", "return"})
        /\ StoredInv(t)'
    BY <1>1, <1>2, <1>3, <2>1 DEF Written, Publishes, PublishInv, StoredInv
  <2>4. \A l \in {"removePreKey", "saveIdentity"} : ~Pending(t, l)
    BY <2>1 DEF Pending
  <2>. QED
    BY <1>2, <2>1, <2>2, <2>3, <2>4, QuietStep
<1>7. CASE StoreKyberPreKey(t)
  <2>1. /\ pc[t] = "storeKyberPreKey" /\ pc'[t] = "return"
        /\ Arg(t).kyber \in kyberPreKeys' /\ signedPreKeys' = signedPreKeys
    BY <1>1, <1>7 DEF StoreKyberPreKey, Upsert, TypeOK
  <2>2. HandshakeInv(t)'
    BY <1>4, <2>1 DEF HandshakeInv
  <2>3. /\ Written(t, {"storeSignedPreKey", "storeKyberPreKey", "return"})' =>
             Written(t, {"storeSignedPreKey", "storeKyberPreKey", "return"})
        /\ StoredInv(t)'
    BY <1>1, <1>2, <1>3, <2>1 DEF Written, Publishes, PublishInv, StoredInv
  <2>4. \A l \in {"removePreKey", "saveIdentity"} : ~Pending(t, l)
    BY <2>1 DEF Pending
  <2>. QED
    BY <1>2, <2>1, <2>2, <2>3, <2>4, QuietStep
<1>. QED  BY <1>5, <1>6, <1>7

\* What has been offered may be published.
LEMMA OfferedOwn == PublishInv => Offered \subseteq OwnIds
<1>1. Published \subseteq OwnIds
  BY ClientAssumption
<1>2. PublishInv => \A u \in Calls : Fulfilled(u, "publishOneTimePreKey") =>
        Arg(u) \in OwnIds
  BY DEF PublishInv, Publishes, Fulfilled, Kind
<1>. QED
  BY <1>1, <1>2 DEF Offered, Arg

\* A call that writes one table while no other call runs: what the other calls hold
\* and wait for stays as it is.
LEMMA OthersStay ==
  ASSUME HandshakeTables, MutualExclusion, NEW t \in Calls, OnlyCall(t),
         phase[t] = "running", phase'[t] = "running", request' = request
  PROVE  /\ \A u \in Calls :
              /\ Kind(u)' = Kind(u) /\ Arg(u)' = Arg(u) /\ Peer(u)' = Peer(u)
              /\ Consumes(u)' = Consumes(u) /\ Publishes(u)' = Publishes(u)
              /\ (phase'[u] = "idle") = (phase[u] = "idle")
              /\ Stopped(u, "removePreKey") => Stopped(u, "removePreKey")'
         /\ \A u \in Calls \ {t} :
              /\ HandshakeInv(u)' /\ StoredInv(u)'
              /\ Pending(u, "removePreKey") => Pending(u, "removePreKey")'
              /\ Pending(u, "removePreKey") => Stopped(u, "removePreKey")
              /\ Pending(u, "saveIdentity") => Pending(u, "saveIdentity")'
              /\ \A labels : Written(u, labels)' = Written(u, labels)
         /\ \A k : Named(k) => Named(k)'
<1>1. \A k : Named(k) => Named(k)'
  BY OfferedStays DEF OnlyCall
<1>2. \A u \in Calls :
        /\ Kind(u)' = Kind(u) /\ Arg(u)' = Arg(u) /\ Peer(u)' = Peer(u)
        /\ Consumes(u)' = Consumes(u) /\ Publishes(u)' = Publishes(u)
        /\ (phase'[u] = "idle") = (phase[u] = "idle")
        /\ Stopped(u, "removePreKey") => Stopped(u, "removePreKey")'
  BY DEF OnlyCall, Kind, Arg, Peer, Consumes, Publishes, Stopped
<1>3. ASSUME NEW u \in Calls, u # t PROVE HandshakeInv(u)' /\ StoredInv(u)'
  <2>1. ~Running(u) /\ ~Running(u)'
    BY <1>3 DEF MutualExclusion, OnlyCall, Running
  <2>2. Named(Consumes(u)) => Named(Consumes(u))'
    BY <1>1, <1>2 DEF Named
  <2>. QED
    BY <1>3, <2>1, <2>2, HandshakeStays DEF HandshakeTables, OnlyCall, StoredInv
<1>4. \A u \in Calls \ {t} :
        /\ Pending(u, "removePreKey") => Pending(u, "removePreKey")'
        /\ Pending(u, "removePreKey") => Stopped(u, "removePreKey")
        /\ Pending(u, "saveIdentity") => Pending(u, "saveIdentity")'
        /\ \A labels : Written(u, labels)' = Written(u, labels)
  BY <1>2 DEF OnlyCall, Pending, Stopped, MutualExclusion, Written, Running
<1>. QED
  BY <1>1, <1>2, <1>3, <1>4

\* The first write of a publication: its prekey is new, so no session is built on it.
LEMMA StorePreKeyTables ==
  ASSUME ClientInv, HandshakeTables, MutualExclusion, TypeOK', NEW t \in Calls, StorePreKey(t)
  PROVE  HandshakeTables'
<1>1. TypeOK /\ CallInv(t) /\ HandshakeInv(t) /\ PublishInv /\ SessionsInv
  BY DEF HandshakeTables, ClientInv
<1>2. /\ phase' = phase /\ request' = request /\ session' = session /\ identity' = identity
      /\ signedPreKeys' = signedPreKeys /\ kyberPreKeys' = kyberPreKeys
      /\ preKeys' = {k \in preKeys : Id[k] # Id[Arg(t).preKey]} \cup {Arg(t).preKey}
      /\ OnlyCall(t) /\ phase[t] = "running"
      /\ pc[t] = "storePreKey" /\ pc'[t] = "storeSignedPreKey"
  BY <1>1 DEF StorePreKey, Upsert, DeleteRow, At, Goto, queueVars, locals, TypeOK, OnlyCall, loaded
<1>3. Publishes(t)
  BY <1>1, <1>2 DEF Publishes, CallInv, LabelInv, Running
<1>4. /\ \A u \in Calls :
           /\ Arg(u)' = Arg(u) /\ Kind(u)' = Kind(u) /\ Publishes(u)' = Publishes(u)
           /\ Consumes(u)' = Consumes(u) /\ (phase'[u] = "idle") = (phase[u] = "idle")
           /\ Stopped(u, "removePreKey") => Stopped(u, "removePreKey")'
      /\ \A u \in Calls \ {t} :
           /\ HandshakeInv(u)' /\ StoredInv(u)'
           /\ Pending(u, "removePreKey") => Pending(u, "removePreKey")'
           /\ Pending(u, "saveIdentity") => Pending(u, "saveIdentity")'
           /\ \A labels : Written(u, labels)' = Written(u, labels)
      /\ \A k : Named(k) => Named(k)'
  BY <1>2, OthersStay
<1>5. \A k : BuiltOn(k)' = BuiltOn(k)
  BY <1>2 DEF BuiltOn
<1>6. HandshakeInv(t)'
  BY <1>1, <1>2, <1>4 DEF HandshakeInv, Named
<1>7. PublishInv'
  <2>1. StoredInv(t)'
    BY <1>2, <1>4 DEF StoredInv
  <2>. QED
    BY <1>1, <1>4, <2>1 DEF PublishInv
<1>8. ASSUME NEW b \in OwnIds, b.preKey = Arg(t).preKey PROVE BuiltOn(b.preKey) = {}
  <2>. SUFFICES ASSUME NEW s \in BuiltOn(b.preKey) PROVE FALSE
    OBVIOUS
  <2>1. Named(b.preKey)
    BY <1>1 DEF BuiltOn, SessionsInv
  <2>2. PICK c \in Offered : c.preKey = b.preKey
    BY <2>1, ClientAssumption DEF Named
  <2>3. c \in OwnIds /\ Arg(t) \in OwnIds \ Published
    BY <1>1, <1>3, <2>2, OfferedOwn DEF PublishInv
  <2>4. c = Arg(t)
    BY <1>8, <2>2, <2>3, ClientAssumption
  <2>5. PICK u \in Calls : Fulfilled(u, "publishOneTimePreKey") /\ Arg(u) = c
    BY <2>2, <2>3, <2>4 DEF Offered, Arg
  <2>6. u = t
    BY <1>1, <1>3, <2>4, <2>5 DEF PublishInv, Publishes, Fulfilled, Kind
  <2>. QED
    BY <1>2, <2>5, <2>6 DEF Fulfilled
<1>9. PreKeyInv'
  <2>1. ASSUME NEW b \in OwnIds, b.preKey \in preKeys', BuiltOn(b.preKey)' # {}
        PROVE  \E u \in Calls : Pending(u, "removePreKey")' /\ Consumes(u)' = b.preKey
    <3>1. b.preKey \in preKeys /\ BuiltOn(b.preKey) # {}
      BY <1>2, <1>5, <1>8, <2>1
    <3>2. PICK u \in Calls : Pending(u, "removePreKey") /\ Consumes(u) = b.preKey
      BY <3>1 DEF HandshakeTables, PreKeyInv
    <3>3. u # t
      BY <1>2, <3>2 DEF Pending
    <3>. QED
      BY <1>4, <3>2, <3>3
  <2>. QED
    BY <2>1 DEF PreKeyInv
<1>10. RemovedInv'
  <2>1. ASSUME NEW b, RowInv(b) PROVE RowInv(b)'
    <3>1. CASE BuiltUnder(Id[b.preKey])
      BY <1>5, <3>1 DEF RowInv, BuiltUnder
    <3>2. ASSUME NEW k \in preKeys, Id[k] = Id[b.preKey] PROVE Id[b.preKey] \in Ids(preKeys)'
      BY <1>2, <3>2 DEF Ids
    <3>. QED
      BY <2>1, <3>1, <3>2 DEF RowInv, Ids
  <2>2. RowInv(Arg(t))'
    BY <1>2, <1>4 DEF RowInv, Ids
  <2>3. ASSUME NEW u \in Calls,
               Written(u, {"storeSignedPreKey", "storeKyberPreKey", "return"})'
        PROVE  RowInv(Arg(u))'
    <3>1. CASE u = t
      BY <2>2, <3>1
    <3>2. CASE u # t
      <4>1. RowInv(Arg(u))
        BY <1>4, <2>3, <3>2 DEF HandshakeTables, RemovedInv
      <4>2. Arg(u)' = Arg(u)
        BY <1>4
      <4>. QED
        BY <2>1, <4>1, <4>2 DEF RowInv
    <3>. QED  BY <3>1, <3>2
  <2>. QED
    BY <2>1, <2>3 DEF HandshakeTables, RemovedInv
<1>11. OneTimePreKey'
  BY <1>4, <1>5 DEF HandshakeTables, OneTimePreKey
<1>12. CurrentSessionTrusted'
  BY <1>2 DEF HandshakeTables, CurrentSessionTrusted
<1>13. PinInv'
  <2>1. ~Pending(t, "saveIdentity")
    BY <1>2 DEF Pending
  <2>. QED
    BY <1>2, <1>4, <2>1 DEF HandshakeTables, PinInv
<1>14. SessionsInv'
  BY <1>1, <1>2, <1>4 DEF SessionsInv
<1>15. \A u \in Calls : HandshakeInv(u)'
  BY <1>4, <1>6
<1>. QED
  BY <1>7, <1>9, <1>10, <1>11, <1>12, <1>13, <1>14, <1>15 DEF HandshakeTables

\* Once a handshake has stored its session, the session is one built on the prekey its
\* message names.
LEMMA SessionOfHandshake ==
  ASSUME ClientInv, HandshakeTables, NEW t \in Calls, Running(t), Kind(t) = "decryptPreKeySignal",
         pc[t] \in Cleanup
  PROVE  Arg(t).sid \in BuiltOn(Arg(t).ids.preKey)
<1>1. CallInv(t) /\ SessionsInv /\ phase[t] # "idle" /\ Done(t)
  BY DEF HandshakeTables, ClientInv, Running, Done
<1>2. /\ Peer(t) \in Peers /\ Arg(t) \in CiphertextMessage
      /\ [from |-> Peer(t), msg |-> Arg(t)] \in Incoming
      /\ Arg(t).type # "signal"
      /\ Has(session[Peer(t)], Arg(t).sid)
  BY <1>1, RequestTypes DEF CallInv, RequestInv, SpentInv
<1>3. Arg(t).type = "preKeySignal"
  BY <1>2 DEF CiphertextMessage
<1>4. session[Peer(t)].states[Arg(t).sid].ids = Arg(t).ids
  BY <1>1, <1>2, <1>3 DEF SessionsInv, Fits
<1>5. Arg(t).sid \in Inbound
  BY <1>2, <1>3 DEF Inbound
<1>. QED
  BY <1>2, <1>4, <1>5 DEF BuiltOn

\* A prekey is removed after the session built on it is stored.
LEMMA RemovePreKeyTables ==
  ASSUME ClientInv, HandshakeTables, MutualExclusion, TypeOK', NEW t \in Calls, RemovePreKey(t)
  PROVE  HandshakeTables'
<1>1. TypeOK /\ CallInv(t) /\ HandshakeInv(t) /\ PublishInv /\ SessionsInv
  BY DEF HandshakeTables, ClientInv
<1>2. /\ phase' = phase /\ request' = request /\ session' = session /\ identity' = identity
      /\ signedPreKeys' = signedPreKeys /\ kyberPreKeys' = kyberPreKeys
      /\ result' = result
      /\ preKeys' = {k \in preKeys : Id[k] # Id[result[t].consumed]}
      /\ OnlyCall(t) /\ phase[t] = "running" /\ Running(t) /\ Running(t)'
      /\ pc[t] = "removePreKey" /\ pc'[t] \in {"markKyberPreKeyUsed", "saveIdentity", "return"}
  BY <1>1 DEF RemovePreKey, DeleteRow, At, Goto, queueVars, locals, TypeOK, OnlyCall, loaded, AfterPreKey,
              AfterKyber, Running
<1>3. result[t].consumed = Consumes(t) /\ Consumes(t) # None
  BY <1>1, <1>2 DEF HandshakeInv, CallInv, ResultInv
<1>4. /\ Kind(t) = "decryptPreKeySignal" /\ ~Publishes(t)
      /\ Consumes(t) = Arg(t).ids.preKey
  BY <1>3 DEF Consumes, Publishes
<1>5. Arg(t).sid \in BuiltOn(Consumes(t))
  BY <1>2, <1>4, SessionOfHandshake
<1>6. /\ \A u \in Calls :
           /\ Arg(u)' = Arg(u) /\ Kind(u)' = Kind(u) /\ Publishes(u)' = Publishes(u)
           /\ Consumes(u)' = Consumes(u) /\ (phase'[u] = "idle") = (phase[u] = "idle")
           /\ Stopped(u, "removePreKey") => Stopped(u, "removePreKey")'
      /\ \A u \in Calls \ {t} :
           /\ HandshakeInv(u)' /\ StoredInv(u)'
           /\ Pending(u, "removePreKey") => Pending(u, "removePreKey")'
           /\ Pending(u, "saveIdentity") => Pending(u, "saveIdentity")'
           /\ \A labels : Written(u, labels)' = Written(u, labels)
      /\ \A k : Named(k) => Named(k)'
  BY <1>2, OthersStay
<1>7. \A k : BuiltOn(k)' = BuiltOn(k)
  BY <1>2 DEF BuiltOn
<1>8. \A labels : ~Written(t, labels) /\ ~Written(t, labels)'
  BY <1>4, <1>6 DEF Written
<1>9. HandshakeInv(t)'
  BY <1>1, <1>2, <1>4, <1>6 DEF HandshakeInv, Named
<1>10. PublishInv'
  <2>1. StoredInv(t)'
    BY <1>4, <1>6 DEF StoredInv
  <2>. QED
    BY <1>1, <1>6, <2>1 DEF PublishInv
<1>11. PreKeyInv'
  <2>1. ASSUME NEW b \in OwnIds, b.preKey \in preKeys', BuiltOn(b.preKey)' # {}
        PROVE  \E u \in Calls : Pending(u, "removePreKey")' /\ Consumes(u)' = b.preKey
    <3>1. PICK u \in Calls : Pending(u, "removePreKey") /\ Consumes(u) = b.preKey
      BY <1>2, <1>7, <2>1 DEF HandshakeTables, PreKeyInv
    <3>2. u # t
      BY <1>2, <1>3, <2>1, <3>1
    <3>. QED
      BY <1>6, <3>1, <3>2
  <2>. QED
    BY <2>1 DEF PreKeyInv
<1>12. RemovedInv'
  <2>1. PICK c \in Offered : c.preKey = Consumes(t)
    BY <1>1, <1>2, <1>3 DEF HandshakeInv, Named
  <2>2. c \in OwnIds
    BY <1>1, <2>1, OfferedOwn
  <2>3. BuiltUnder(Id[c.preKey])'
    BY <1>5, <1>7, <2>1, <2>2 DEF BuiltUnder
  <2>4. ASSUME NEW b, RowInv(b) PROVE RowInv(b)'
    <3>1. CASE Id[b.preKey] = Id[c.preKey]
      BY <2>3, <3>1 DEF RowInv, BuiltUnder
    <3>2. CASE BuiltUnder(Id[b.preKey])
      BY <1>7, <3>2 DEF RowInv, BuiltUnder
    <3>3. ASSUME NEW k \in preKeys, Id[k] = Id[b.preKey], Id[b.preKey] # Id[c.preKey]
          PROVE  Id[b.preKey] \in Ids(preKeys)'
      BY <1>2, <1>3, <2>1, <3>3 DEF Ids
    <3>. QED
      BY <2>4, <3>1, <3>2, <3>3 DEF RowInv, Ids
  <2>5. ASSUME NEW u \in Calls,
               Written(u, {"storeSignedPreKey", "storeKyberPreKey", "return"})'
        PROVE  RowInv(Arg(u))'
    <3>1. u # t
      BY <1>8, <2>5
    <3>2. RowInv(Arg(u)) /\ Arg(u)' = Arg(u)
      BY <1>6, <2>5, <3>1 DEF HandshakeTables, RemovedInv
    <3>. QED
      BY <2>4, <3>2 DEF RowInv
  <2>. QED
    BY <2>4, <2>5 DEF HandshakeTables, RemovedInv
<1>13. OneTimePreKey'
  BY <1>6, <1>7 DEF HandshakeTables, OneTimePreKey
<1>14. CurrentSessionTrusted'
  BY <1>2 DEF HandshakeTables, CurrentSessionTrusted
<1>15. PinInv'
  <2>1. ~Pending(t, "saveIdentity")
    BY <1>2 DEF Pending
  <2>. QED
    BY <1>2, <1>6, <2>1 DEF HandshakeTables, PinInv
<1>16. SessionsInv'
  BY <1>1, <1>2, <1>6 DEF SessionsInv
<1>17. \A u \in Calls : HandshakeInv(u)'
  BY <1>6, <1>9
<1>. QED
  BY <1>10, <1>11, <1>12, <1>13, <1>14, <1>15, <1>16, <1>17 DEF HandshakeTables

\* An identity is pinned after the session it was checked for is stored.
LEMMA SaveIdentityTables ==
  ASSUME ClientInv, HandshakeTables, MutualExclusion, TypeOK', NEW t \in Calls, SaveIdentity(t)
  PROVE  HandshakeTables'
<1>1. TypeOK /\ CallInv(t) /\ HandshakeInv(t) /\ PublishInv /\ SessionsInv
  BY DEF HandshakeTables, ClientInv
<1>2. /\ phase' = phase /\ request' = request /\ session' = session /\ preKeys' = preKeys
      /\ signedPreKeys' = signedPreKeys /\ kyberPreKeys' = kyberPreKeys
      /\ identity' = [identity EXCEPT ![Peer(t)] = ToPin(t)]
      /\ OnlyCall(t) /\ phase[t] = "running" /\ Running(t)
      /\ pc[t] = "saveIdentity" /\ pc'[t] = "return"
  BY <1>1 DEF SaveIdentity, At, Goto, queueVars, locals, TypeOK, OnlyCall, loaded, Running
<1>3. /\ remoteIdentity[t] = identity[Peer(t)]
      /\ ToPin(t) # None
      /\ Kind(t) = "processPreKeyBundle" =>
           Current(session[Peer(t)]).ident = ToPin(t) /\ Arg(t).peer = Peer(t)
      /\ Kind(t) # "publishOneTimePreKey" /\ ~Publishes(t)
  BY <1>1, <1>2 DEF CallInv, FreshReads, ResultInv, HandshakeInv, ToPin, LabelInv, RequestInv,
                    Publishes
<1>4. Peer(t) \in Peers
  BY <1>1, <1>2, <1>3, RequestTypes DEF CallInv
<1>5. /\ \A u \in Calls :
           /\ Arg(u)' = Arg(u) /\ Kind(u)' = Kind(u) /\ Publishes(u)' = Publishes(u)
           /\ Consumes(u)' = Consumes(u) /\ (phase'[u] = "idle") = (phase[u] = "idle")
           /\ Stopped(u, "removePreKey") => Stopped(u, "removePreKey")'
      /\ \A u \in Calls \ {t} :
           /\ HandshakeInv(u)' /\ StoredInv(u)'
           /\ Pending(u, "removePreKey") => Pending(u, "removePreKey")'
           /\ Pending(u, "saveIdentity") => Pending(u, "saveIdentity")'
           /\ \A labels : Written(u, labels)' = Written(u, labels)
      /\ \A k : Named(k) => Named(k)'
  BY <1>2, OthersStay
<1>6. \A k : BuiltOn(k)' = BuiltOn(k)
  BY <1>2 DEF BuiltOn
<1>7. \A labels : ~Written(t, labels) /\ ~Written(t, labels)'
  BY <1>3, <1>5 DEF Written
<1>8. HandshakeInv(t)'
  BY <1>1, <1>2, <1>5 DEF HandshakeInv, Named
<1>9. PublishInv'
  <2>1. StoredInv(t)'
    BY <1>3, <1>5 DEF StoredInv
  <2>. QED
    BY <1>1, <1>5, <2>1 DEF PublishInv
<1>10. PreKeyInv'
  <2>1. ~Pending(t, "removePreKey")
    BY <1>2 DEF Pending
  <2>. QED
    BY <1>2, <1>5, <1>6, <2>1 DEF HandshakeTables, PreKeyInv
<1>11. RemovedInv'
  <2>1. \A b : RowInv(b)' = RowInv(b)
    BY <1>2, <1>6 DEF RowInv, BuiltUnder, Ids
  <2>. QED
    BY <1>5, <1>7, <2>1 DEF HandshakeTables, RemovedInv
<1>12. OneTimePreKey'
  BY <1>5, <1>6 DEF HandshakeTables, OneTimePreKey
<1>13. CurrentSessionTrusted'
  <2>. SUFFICES ASSUME NEW p \in Peers, session[p] # None, identity'[p] # None
                PROVE  Current(session[p]).ident = identity'[p]
    BY <1>2 DEF CurrentSessionTrusted, Current
  <2>1. CASE p # Peer(t)
    <3>1. identity'[p] = identity[p]
      BY <1>1, <1>2, <2>1 DEF TypeOK
    <3>. QED
      BY <3>1 DEF HandshakeTables, CurrentSessionTrusted
  <2>2. CASE p = Peer(t) /\ Kind(t) = "processPreKeyBundle"
    BY <1>1, <1>2, <1>3, <2>2 DEF TypeOK
  <2>3. CASE p = Peer(t) /\ Kind(t) # "processPreKeyBundle"
    <3>1. identity'[p] = identity[p]
      BY <1>1, <1>2, <1>3, <2>3 DEF TypeOK, ToPin
    <3>. QED
      BY <3>1 DEF HandshakeTables, CurrentSessionTrusted
  <2>. QED  BY <2>1, <2>2, <2>3
<1>14. PinInv'
  <2>. SUFFICES ASSUME NEW b \in Bundles, Has(session[b.peer], b.sid), identity'[b.peer] = None
                PROVE  \E u \in Calls : /\ phase'[u] # "idle" /\ Kind(u)' = "processPreKeyBundle"
                                        /\ Arg(u)' = b /\ Pending(u, "saveIdentity")'
    BY <1>2 DEF PinInv
  <2>1. b.peer \in Peers
    BY ClientAssumption
  <2>2. b.peer # Peer(t) /\ identity[b.peer] = None
    BY <1>1, <1>2, <1>3, <1>4, <2>1 DEF TypeOK
  <2>3. PICK u \in Calls : /\ phase[u] # "idle" /\ Kind(u) = "processPreKeyBundle"
                           /\ Arg(u) = b /\ Pending(u, "saveIdentity")
    BY <2>2 DEF HandshakeTables, PinInv
  <2>4. u # t
    BY <1>3, <2>2, <2>3
  <2>. QED
    BY <1>5, <2>3, <2>4
<1>15. SessionsInv'
  BY <1>1, <1>2, <1>5 DEF SessionsInv
<1>16. \A u \in Calls : HandshakeInv(u)'
  BY <1>5, <1>8
<1>. QED
  BY <1>9, <1>10, <1>11, <1>12, <1>13, <1>14, <1>15, <1>16 DEF HandshakeTables

\* The write of a session: it is the first one built on the prekey of its handshake,
\* which is then to be removed, and its identity is the pinned one or the one to pin.
LEMMA StoreSessionTables ==
  ASSUME ClientInv, HandshakeTables, MutualExclusion, TypeOK', NEW t \in Calls, StoreSession(t)
  PROVE  HandshakeTables'
<1> DEFINE p == Peer(t)
           new == result[t].session
<1>1. TypeOK /\ CallInv(t) /\ HandshakeInv(t) /\ PublishInv /\ SessionsInv
  BY DEF HandshakeTables, ClientInv
<1>2. /\ phase' = phase /\ request' = request /\ identity' = identity /\ preKeys' = preKeys
      /\ signedPreKeys' = signedPreKeys /\ kyberPreKeys' = kyberPreKeys
      /\ result' = result
      /\ session' = [session EXCEPT ![p] = new]
      /\ OnlyCall(t) /\ phase[t] = "running" /\ phase[t] # "idle"
      /\ Running(t) /\ Running(t)'
      /\ pc[t] = "storeSession" /\ pc'[t] = AfterSession(t)
  BY <1>1 DEF StoreSession, At, Goto, queueVars, locals, TypeOK, OnlyCall, loaded, Running
<1>3. /\ Kind(t) \in {"processPreKeyBundle", "encrypt", "decryptPreKeySignal", "decryptSignal"}
      /\ p \in Peers
      /\ Kind(t) = "processPreKeyBundle" => Arg(t) \in Bundles /\ Arg(t).peer = p
      /\ Kind(t) \in Decrypts => Arg(t) \in CiphertextMessage
      /\ Kind(t) = "decryptPreKeySignal" =>
           [from |-> p, msg |-> Arg(t)] \in Incoming /\ Arg(t).type = "preKeySignal"
      /\ ~Publishes(t)
  <2>1. /\ Kind(t) \in {"processPreKeyBundle", "encrypt", "decryptPreKeySignal", "decryptSignal"}
        /\ p \in Peers
        /\ Kind(t) = "processPreKeyBundle" => Arg(t) \in Bundles /\ Arg(t).peer = p
        /\ Kind(t) \in Decrypts => Arg(t) \in CiphertextMessage
    BY <1>1, <1>2, RequestTypes DEF CallInv, LabelInv, RequestInv
  <2>2. Kind(t) = "decryptPreKeySignal" =>
          [from |-> p, msg |-> Arg(t)] \in Incoming /\ Arg(t).type # "signal"
    BY <1>1, <1>2 DEF CallInv, RequestInv
  <2>. QED
    BY <2>1, <2>2 DEF CiphertextMessage, Publishes
<1>4. /\ remoteIdentity[t] = identity[p] /\ existingSession[t] = session[p]
      /\ Extends(new, session[p])
      /\ \A s \in Sids : Has(new, s) =>
           \/ Has(session[p], s)
           \/ Kind(t) \in {"processPreKeyBundle", "decryptPreKeySignal"} /\ s = Arg(t).sid
      /\ Kind(t) = "processPreKeyBundle" => result[t].trusted # None
  BY <1>1, <1>2, NoneAssumption DEF CallInv, FreshReads, ResultInv, Computed, Kind, Arg
<1>5. /\ result[t].consumed = Consumes(t)
      /\ Consumes(t) \in preKeys \cup {None} \/ Has(session[p], Arg(t).sid)
      /\ Fits(new)
      /\ Trusted(identity[p], Current(new).ident)
      /\ Kind(t) = "processPreKeyBundle" =>
           result[t].kyber = None /\ Current(new).ident = result[t].trusted
      /\ Named(Consumes(t))
  BY <1>1, <1>2, <1>4 DEF HandshakeInv
<1>6. session'[p] = new /\ \A q \in Peers : q # p => session'[q] = session[q]
  BY <1>1, <1>2, <1>3 DEF TypeOK
<1>7. /\ pc'[t] \in Cleanup \cup {"return"}
      /\ Consumes(t) # None => pc'[t] = "removePreKey"
      /\ Kind(t) = "processPreKeyBundle" => pc'[t] = "saveIdentity"
  BY <1>2, <1>4, <1>5 DEF AfterSession, AfterPreKey, AfterKyber, ToPin, Consumes
<1>8. /\ \A u \in Calls :
           /\ Arg(u)' = Arg(u) /\ Kind(u)' = Kind(u) /\ Publishes(u)' = Publishes(u)
           /\ Peer(u)' = Peer(u)
           /\ Consumes(u)' = Consumes(u) /\ (phase'[u] = "idle") = (phase[u] = "idle")
           /\ Stopped(u, "removePreKey") => Stopped(u, "removePreKey")'
      /\ \A u \in Calls \ {t} :
           /\ HandshakeInv(u)' /\ StoredInv(u)'
           /\ Pending(u, "removePreKey") => Pending(u, "removePreKey")'
           /\ Pending(u, "removePreKey") => Stopped(u, "removePreKey")
           /\ Pending(u, "saveIdentity") => Pending(u, "saveIdentity")'
           /\ \A labels : Written(u, labels)' = Written(u, labels)
      /\ \A k : Named(k) => Named(k)'
  BY <1>2, OthersStay
<1>. HIDE DEF p, new
<1>9. \A q \in Peers : /\ Fits(session[q]) /\ Fits(session'[q])
                       /\ Extends(session'[q], session[q])
  BY <1>1, <1>4, <1>5, <1>6, SelfExtends DEF SessionsInv, TypeOK
<1>10. \A k : BuiltOn(k) \subseteq BuiltOn(k)'
  BY <1>9, BuiltOnGrows
<1>11. ASSUME NEW s \in Inbound, NEW q \in Peers, Has(session'[q], s), ~Has(session[q], s)
       PROVE  /\ Kind(t) = "decryptPreKeySignal" /\ s = Arg(t).sid
              /\ session'[q].states[s].ids.preKey = Consumes(t)
              /\ Consumes(t) \in preKeys \cup {None}
  <2>1. PICK i \in Incoming : i.msg.type = "preKeySignal" /\ i.msg.sid = s
    BY <1>11 DEF Inbound
  <2>2. s \in Sids
    BY <2>1, ClientAssumption DEF CiphertextMessage
  <2>3. /\ q = p /\ s = Arg(t).sid
        /\ Kind(t) \in {"processPreKeyBundle", "decryptPreKeySignal"}
    BY <1>4, <1>6, <1>11, <2>2
  <2>4. Kind(t) # "processPreKeyBundle"
    BY <1>3, <2>1, <2>3, ClientAssumption
  <2>5. session'[q].states[s].ids = Arg(t).ids
    BY <1>3, <1>5, <1>6, <1>11, <2>3, <2>4 DEF Fits
  <2>. QED
    BY <1>5, <1>11, <2>3, <2>4, <2>5 DEF Consumes
<1>12. \A k : \A s \in BuiltOn(k)' : s \in BuiltOn(k) \/ (k = Consumes(t) /\ s = Arg(t).sid /\ k \in preKeys \cup {None})
  <2>. SUFFICES ASSUME NEW k, NEW s \in BuiltOn(k)', s \notin BuiltOn(k)
                PROVE  k = Consumes(t) /\ s = Arg(t).sid /\ k \in preKeys \cup {None}
    OBVIOUS
  <2>1. PICK q \in Peers : Has(session'[q], s) /\ session'[q].states[s].ids.preKey = k
    BY DEF BuiltOn
  <2>2. s \in Inbound
    BY DEF BuiltOn
  <2>3. PICK i \in Incoming : i.msg.type = "preKeySignal" /\ i.msg.sid = s
    BY <2>2 DEF Inbound
  <2>4. CASE Has(session[q], s)
    <3>1. session[q].states[s].ids = session'[q].states[s].ids
      BY <1>9, <2>1, <2>3, <2>4 DEF Fits
    <3>. QED
      BY <2>1, <2>2, <2>4, <3>1 DEF BuiltOn
  <2>5. CASE ~Has(session[q], s)
    BY <1>11, <2>1, <2>2, <2>5
  <2>. QED  BY <2>4, <2>5
<1>13. \A labels : ~Written(t, labels) /\ ~Written(t, labels)'
  BY <1>3, <1>8 DEF Written
<1>14. HandshakeInv(t)'
  <2>1. Named(Consumes(t))'
    BY <1>5, <1>8 DEF Named
  <2>2. Kind(t) = "processPreKeyBundle" =>
          Current(session'[Peer(t)]).ident = result[t].trusted
    BY <1>5, <1>6 DEF p
  <2>. QED
    BY <1>2, <1>5, <1>7, <1>8, <2>1, <2>2 DEF HandshakeInv, Current
<1>15. PublishInv'
  <2>1. StoredInv(t)'
    BY <1>3, <1>8 DEF StoredInv, Publishes, Running
  <2>. QED
    BY <1>1, <1>8, <2>1 DEF PublishInv
<1>16. PreKeyInv'
  <2>1. ASSUME NEW b \in OwnIds, b.preKey \in preKeys, BuiltOn(b.preKey)' # {}
        PROVE  \E u \in Calls : Pending(u, "removePreKey")' /\ Consumes(u)' = b.preKey
    <3>1. CASE BuiltOn(b.preKey) # {}
      <4>1. PICK u \in Calls : Pending(u, "removePreKey") /\ Consumes(u) = b.preKey
        BY <2>1, <3>1 DEF HandshakeTables, PreKeyInv
      <4>2. u # t
        BY <1>2, <4>1 DEF Pending
      <4>. QED
        BY <1>8, <4>1, <4>2
    <3>2. CASE b.preKey = Consumes(t)
      <4>1. pc'[t] = "removePreKey"
        BY <1>7, <3>2, ClientAssumption
      <4>. QED
        BY <1>2, <1>8, <3>2, <4>1 DEF Pending
    <3>. QED
      BY <1>12, <2>1, <3>1, <3>2
  <2>. QED
    BY <1>2, <2>1 DEF PreKeyInv
<1>17. RemovedInv'
  <2>1. \A b : RowInv(b) => RowInv(b)'
    BY <1>2, <1>10 DEF RowInv, BuiltUnder, Ids
  <2>2. \A u \in Calls : Written(u, {"storeSignedPreKey", "storeKyberPreKey", "return"})' =>
          RowInv(Arg(u))
    BY <1>8, <1>13 DEF HandshakeTables, RemovedInv
  <2>. QED
    BY <1>8, <2>1, <2>2 DEF HandshakeTables, RemovedInv
<1>18. OneTimePreKey'
  <2>1. ASSUME NEW b \in OwnIds, NEW s \in BuiltOn(b.preKey)', NEW r \in BuiltOn(b.preKey)',
               s # r
        PROVE  \E u \in Calls : Stopped(u, "removePreKey")' /\ Arg(u)'.ids.preKey = b.preKey
    <3>1. CASE s \in BuiltOn(b.preKey) /\ r \in BuiltOn(b.preKey)
      <4>1. PICK u \in Calls : Stopped(u, "removePreKey") /\ Arg(u).ids.preKey = b.preKey
        BY <2>1, <3>1 DEF HandshakeTables, OneTimePreKey
      <4>. QED
        BY <1>8, <4>1
    <3>2. CASE /\ BuiltOn(b.preKey) # {}
               /\ b.preKey = Consumes(t) /\ b.preKey \in preKeys \cup {None}
      <4>1. b.preKey \in preKeys /\ b.preKey # None
        BY <3>2, ClientAssumption
      <4>2. PICK u \in Calls : Pending(u, "removePreKey") /\ Consumes(u) = b.preKey
        BY <3>2, <4>1 DEF HandshakeTables, PreKeyInv
      <4>3. u # t
        BY <1>2, <4>2 DEF Pending
      <4>4. Arg(u).ids.preKey = b.preKey
        BY <4>1, <4>2 DEF Consumes
      <4>. QED
        BY <1>8, <4>2, <4>3, <4>4
    <3>. QED
      BY <1>12, <2>1, <3>1, <3>2
  <2>. QED
    BY <2>1 DEF OneTimePreKey
<1>19. CurrentSessionTrusted'
  <2>. SUFFICES ASSUME NEW q \in Peers, session'[q] # None, identity[q] # None
                PROVE  Current(session'[q]).ident = identity[q]
    BY <1>2 DEF CurrentSessionTrusted, Current
  <2>1. CASE q = p
    BY <1>5, <1>6, <2>1 DEF Trusted
  <2>2. CASE q # p
    BY <1>6, <2>2 DEF HandshakeTables, CurrentSessionTrusted
  <2>. QED  BY <2>1, <2>2
<1>20. PinInv'
  <2>. SUFFICES ASSUME NEW b \in Bundles, Has(session'[b.peer], b.sid), identity[b.peer] = None
                PROVE  \E u \in Calls : /\ phase'[u] # "idle" /\ Kind(u)' = "processPreKeyBundle"
                                        /\ Arg(u)' = b /\ Pending(u, "saveIdentity")'
    BY <1>2 DEF PinInv
  <2>1. b.peer \in Peers /\ b.sid \in Sids
    BY ClientAssumption
  <2>2. CASE Has(session[b.peer], b.sid)
    <3>1. PICK u \in Calls : /\ phase[u] # "idle" /\ Kind(u) = "processPreKeyBundle"
                             /\ Arg(u) = b /\ Pending(u, "saveIdentity")
      BY <2>2 DEF HandshakeTables, PinInv
    <3>2. u # t
      BY <1>2, <3>1 DEF Pending
    <3>. QED
      BY <1>8, <3>1, <3>2
  <2>3. CASE ~Has(session[b.peer], b.sid)
    <3>1. /\ Kind(t) \in {"processPreKeyBundle", "decryptPreKeySignal"}
          /\ b.sid = Arg(t).sid
      BY <1>4, <1>6, <2>1, <2>3
    <3>2. Kind(t) # "decryptPreKeySignal"
      BY <1>3, <3>1, ClientAssumption
    <3>3. Arg(t) = b
      BY <1>3, <3>1, <3>2, ClientAssumption
    <3>. QED
      BY <1>2, <1>7, <1>8, <3>1, <3>2, <3>3 DEF Pending
  <2>. QED  BY <2>2, <2>3
<1>21. SessionsInv'
  <2>. SUFFICES ASSUME NEW q \in Peers, NEW s \in Inbound, Has(session'[q], s)
                PROVE  Named(session[q].states[s].ids.preKey)'
    BY <1>9 DEF SessionsInv
  <2>1. CASE Has(session[q], s)
    <3>1. PICK i \in Incoming : i.msg.type = "preKeySignal" /\ i.msg.sid = s
      BY DEF Inbound
    <3>2. session'[q].states[s].ids = session[q].states[s].ids
      BY <1>9, <2>1, <3>1 DEF Fits
    <3>3. Named(session[q].states[s].ids.preKey)
      BY <1>1, <2>1 DEF SessionsInv
    <3>. QED
      BY <1>8, <3>2, <3>3 DEF Named
  <2>2. CASE ~Has(session[q], s)
    <3>1. session'[q].states[s].ids.preKey = Consumes(t)
      BY <1>11, <2>2
    <3>. QED
      BY <1>5, <1>8, <3>1 DEF Named
  <2>. QED  BY <2>1, <2>2
<1>22. \A u \in Calls : HandshakeInv(u)'
  BY <1>8, <1>14
<1>. QED
  BY <1>15, <1>16, <1>17, <1>18, <1>19, <1>20, <1>21, <1>22 DEF HandshakeTables

-----------------------------------------------------------------------------
(* The steps of the environment *)

\* A step after which no call is at another label, and the tables are as they were.
LEMMA SameTables ==
  ASSUME HandshakeTables, TypeOK', UNCHANGED tables,
         \A u \in Calls :
           /\ Kind(u)' = Kind(u) /\ Arg(u)' = Arg(u) /\ Publishes(u)' = Publishes(u)
           /\ HandshakeInv(u)' /\ StoredInv(u)'
           /\ (phase'[u] = "idle") = (phase[u] = "idle")
           /\ \A l : (Pending(u, l) => Pending(u, l)') /\ (Stopped(u, l) => Stopped(u, l)')
           /\ \A labels : Written(u, labels)' => Written(u, labels),
         \A k : Named(k) => Named(k)'
  PROVE  HandshakeTables'
<1>1. /\ session' = session /\ identity' = identity /\ preKeys' = preKeys
      /\ signedPreKeys' = signedPreKeys /\ kyberPreKeys' = kyberPreKeys
  BY DEF tables
<1>2. /\ \A k : BuiltOn(k)' = BuiltOn(k)
      /\ \A u \in Calls : Consumes(u)' = Consumes(u)
  BY <1>1 DEF BuiltOn, Consumes
<1>3. PublishInv'
  BY <1>1 DEF HandshakeTables, PublishInv
<1>4. PreKeyInv' /\ RemovedInv'
  <2>1. \A b : RowInv(b)' = RowInv(b)
    BY <1>1, <1>2 DEF RowInv, BuiltUnder
  <2>2. RemovedInv'
    BY <2>1 DEF HandshakeTables, RemovedInv
  <2>. QED
    BY <1>1, <1>2, <2>2 DEF HandshakeTables, PreKeyInv
<1>5. OneTimePreKey' /\ CurrentSessionTrusted'
  BY <1>1, <1>2 DEF HandshakeTables, OneTimePreKey, CurrentSessionTrusted
<1>6. PinInv'
  BY <1>1 DEF HandshakeTables, PinInv
<1>7. SessionsInv'
  BY <1>1 DEF HandshakeTables, SessionsInv
<1>. QED
  BY <1>3, <1>4, <1>5, <1>6, <1>7 DEF HandshakeTables

\* A new call names a prekey only if it has been offered, and a bundle is published by one call.
LEMMA InvokeTables ==
  ASSUME ClientInv, HandshakeTables, TypeOK', NEW t \in Calls, Invoke(t)
  PROVE  HandshakeTables'
<1>1. /\ TypeOK /\ PublishInv /\ SessionsInv
      /\ \A u \in Calls : CallInv(u) /\ HandshakeInv(u)
  BY DEF ClientInv, HandshakeTables
<1>2. PICK r \in Requests : Arrives(r) /\ request' = [request EXCEPT ![t] = r]
  BY DEF Invoke
<1>3. /\ OnlyCall(t) /\ UNCHANGED tables
      /\ phase[t] = "idle" /\ phase'[t] = "queued"
      /\ request'[t] = r
  BY <1>1, <1>2 DEF Invoke, RunExclusive, OnlyCall, loaded, locals, TypeOK, QueueTypeOK
<1>4. /\ session' = session /\ identity' = identity /\ preKeys' = preKeys
      /\ signedPreKeys' = signedPreKeys /\ kyberPreKeys' = kyberPreKeys
      /\ \A k : BuiltOn(k)' = BuiltOn(k)
  BY <1>3 DEF tables, BuiltOn
<1>5. \A k : Named(k) => Named(k)'
  BY <1>3, OfferedStays DEF OnlyCall
<1>6. /\ Kind(t)' = r.kind /\ Arg(t)' = r.arg
      /\ Consumes(t)' = IF r.kind = "decryptPreKeySignal" THEN r.arg.ids.preKey ELSE None
      /\ \A l : ~Pending(t, l) /\ ~Stopped(t, l)
      /\ \A labels : ~Written(t, labels)'
      /\ ~Running(t)'
  BY <1>3 DEF Kind, Arg, Consumes, Pending, Stopped, Written, Running
<1>7. \A u \in Calls : u # t =>
        /\ Kind(u)' = Kind(u) /\ Arg(u)' = Arg(u) /\ Publishes(u)' = Publishes(u)
        /\ Consumes(u)' = Consumes(u)
        /\ phase'[u] = phase[u]
        /\ \A l : (Pending(u, l) => Pending(u, l)') /\ (Stopped(u, l) => Stopped(u, l)')
        /\ \A labels : Written(u, labels)' = Written(u, labels)
  BY <1>3 DEF OnlyCall, Kind, Arg, Consumes, Pending, Stopped, Written, Publishes, Running
<1>8. HandshakeInv(t)'
  <2>1. CASE r.kind # "decryptPreKeySignal"
    BY <1>6, <2>1 DEF HandshakeInv, Named
  <2>2. CASE r.kind = "decryptPreKeySignal"
    <3>1. MayArrive(r.arg) /\ r.arg.type # "signal"
      BY <1>2, <2>2 DEF Arrives
    <3>2. PICK b \in Offered : r.arg.ids.preKey \in {b.preKey, None}
      BY <3>1 DEF MayArrive
    <3>3. Named(r.arg.ids.preKey)
      BY <3>2 DEF Named
    <3>4. Named(Consumes(t))'
      BY <1>5, <1>6, <2>2, <3>3 DEF Named
    <3>. QED
      BY <1>6, <3>4 DEF HandshakeInv
  <2>. QED  BY <2>1, <2>2
<1>9. \A u \in Calls : HandshakeInv(u)'
  <2>1. ASSUME NEW u \in Calls, u # t PROVE HandshakeInv(u)'
    <3>1. Named(Consumes(u)) => Named(Consumes(u))'
      BY <1>5, <1>7, <2>1 DEF Named
    <3>. QED
      BY <1>1, <1>3, <1>4, <2>1, <3>1, HandshakeStays DEF OnlyCall
  <2>. QED  BY <1>8, <2>1
<1>10. PublishInv'
  <2>1. Publishes(t)' => /\ r.arg \in OwnIds \ Published
                         /\ \A u \in Calls : u # t /\ Publishes(u) => Arg(u) # r.arg
    <3>. SUFFICES ASSUME r.kind = "publishOneTimePreKey"
                  PROVE  /\ r.arg \in OwnIds \ Published
                         /\ \A u \in Calls : u # t /\ Publishes(u) => Arg(u) # r.arg
      BY <1>6 DEF Publishes
    <3>1. /\ r.arg \notin Published
          /\ \A u \in Calls : request[u] # None => request[u].arg # r.arg
      BY <1>2 DEF Arrives
    <3>2. \A u \in Calls : Publishes(u) => request[u] # None
      BY <1>1, RequestAssumption DEF Publishes, CallInv, RequestInv
    <3>3. r.arg \in OwnIds
      BY <1>2 DEF Requests
    <3>. QED
      BY <3>1, <3>2, <3>3 DEF Arg
  <2>2. \A u \in Calls :
          /\ StoredInv(u)'
          /\ Publishes(u)' => Arg(u)' \in OwnIds \ Published
    <3>1. ASSUME NEW u \in Calls, u # t PROVE StoredInv(u)'
      BY <1>1, <1>3, <1>4, <1>7, <3>1 DEF PublishInv, StoredInv, OnlyCall, Running
    <3>2. StoredInv(t)'
      BY <1>6 DEF StoredInv
    <3>. QED
      BY <1>1, <1>6, <1>7, <2>1, <3>1, <3>2 DEF PublishInv
  <2>3. ASSUME NEW u \in Calls, NEW v \in Calls, Publishes(u)', Publishes(v)',
               Arg(u)' = Arg(v)'
        PROVE  u = v
    BY <1>1, <1>6, <1>7, <2>1, <2>3 DEF PublishInv
  <2>. QED
    BY <1>1, <1>4, <2>2, <2>3 DEF PublishInv
<1>11. PreKeyInv'
  BY <1>4, <1>6, <1>7 DEF HandshakeTables, PreKeyInv
<1>12. RemovedInv'
  <2>1. \A b : RowInv(b)' = RowInv(b)
    BY <1>4 DEF RowInv, BuiltUnder
  <2>2. \A u \in Calls : Written(u, {"storeSignedPreKey", "storeKyberPreKey", "return"})' =>
          RowInv(Arg(u)) /\ Arg(u)' = Arg(u)
    BY <1>6, <1>7 DEF HandshakeTables, RemovedInv
  <2>. QED
    BY <2>1, <2>2 DEF HandshakeTables, RemovedInv
<1>13. OneTimePreKey'
  BY <1>4, <1>6, <1>7 DEF HandshakeTables, OneTimePreKey
<1>14. CurrentSessionTrusted' /\ SessionsInv'
  BY <1>1, <1>4, <1>5 DEF HandshakeTables, CurrentSessionTrusted, SessionsInv
<1>15. PinInv'
  BY <1>4, <1>6, <1>7 DEF HandshakeTables, PinInv
<1>. QED
  BY <1>9, <1>10, <1>11, <1>12, <1>13, <1>14, <1>15 DEF HandshakeTables

\* A crash stops the calls in progress where they are.
LEMMA KillTables ==
  ASSUME ClientInv, HandshakeTables, TypeOK', Kill
  PROVE  HandshakeTables'
<1>1. /\ UNCHANGED tables /\ request' = request /\ pc' = pc /\ result' = result
      /\ remoteIdentity' = remoteIdentity
      /\ \A u \in Calls : phase'[u] = IF phase[u] \in {"queued", "running"} THEN "lost"
                                       ELSE phase[u]
  BY DEF Kill, Restart, volatile, locals
<1>2. \A k : Named(k) => Named(k)'
  BY <1>1, OfferedStays
<1>3. \A u \in Calls :
        /\ Kind(u)' = Kind(u) /\ Arg(u)' = Arg(u) /\ Publishes(u)' = Publishes(u)
        /\ Consumes(u)' = Consumes(u) /\ ~Running(u)'
        /\ (phase'[u] = "idle") = (phase[u] = "idle")
        /\ \A l : (Pending(u, l) => Pending(u, l)') /\ (Stopped(u, l) => Stopped(u, l)')
        /\ \A labels : Written(u, labels)' => Written(u, labels)
  BY <1>1 DEF Kind, Arg, Publishes, Consumes, Running, Pending, Stopped, Written
<1>4. \A u \in Calls : HandshakeInv(u)'
  BY <1>2, <1>3 DEF HandshakeTables, HandshakeInv, Named
<1>5. \A u \in Calls : StoredInv(u)'
  BY <1>3 DEF StoredInv
<1>. QED
  BY <1>1, <1>2, <1>3, <1>4, <1>5, SameTables

\* Nothing changes.
LEMMA StutterTables ==
  ASSUME ClientInv, HandshakeTables, TypeOK', UNCHANGED vars
  PROVE  HandshakeTables'
<1>1. /\ UNCHANGED tables /\ phase' = phase /\ request' = request /\ pc' = pc
      /\ result' = result /\ remoteIdentity' = remoteIdentity /\ preKey' = preKey
      /\ existingSession' = existingSession
  BY DEF vars, queueVars, volatile, locals, loaded
<1>2. \A k : Named(k) => Named(k)'
  BY <1>1, OfferedStays
<1>3. \A u \in Calls :
        /\ Kind(u)' = Kind(u) /\ Arg(u)' = Arg(u) /\ Publishes(u)' = Publishes(u)
        /\ (phase'[u] = "idle") = (phase[u] = "idle")
        /\ \A l : (Pending(u, l) => Pending(u, l)') /\ (Stopped(u, l) => Stopped(u, l)')
        /\ \A labels : Written(u, labels)' => Written(u, labels)
  BY <1>1 DEF Kind, Arg, Publishes, Running, Pending, Stopped, Written
<1>4. ASSUME NEW u \in Calls PROVE HandshakeInv(u)'
  <2>1. Named(Consumes(u)) => Named(Consumes(u))'
    BY <1>1, <1>2 DEF Named, Consumes, Kind, Arg
  <2>. QED
    BY <1>1, <2>1, HandshakeStays DEF HandshakeTables, tables
<1>5. \A u \in Calls : StoredInv(u)'
  BY <1>1 DEF HandshakeTables, PublishInv, StoredInv, tables, Running, Kind, Arg
<1>. QED
  BY <1>1, <1>2, <1>3, <1>4, <1>5, SameTables

-----------------------------------------------------------------------------
(* The theorems *)

\* A new device holds what it published and no session.
LEMMA InitTables == Init => HandshakeTables
<1>. SUFFICES ASSUME Init PROVE HandshakeTables
  OBVIOUS
<1>1. /\ \A t \in Calls : phase[t] = "idle"
      /\ \A p \in Peers : session[p] = None
      /\ preKeys = {b.preKey : b \in Published} \ {None}
      /\ signedPreKeys = {b.signed : b \in Published}
      /\ kyberPreKeys = {b.kyber : b \in Published}
  BY DEF Init, QueueInit
<1>2. ASSUME NEW t \in Calls
      PROVE  ~Publishes(t) /\ ~Running(t) /\ \A labels : ~Written(t, labels)
  <2>1. ~Publishes(t) /\ ~Running(t)
    BY <1>1 DEF Publishes, Running
  <2>. QED
    BY <2>1 DEF Written
<1>3. PublishInv /\ \A t \in Calls : HandshakeInv(t)
  <2>1. \A t \in Calls : StoredInv(t)
    BY <1>2 DEF StoredInv
  <2>2. PublishInv
    BY <1>2, <2>1 DEF PublishInv
  <2>. QED
    BY <1>1, <1>2, <2>2 DEF HandshakeInv
<1>4. SessionsInv /\ \A k : BuiltOn(k) = {}
  BY <1>1 DEF SessionsInv, Fits, BuiltOn, Has
<1>5. PreKeyInv /\ OneTimePreKey
  BY <1>4 DEF PreKeyInv, OneTimePreKey
<1>6. RemovedInv
  <2>1. \A b \in Published : b.preKey # None
    BY ClientAssumption
  <2>. QED
    BY <1>1, <1>2, <2>1 DEF RemovedInv, RowInv, Ids
<1>7. CurrentSessionTrusted /\ PinInv
  <2>1. \A b \in Bundles : b.peer \in Peers
    BY ClientAssumption
  <2>. QED
    BY <1>1, <2>1 DEF CurrentSessionTrusted, PinInv, Has
<1>. QED
  BY <1>3, <1>4, <1>5, <1>6, <1>7, InitTypes DEF HandshakeTables

\* Every step of the device preserves the invariant of the tables.
LEMMA StepTables ==
  ASSUME ClientInv, ChainInv, ClientInv', HandshakeTables, [Next]_vars
  PROVE  HandshakeTables'
<1>1. MutualExclusion
  BY ChainExcludes
<1>2. TypeOK'
  BY DEF ClientInv
<1>3. ASSUME NEW t \in Calls, Write(t) PROVE HandshakeTables'
  BY <1>1, <1>2, <1>3, LaterWriteTables, StorePreKeyTables, RemovePreKeyTables,
     SaveIdentityTables, StoreSessionTables DEF Write
<1>. QED
  BY <1>2, <1>3, InvokeTables, BeginTables, ReadTables, RunOpTables, ReturnTables,
     ThrowTables, KillTables, StutterTables DEF Next, Step, StoreFails

\* What a session's handshake stands on is published first and deleted last, in every
\* reachable state.
THEOREM ClientHandshakeTables == Spec => []HandshakeTables
<1>1. Spec => []ChainInv
  BY ClientImplementsQueue, ChainInvariant, PTL
<1>2. ClientInv /\ ChainInv /\ ClientInv' /\ HandshakeTables /\ [Next]_vars => HandshakeTables'
  BY StepTables
<1>. QED
  BY <1>1, <1>2, InitTables, ClientInvariant, PTL DEF Spec

-----------------------------------------------------------------------------
(* What an offered bundle stands on *)

\* A step by which no call returns offers no bundle.
LEMMA NoReturnNoOffer ==
  ASSUME \A u \in Calls : phase'[u] = "fulfilled" =>
           phase[u] = "fulfilled" /\ request'[u] = request[u]
  PROVE  Offered' \subseteq Offered
BY DEF Offered, Fulfilled

\* A bundle is offered by the return of a call, and the tables of signed and of kyber
\* prekeys change by the second and the third write of a publication.
LEMMA OfferingSteps ==
  ASSUME TypeOK, NEW t \in Calls, Invoke(t) \/ Step(t) \/ StoreFails(t)
  PROVE  /\ Return(t) \/ Offered' \subseteq Offered
         /\ StoreSignedPreKey(t) \/ signedPreKeys' = signedPreKeys
         /\ StoreKyberPreKey(t) \/ kyberPreKeys' = kyberPreKeys
<1>. USE DEF TypeOK, QueueTypeOK
<1>1. CASE Invoke(t)
  <2>1. Offered' \subseteq Offered
    BY <1>1, NoReturnNoOffer DEF Invoke, RunExclusive
  <2>. QED
    BY <1>1, <2>1 DEF Invoke, tables
<1>2. CASE Begin(t)
  <2>1. Offered' \subseteq Offered
    BY <1>2, NoReturnNoOffer DEF Begin, StartFn
  <2>. QED
    BY <1>2, <2>1 DEF Begin, tables
<1>3. ASSUME NEW err, Throw(t, err)
      PROVE  Offered' \subseteq Offered /\ UNCHANGED tables
  <2>1. Offered' \subseteq Offered
    BY <1>3, NoReturnNoOffer DEF Throw, SettleFn
  <2>. QED
    BY <1>3, <2>1 DEF Throw
<1>4. CASE StoreFails(t)
  BY <1>3, <1>4 DEF StoreFails, tables
<1>5. ASSUME request' = request, phase' = phase PROVE Offered' \subseteq Offered
  BY <1>5, NoReturnNoOffer
<1>6. CASE Read(t) \/ RunOp(t)
  <2>1. \/ \E err : Throw(t, err)
        \/ UNCHANGED tables /\ request' = request /\ phase' = phase
    BY <1>6 DEF Read, LoadSession, GetIdentity, LoadPreKey, LoadSignedPreKey, LoadKyberPreKeys,
                RunOp, queueVars
  <2>. QED
    BY <1>3, <1>5, <2>1 DEF tables
<1>7. CASE Write(t)
  <2>1. request' = request /\ phase' = phase
    BY <1>7 DEF Write, StoreSession, RemovePreKey, MarkKyberPreKeyUsed, SaveIdentity,
                StorePreKey, StoreSignedPreKey, StoreKyberPreKey, queueVars
  <2>2. /\ StoreSignedPreKey(t) \/ signedPreKeys' = signedPreKeys
        /\ StoreKyberPreKey(t) \/ kyberPreKeys' = kyberPreKeys
    BY <1>7 DEF Write, StoreSession, RemovePreKey, MarkKyberPreKeyUsed, SaveIdentity,
                StorePreKey, StoreSignedPreKey, StoreKyberPreKey
  <2>. QED
    BY <1>5, <2>1, <2>2
<1>8. CASE Return(t)
  BY <1>8 DEF Return, tables
<1>. QED
  BY <1>1, <1>2, <1>4, <1>6, <1>7, <1>8 DEF Step

\* A call returns a bundle when its three prekeys are there: what it wrote first no other
\* call has replaced since, because the queue lets none run in between.
LEMMA ReturnOffersStored ==
  ASSUME PublishInv, TypeOK, NEW t \in Calls, Return(t), NEW b \in Offered' \ Offered
  PROVE  b.preKey \in preKeys' /\ b.signed \in signedPreKeys' /\ b.kyber \in kyberPreKeys'
<1>1. /\ Running(t) /\ pc[t] = "return" /\ request' = request /\ UNCHANGED tables
      /\ \A u \in Calls : u # t => phase'[u] = phase[u]
  BY DEF Return, At, SettleFn, TypeOK, QueueTypeOK, volatile, Running
<1>2. PICK u \in Calls : Fulfilled(u, "publishOneTimePreKey")' /\ b = request[u].arg
  BY <1>1 DEF Offered, Fulfilled
<1>3. u = t /\ Kind(t) = "publishOneTimePreKey" /\ b = Arg(t)
  BY <1>1, <1>2 DEF Offered, Fulfilled, Kind, Arg
<1>4. StoredInv(t)
  BY DEF PublishInv
<1>. QED
  BY <1>1, <1>3, <1>4 DEF StoredInv, tables

\* The tables of signed and of kyber prekeys lose no id, so an offered bundle finds a row
\* under each of its own.
LEMMA OfferedRowsStay ==
  ASSUME HandshakeTables, OfferedRows, [Next]_vars
  PROVE  OfferedRows'
<1>1. TypeOK /\ PublishInv
  BY DEF HandshakeTables
<1>2. ASSUME NEW table, NEW k PROVE Ids(table) \subseteq Ids(Upsert(table, k))
  BY DEF Ids, Upsert, DeleteRow
<1>3. ASSUME Offered' \subseteq Offered, UNCHANGED <<signedPreKeys, kyberPreKeys>>
      PROVE  OfferedRows'
  BY <1>3 DEF OfferedRows
<1>4. ASSUME NEW t \in Calls, Invoke(t) \/ Step(t) \/ StoreFails(t) PROVE OfferedRows'
  <2>1. /\ Return(t) \/ Offered' \subseteq Offered
        /\ StoreSignedPreKey(t) \/ signedPreKeys' = signedPreKeys
        /\ StoreKyberPreKey(t) \/ kyberPreKeys' = kyberPreKeys
    BY <1>1, <1>4, OfferingSteps
  <2>2. /\ Ids(signedPreKeys) \subseteq Ids(signedPreKeys')
        /\ Ids(kyberPreKeys) \subseteq Ids(kyberPreKeys')
    BY <1>2, <2>1 DEF StoreSignedPreKey, StoreKyberPreKey
  <2>3. ASSUME NEW b \in Offered' \ Offered
        PROVE  Id[b.signed] \in Ids(signedPreKeys') /\ Id[b.kyber] \in Ids(kyberPreKeys')
    <3>1. b.signed \in signedPreKeys' /\ b.kyber \in kyberPreKeys'
      BY <1>1, <2>1, <2>3, ReturnOffersStored
    <3>. QED
      BY <3>1 DEF Ids
  <2>. QED
    BY <2>2, <2>3 DEF OfferedRows, Ids
<1>5. CASE Kill
  <2>1. Offered' \subseteq Offered
    BY <1>5, NoReturnNoOffer DEF Kill, Restart, volatile
  <2>. QED
    BY <1>3, <1>5, <2>1 DEF Kill, tables
<1>6. CASE UNCHANGED vars
  <2>1. Offered' \subseteq Offered
    BY <1>6, NoReturnNoOffer DEF vars, queueVars, volatile
  <2>. QED
    BY <1>3, <1>6, <2>1 DEF vars, tables
<1>. QED
  BY <1>4, <1>5, <1>6 DEF Next

\* The inductive invariant of the tables holds in every reachable state: what a stopped
\* operation leaves half done is its last write, and no bundle that was offered names an id
\* of a signed or kyber prekey that has no row.
THEOREM ClientTables == Spec => []TableInv
<1>1. Init => OfferedRows
  <2>. SUFFICES ASSUME Init PROVE OfferedRows
    OBVIOUS
  <2>1. Offered = Published
    BY DEF Init, QueueInit, Offered, Fulfilled
  <2>. QED
    BY <2>1 DEF Init, OfferedRows, Ids
<1>2. HandshakeTables /\ OfferedRows /\ [Next]_vars => OfferedRows'
  BY OfferedRowsStay
<1>3. HandshakeTables /\ OfferedRows => TableInv
  BY DEF TableInv
<1>. QED
  BY <1>1, <1>2, <1>3, ClientHandshakeTables, PTL DEF Spec

\* A bundle is offered with its three prekeys in place, and its signed and its kyber
\* prekey are given up to a prekey published under the same id and to nothing else.
THEOREM ClientOfferIsBacked == Spec => OfferIsBacked
<1> DEFINE Backed ==
      /\ \A b \in Offered' \ Offered :
           b.preKey \in preKeys' /\ b.signed \in signedPreKeys' /\ b.kyber \in kyberPreKeys'
      /\ \A b \in Offered :
           /\ b.signed \in signedPreKeys \ signedPreKeys' =>
                \E t \in Calls : /\ Stores(t, "storeSignedPreKey")
                                 /\ Id[Arg(t).signed] = Id[b.signed]
                                 /\ Arg(t).signed \in signedPreKeys'
           /\ b.kyber \in kyberPreKeys \ kyberPreKeys' =>
                \E t \in Calls : /\ Stores(t, "storeKyberPreKey")
                                 /\ Id[Arg(t).kyber] = Id[b.kyber]
                                 /\ Arg(t).kyber \in kyberPreKeys'
<1>1. ASSUME ClientInv, HandshakeTables, [Next]_vars PROVE Backed
  <2>1. TypeOK /\ PublishInv
    BY <1>1 DEF HandshakeTables
  <2>2. ASSUME NEW t \in Calls, Invoke(t) \/ Step(t) \/ StoreFails(t) PROVE Backed
    <3>1. /\ Return(t) \/ Offered' \subseteq Offered
          /\ StoreSignedPreKey(t) \/ signedPreKeys' = signedPreKeys
          /\ StoreKyberPreKey(t) \/ kyberPreKeys' = kyberPreKeys
      BY <2>1, <2>2, OfferingSteps
    <3>2. At(t, "storeSignedPreKey") \/ At(t, "storeKyberPreKey") =>
            Kind(t) = "publishOneTimePreKey"
      BY <1>1 DEF ClientInv, CallInv, LabelInv, At, Running, Publishing
    <3>3. ASSUME NEW b, b.signed \in signedPreKeys \ signedPreKeys'
          PROVE  /\ Stores(t, "storeSignedPreKey")
                 /\ Id[Arg(t).signed] = Id[b.signed] /\ Arg(t).signed \in signedPreKeys'
      BY <3>1, <3>2, <3>3 DEF StoreSignedPreKey, Upsert, DeleteRow, Stores, At
    <3>4. ASSUME NEW b, b.kyber \in kyberPreKeys \ kyberPreKeys'
          PROVE  /\ Stores(t, "storeKyberPreKey")
                 /\ Id[Arg(t).kyber] = Id[b.kyber] /\ Arg(t).kyber \in kyberPreKeys'
      BY <3>1, <3>2, <3>4 DEF StoreKyberPreKey, Upsert, DeleteRow, Stores, At
    <3>5. \A b \in Offered' \ Offered :
            b.preKey \in preKeys' /\ b.signed \in signedPreKeys' /\ b.kyber \in kyberPreKeys'
      BY <2>1, <3>1, ReturnOffersStored
    <3>. QED
      BY <3>3, <3>4, <3>5
  <2>3. ASSUME Kill PROVE Backed
    <3>1. UNCHANGED tables /\ Offered' \subseteq Offered
      BY <2>3, NoReturnNoOffer DEF Kill, Restart, volatile
    <3>. QED
      BY <3>1 DEF tables
  <2>4. ASSUME UNCHANGED vars PROVE Backed
    <3>1. UNCHANGED tables /\ Offered' \subseteq Offered
      BY <2>4, NoReturnNoOffer DEF vars, queueVars, volatile
    <3>. QED
      BY <3>1 DEF tables
  <2>. QED
    BY <1>1, <2>2, <2>3, <2>4 DEF Next
<1>. QED
  BY <1>1, ClientHandshakeTables, ClientInvariant, PTL DEF Spec, OfferIsBacked

\* The row of a one-time prekey is deleted only after a session built on a prekey of its
\* id is stored.
THEOREM ClientPreKeyOutlivesHandshake == Spec => []PreKeyOutlivesHandshake
<1>1. HandshakeTables => PreKeyOutlivesHandshake
  <2>. SUFFICES ASSUME HandshakeTables, NEW b \in Offered PROVE RowInv(b)
    BY DEF PreKeyOutlivesHandshake, RowInv
  <2>1. CASE b \in Published
    BY <2>1 DEF HandshakeTables, RemovedInv
  <2>2. ASSUME NEW t \in Calls, Fulfilled(t, "publishOneTimePreKey"), Arg(t) = b
        PROVE  RowInv(b)
    <3>1. Written(t, {"storeSignedPreKey", "storeKyberPreKey", "return"})
      BY <2>2 DEF Written, Publishes, Fulfilled, Kind
    <3>. QED
      BY <2>2, <3>1 DEF HandshakeTables, RemovedInv
  <2>. QED
    BY <2>1, <2>2 DEF Offered, Arg
<1>. QED
  BY <1>1, ClientHandshakeTables, PTL

-----------------------------------------------------------------------------
(* Prekeys used once, and identities pinned *)

\* A one-time prekey carries one session, unless a crash or a failed write came
\* between the write of the session and the removal of the prekey.
THEOREM ClientOneTimePreKey == Spec => []OneTimePreKey
<1>1. HandshakeTables => OneTimePreKey
  BY DEF HandshakeTables
<1>. QED
  BY <1>1, ClientHandshakeTables, PTL

\* The session the next message is encrypted with has the pinned identity.
THEOREM ClientCurrentSessionTrusted == Spec => []CurrentSessionTrusted
<1>1. HandshakeTables => CurrentSessionTrusted
  BY DEF HandshakeTables
<1>. QED
  BY <1>1, ClientHandshakeTables, PTL

\* A session this device started is found unpinned only while the write of the
\* identity is pending or when the call was stopped there.
THEOREM ClientUnpinnedOnlyWhenStopped == Spec => []UnpinnedOnlyWhenStopped
<1>1. ClientInv /\ HandshakeTables => UnpinnedOnlyWhenStopped
  <2>. SUFFICES ASSUME ClientInv, HandshakeTables, NEW b \in Bundles,
                       Has(session[b.peer], b.sid), identity[b.peer] = None
                PROVE  \E t \in Calls : /\ request[t] # None
                                        /\ Arg(t) = b
                                        /\ At(t, "saveIdentity") \/ Stopped(t, "saveIdentity")
    BY DEF UnpinnedOnlyWhenStopped
  <2>1. PICK t \in Calls : phase[t] # "idle" /\ Arg(t) = b /\ Pending(t, "saveIdentity")
    BY DEF HandshakeTables, PinInv
  <2>2. request[t] # None
    BY <2>1, RequestAssumption DEF ClientInv, CallInv, RequestInv
  <2>. QED
    BY <2>1, <2>2 DEF Pending, At, Stopped
<1>. QED
  BY <1>1, ClientHandshakeTables, ClientInvariant, PTL
=============================================================================
