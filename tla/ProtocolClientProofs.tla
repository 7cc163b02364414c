------------------------ MODULE ProtocolClientProofs ------------------------
(***************************************************************************)
(* Proofs about the promise chain of runExclusive, for every set of calls, *)
(* and about one device, for any set of calls, peers, bundles and messages *)
(* that ClientAssumption allows.  ChainInv makes the local guard of the    *)
(* chain (one promise has settled) as strong as the global one (everything *)
(* earlier has).  The steps of a call are steps of the queue or leave it   *)
(* alone, so the theorems about the queue hold of the device; mutual       *)
(* exclusion then makes ClientInv inductive.                               *)
(***************************************************************************)
EXTENDS ProtocolClient, TLAPS

USE DEF Phases, Outcomes

-----------------------------------------------------------------------------
(* The promise chain *)

\* A new store: no call, and the queue is Promise.resolve().
LEMMA ChainInit == QueueInit => ChainInv
  BY DEF QueueInit, ChainInv, QueueTypeOK, OrderOnce, LiveInOrder, OrderMade,
         TailIsLast, PrevIsPredecessor, BegunAfterSettled, Live

\* A call of runExclusive appends itself to the chain.
LEMMA ChainRunExclusive ==
  ASSUME ChainInv, NEW t \in Calls, RunExclusive(t)
  PROVE  ChainInv'
<1> DEFINE n == Len(order)
<1>1. /\ n \in Nat
      /\ \A i \in 1 .. n : order[i] \in Calls
  BY DEF ChainInv, QueueTypeOK
<1>2. /\ order' \in Seq(Calls)
      /\ Len(order') = n + 1
      /\ \A i \in 1 .. n : order'[i] = order[i]
      /\ order'[n + 1] = t
      /\ order' # << >>
  BY DEF RunExclusive, ChainInv, QueueTypeOK
<1>3. \A i \in 1 .. n : order[i] # t
  BY DEF ChainInv, OrderMade, RunExclusive
<1>4. /\ phase' \in [Calls -> Phases]
      /\ phase'[t] = "queued"
      /\ \A u \in Calls : u # t => phase'[u] = phase[u]
      /\ \A i \in 1 .. n : phase'[order[i]] = phase[order[i]]
  BY <1>1, <1>3 DEF RunExclusive, ChainInv, QueueTypeOK
<1>5. /\ prev' \in [Calls -> Calls \cup {Resolved}]
      /\ prev'[t] = tail
      /\ \A i \in 1 .. n : prev'[order[i]] = prev[order[i]]
      /\ tail' = t
  BY <1>1, <1>3 DEF RunExclusive, ChainInv, QueueTypeOK
<1>6. QueueTypeOK'
  BY <1>2, <1>4, <1>5 DEF QueueTypeOK
<1>7. OrderOnce'
  BY <1>1, <1>2, <1>3 DEF ChainInv, OrderOnce
<1>8. LiveInOrder'
  <2> SUFFICES ASSUME NEW u \in Calls, Live(u)'
               PROVE  \E i \in 1 .. Len(order') : order'[i] = u
    BY DEF LiveInOrder
  <2>1. CASE u = t
    BY <2>1, <1>1, <1>2
  <2>2. CASE u # t
    BY <2>2, <1>1, <1>2, <1>4 DEF ChainInv, LiveInOrder, Live
  <2> QED BY <2>1, <2>2
<1>9. OrderMade'
  BY <1>1, <1>2, <1>4 DEF ChainInv, OrderMade
<1>10. TailIsLast'
  BY <1>1, <1>2, <1>5 DEF TailIsLast
<1>11. PrevIsPredecessor'
  <2> SUFFICES ASSUME NEW i \in 1 .. (n + 1)
               PROVE  prev'[order'[i]] = IF i = 1 THEN Resolved ELSE order'[i - 1]
    BY <1>2 DEF PrevIsPredecessor
  <2>1. CASE i \in 1 .. n
    <3>1. prev[order[i]] = IF i = 1 THEN Resolved ELSE order[i - 1]
      BY <2>1 DEF ChainInv, PrevIsPredecessor
    <3>2. i # 1 => order'[i - 1] = order[i - 1]
      BY <2>1, <1>1, <1>2
    <3> QED BY <2>1, <3>1, <3>2, <1>2, <1>5
  <2>2. CASE i = n + 1
    <3>1. tail = IF n = 0 THEN Resolved ELSE order[n]
      BY DEF ChainInv, TailIsLast, QueueTypeOK
    <3> QED BY <2>2, <3>1, <1>1, <1>2, <1>5
  <2> QED BY <2>1, <2>2, <1>1
<1>12. BegunAfterSettled'
  <2> SUFFICES ASSUME NEW i \in 1 .. (n + 1), phase'[order'[i]] # "queued",
                      NEW j \in 1 .. (i - 1)
               PROVE  phase'[order'[j]] \in Outcomes
    BY <1>2 DEF BegunAfterSettled
  <2>1. i \in 1 .. n /\ j \in 1 .. n
    BY <1>1, <1>2, <1>4
  <2> QED BY <2>1, <1>2, <1>4 DEF ChainInv, BegunAfterSettled
<1> QED BY <1>6, <1>7, <1>8, <1>9, <1>10, <1>11, <1>12 DEF ChainInv

\* The local guard of the code implies the global one of SerialQueue.
LEMMA SettledChain ==
  ASSUME ChainInv, ResolvedAssumption, NEW i \in 1 .. Len(order), Settled(prev[order[i]])
  PROVE  \A j \in 1 .. (i - 1) : phase[order[j]] \in Outcomes
<1>1. /\ Len(order) \in Nat
      /\ \A k \in 1 .. Len(order) : order[k] \in Calls
  BY DEF ChainInv, QueueTypeOK
<1>2. CASE i = 1
  BY <1>2
<1>3. CASE i # 1
  <2>1. i - 1 \in 1 .. Len(order) /\ prev[order[i]] = order[i - 1]
    BY <1>1, <1>3 DEF ChainInv, PrevIsPredecessor
  <2>2. phase[order[i - 1]] \in Outcomes
    BY <1>1, <2>1 DEF Settled
  <2>3. \A j \in 1 .. (i - 2) : phase[order[j]] \in Outcomes
    BY <2>1, <2>2 DEF ChainInv, BegunAfterSettled
  <2> QED BY <2>1, <2>2, <2>3, <1>1
<1> QED BY <1>2, <1>3

\* A function is entered only when everything before it has settled.
LEMMA ChainStartFn ==
  ASSUME ChainInv, ResolvedAssumption, NEW t \in Calls, StartFn(t)
  PROVE  ChainInv'
<1>1. /\ Len(order) \in Nat
      /\ \A k \in 1 .. Len(order) : order[k] \in Calls
  BY DEF ChainInv, QueueTypeOK
<1>2. /\ phase' \in [Calls -> Phases]
      /\ phase'[t] = "running"
      /\ \A u \in Calls : u # t => phase'[u] = phase[u]
      /\ UNCHANGED <<tail, prev, order>>
  BY DEF StartFn, ChainInv, QueueTypeOK
<1>3. \A u \in Calls : phase[u] \in Outcomes => phase'[u] \in Outcomes
  BY <1>2 DEF StartFn
<1>4. BegunAfterSettled'
  <2> SUFFICES ASSUME NEW i \in 1 .. Len(order), phase'[order[i]] # "queued",
                      NEW j \in 1 .. (i - 1)
               PROVE  phase'[order[j]] \in Outcomes
    BY <1>2 DEF BegunAfterSettled
  <2>1. order[i] \in Calls /\ order[j] \in Calls
    BY <1>1
  <2>2. CASE order[i] = t
    BY <2>1, <2>2, <1>3, SettledChain DEF StartFn
  <2>3. CASE order[i] # t
    BY <2>1, <2>3, <1>2, <1>3 DEF ChainInv, BegunAfterSettled
  <2> QED BY <2>2, <2>3
<1>5. LiveInOrder'
  BY <1>2 DEF ChainInv, LiveInOrder, Live, StartFn
<1>6. OrderMade'
  BY <1>1, <1>2 DEF ChainInv, OrderMade
<1> QED BY <1>2, <1>4, <1>5, <1>6
        DEF ChainInv, QueueTypeOK, OrderOnce, TailIsLast, PrevIsPredecessor

\* A function that settles, either way, is settled for the chain.
LEMMA ChainSettleFn ==
  ASSUME ChainInv, NEW t \in Calls, NEW o \in Outcomes, SettleFn(t, o)
  PROVE  ChainInv'
<1>1. /\ Len(order) \in Nat
      /\ \A k \in 1 .. Len(order) : order[k] \in Calls
  BY DEF ChainInv, QueueTypeOK
<1>2. /\ phase' \in [Calls -> Phases]
      /\ phase'[t] \in Outcomes
      /\ phase[t] = "running"
      /\ \A u \in Calls : u # t => phase'[u] = phase[u]
      /\ UNCHANGED <<tail, prev, order>>
  BY DEF SettleFn, ChainInv, QueueTypeOK
<1>3. BegunAfterSettled'
  <2> SUFFICES ASSUME NEW i \in 1 .. Len(order), phase'[order[i]] # "queued",
                      NEW j \in 1 .. (i - 1)
               PROVE  phase'[order[j]] \in Outcomes
    BY <1>2 DEF BegunAfterSettled
  <2>1. order[i] \in Calls /\ order[j] \in Calls /\ phase[order[i]] # "queued"
    BY <1>1, <1>2
  <2> QED BY <2>1, <1>2 DEF ChainInv, BegunAfterSettled
<1>4. LiveInOrder'
  BY <1>2 DEF ChainInv, LiveInOrder, Live
<1>5. OrderMade'
  BY <1>1, <1>2 DEF ChainInv, OrderMade
<1> QED BY <1>2, <1>3, <1>4, <1>5
        DEF ChainInv, QueueTypeOK, OrderOnce, TailIsLast, PrevIsPredecessor

\* A restart leaves an empty chain.
LEMMA ChainRestart == ChainInv /\ Restart => ChainInv'
<1> SUFFICES ASSUME ChainInv, Restart PROVE ChainInv'
  OBVIOUS
<1>1. /\ phase' \in [Calls -> Phases]
      /\ \A t \in Calls : phase'[t] \notin {"queued", "running"}
  BY DEF Restart, ChainInv, QueueTypeOK
<1>2. order' = << >> /\ tail' = Resolved /\ prev' = prev
  BY DEF Restart
<1> QED BY <1>1, <1>2 DEF ChainInv, QueueTypeOK, OrderOnce, LiveInOrder, OrderMade,
                          TailIsLast, PrevIsPredecessor, BegunAfterSettled, Live

\* Every step of the chain preserves the invariant.
LEMMA ChainStep ==
  ASSUME ChainInv, ResolvedAssumption, [QueueNext]_queueVars
  PROVE  ChainInv'
<1>1. CASE QueueNext
  BY <1>1, ChainRunExclusive, ChainStartFn, ChainSettleFn, ChainRestart DEF QueueNext
<1>2. CASE UNCHANGED queueVars
  BY <1>2 DEF queueVars, ChainInv, QueueTypeOK, OrderOnce, LiveInOrder, OrderMade,
              TailIsLast, PrevIsPredecessor, BegunAfterSettled, Live
<1> QED BY <1>1, <1>2

\* The invariant of the promise chain holds in every reachable state.
THEOREM ChainInvariant == QueueSpec => []ChainInv
<1>1. ChainInv /\ [QueueNext]_queueVars => ChainInv'
  BY ChainStep, ResolvedAssumption
<1> QED BY ChainInit, <1>1, PTL DEF QueueSpec

\* Two running calls have positions, and the later one has begun only after
\* the earlier one settled.
LEMMA ChainExcludes == ChainInv => MutualExclusion
<1> SUFFICES ASSUME ChainInv, NEW t \in Calls, NEW u \in Calls,
                    phase[t] = "running", phase[u] = "running"
             PROVE  t = u
  BY DEF MutualExclusion
<1>1. PICK i \in 1 .. Len(order) : order[i] = t
  BY DEF ChainInv, LiveInOrder, Live
<1>2. PICK j \in 1 .. Len(order) : order[j] = u
  BY DEF ChainInv, LiveInOrder, Live
<1>3. ~(i < j) /\ ~(j < i)
  BY <1>1, <1>2 DEF ChainInv, BegunAfterSettled, QueueTypeOK
<1> QED BY <1>1, <1>2, <1>3 DEF ChainInv, QueueTypeOK

\* Functions given to runExclusive exclude each other, however many calls are made.
THEOREM ChainMutualExclusion == QueueSpec => []MutualExclusion
  BY ChainInvariant, ChainExcludes, PTL

\* The promise chain is a first-come-first-served queue.
THEOREM ChainImplementsSerialQueue == QueueSpec => ImplementsSerialQueue
<1> USE DEF Serial!serialVars, Serial!Outcomes
<1>1. QueueInit => Serial!SerialInit
  BY DEF QueueInit, Serial!SerialInit
<1>2. ASSUME ChainInv, [QueueNext]_queueVars
      PROVE  [Serial!SerialNext]_Serial!serialVars
  <2>1. ASSUME NEW t \in Calls, RunExclusive(t)
        PROVE  Serial!SerialNext
    BY <2>1 DEF RunExclusive, Serial!Submit, Serial!SerialNext
  <2>2. ASSUME NEW t \in Calls, StartFn(t)
        PROVE  Serial!SerialNext
    <3>1. PICK i \in 1 .. Len(order) : order[i] = t
      BY <1>2, <2>2 DEF StartFn, ChainInv, LiveInOrder, Live
    <3>2. \A j \in 1 .. (i - 1) : phase[order[j]] \in Outcomes
      BY <1>2, <2>2, <3>1, SettledChain, ResolvedAssumption DEF StartFn
    <3>3. Serial!EarlierSettled(t)
      BY <3>1, <3>2 DEF Serial!EarlierSettled
    <3> QED BY <2>2, <3>3 DEF StartFn, Serial!Begin, Serial!SerialNext
  <2>3. ASSUME NEW t \in Calls, NEW o \in Outcomes, SettleFn(t, o)
        PROVE  Serial!SerialNext
    BY <2>3 DEF SettleFn, Serial!End, Serial!SerialNext
  <2>4. CASE Restart
    BY <2>4 DEF Restart, Serial!Die, Serial!SerialNext
  <2>5. CASE UNCHANGED queueVars
    BY <2>5 DEF queueVars
  <2> QED BY <1>2, <2>1, <2>2, <2>3, <2>4, <2>5 DEF QueueNext
<1> QED BY ChainInvariant, <1>1, <1>2, PTL
        DEF QueueSpec, ImplementsSerialQueue, Serial!SerialSpec

-----------------------------------------------------------------------------
(* The native operations *)

\* What libsignal makes of a record is a record.
LEMMA InstallType ==
  ASSUME NEW record \in SessionRecord \cup {None}, NEW sid \in Sids,
         NEW st \in SessionState
  PROVE  /\ Install(record, sid, st) \in SessionRecord
         /\ Install(record, sid, st).states[sid] = st
         /\ \A s \in Sids : s # sid =>
              Install(record, sid, st).states[s] =
                IF record = None THEN None ELSE record.states[s]
<1> DEFINE states == IF record = None THEN [s \in Sids |-> None] ELSE record.states
<1>1. states \in [Sids -> SessionState \cup {None}]
  BY DEF SessionRecord
<1>2. st # None
  BY NoneAssumption
<1>3. Install(record, sid, st) = [current |-> sid, states |-> [states EXCEPT ![sid] = st]]
  BY DEF Install
<1>. HIDE DEF states
<1>4. [states EXCEPT ![sid] = st] \in [Sids -> SessionState \cup {None}]
  BY <1>1
<1>5. Install(record, sid, st) \in SessionRecord
  BY <1>1, <1>2, <1>3, <1>4 DEF SessionRecord
<1>6. \A s \in Sids : s # sid => Install(record, sid, st).states[s] = states[s]
  BY <1>1, <1>3
<1>7. Install(record, sid, st).states[sid] = st
  BY <1>1, <1>3
<1>. QED
  BY <1>5, <1>6, <1>7 DEF states

\* Installing a state that is at least as far advanced extends the record.
LEMMA InstallExtends ==
  ASSUME NEW record \in SessionRecord \cup {None}, NEW sid \in Sids,
         NEW st \in SessionState,
         Has(record, sid) => /\ st.sent >= record.states[sid].sent
                             /\ record.states[sid].rcvd \subseteq st.rcvd
  PROVE  /\ Extends(Install(record, sid, st), record)
         /\ Has(Install(record, sid, st), sid)
         /\ \A s \in Sids : Has(Install(record, sid, st), s) => Has(record, s) \/ s = sid
<1> DEFINE new == Install(record, sid, st)
<1>1. /\ new \in SessionRecord
      /\ new.states[sid] = st
      /\ \A s \in Sids : s # sid =>
           new.states[s] = IF record = None THEN None ELSE record.states[s]
  BY InstallType
<1>2. new # None /\ st # None
  BY <1>1, NoneAssumption
<1>. HIDE DEF new
<1>3. ASSUME record # None, NEW s \in Sids, record.states[s] # None
      PROVE  /\ new.states[s] # None
             /\ new.states[s].sent >= record.states[s].sent
             /\ record.states[s].rcvd \subseteq new.states[s].rcvd
  <2>1. record.states[s] \in SessionState
    BY <1>3 DEF SessionRecord
  <2>2. CASE s = sid
    BY <2>2, <1>1, <1>2, <1>3 DEF Has
  <2>3. CASE s # sid
    BY <2>1, <2>3, <1>1, <1>3 DEF SessionState
  <2>. QED  BY <2>2, <2>3
<1>4. Extends(new, record)
  BY <1>2, <1>3 DEF Extends
<1>. QED
  BY <1>1, <1>2, <1>4 DEF Has, new

\* A message is decrypted when its key is unspent, and spends it.
LEMMA DecryptWithComputes ==
  ASSUME NEW record \in SessionRecord, NEW m \in CiphertextMessage,
         Has(record, m.sid),
         NEW consumed \in PreKeys \cup {None}, NEW kyber \in Kybers \cup {None},
         DecryptWith(record, m, consumed, kyber).err = None
  PROVE  LET answer == DecryptWith(record, m, consumed, kyber)
         IN  /\ answer \in Result
             /\ answer.msg = m
             /\ m.ctr \notin record.states[m.sid].rcvd
             /\ answer.session \in SessionRecord
             /\ Extends(answer.session, record)
             /\ \A s \in Sids : Has(answer.session, s) => Has(record, s) \/ s = m.sid
             /\ Has(answer.session, m.sid)
             /\ m.ctr \in answer.session.states[m.sid].rcvd
<1> DEFINE old == record.states[m.sid]
           st == [ident |-> old.ident, pending |-> FALSE, ids |-> old.ids,
                  sent |-> old.sent, rcvd |-> old.rcvd \cup {m.ctr}]
           new == AdvanceReceiving(record, m.sid, m.ctr)
           answer == DecryptWith(record, m, consumed, kyber)
<1>1. m.sid \in Sids /\ m.ctr \in Nat
  BY DEF CiphertextMessage
<1>2. old \in SessionState
  BY <1>1 DEF Has, SessionRecord
<1>3. /\ st \in SessionState
      /\ st.sent = old.sent
      /\ st.rcvd = old.rcvd \cup {m.ctr}
      /\ old.sent \in Nat
  BY <1>1, <1>2 DEF SessionState
<1>4. new = Install(record, m.sid, st)
  BY DEF AdvanceReceiving
<1>5. m.ctr \notin old.rcvd /\ answer = Returned(new, m, consumed, kyber, None)
  BY ErrorAssumption DEF DecryptWith, Failure, Errors
<1>. HIDE DEF st, new, old, answer
<1>6. /\ new \in SessionRecord
      /\ new.states[m.sid] = st
  BY <1>1, <1>3, <1>4, InstallType
<1>7. /\ Extends(new, record)
      /\ Has(new, m.sid)
      /\ \A s \in Sids : Has(new, s) => Has(record, s) \/ s = m.sid
  BY <1>1, <1>3, <1>4, InstallExtends DEF old
<1>8. m.ctr \in new.states[m.sid].rcvd
  BY <1>3, <1>6
<1>9. answer \in Result /\ answer.session = new /\ answer.msg = m
  BY <1>5, <1>6 DEF Returned, Result
<1>. QED
  BY <1>5, <1>6, <1>7, <1>8, <1>9 DEF old, answer

\* An encryption names the counter it found and leaves a greater one behind.
LEMMA EncryptComputes ==
  ASSUME NEW record \in SessionRecord, NEW pinned, NEW r, r.kind = "encrypt",
         EncryptOp(record, pinned, LocalIdentity).err = None
  PROVE  LET answer == EncryptOp(record, pinned, LocalIdentity)
         IN  /\ answer \in Result
             /\ answer.session \in SessionRecord
             /\ Computed(answer, r, record)
<1> DEFINE sid == record.current
           old == record.states[sid]
           st == [ident |-> old.ident, pending |-> old.pending, ids |-> old.ids,
                  sent |-> old.sent + 1, rcvd |-> old.rcvd]
           new == AdvanceSending(record)
           msg == NextMessage(record, LocalIdentity)
           answer == EncryptOp(record, pinned, LocalIdentity)
<1>1. /\ sid \in Sids
      /\ old \in SessionState
      /\ Has(record, sid)
  BY NoneAssumption DEF SessionRecord, Has
<1>2. /\ st \in SessionState
      /\ st.sent = old.sent + 1
      /\ st.rcvd = old.rcvd
      /\ old.sent \in Nat
  BY <1>1 DEF SessionState
<1>3. new = Install(record, sid, st)
  BY DEF AdvanceSending, Current
<1>4. /\ msg \in CiphertextMessage
      /\ msg.sid = sid
      /\ msg.ctr = old.sent
  BY <1>1, ClientAssumption DEF NextMessage, Current, CiphertextMessage, SessionState
<1>5. answer = Returned(new, msg, None, None, None)
  BY ErrorAssumption DEF EncryptOp, Failure, Errors
<1>. HIDE DEF st, new, msg, answer
<1>6. /\ new \in SessionRecord
      /\ new.states[sid] = st
  BY <1>1, <1>2, <1>3, InstallType
<1>7. /\ Extends(new, record)
      /\ Has(new, sid)
      /\ \A s \in Sids : Has(new, s) => Has(record, s) \/ s = sid
  BY <1>1, <1>2, <1>3, InstallExtends
<1>8. answer \in Result /\ answer.session = new /\ answer.msg = msg
  BY <1>4, <1>5, <1>6 DEF Returned, Result
<1>9. Computed(answer, r, record)
  BY <1>1, <1>2, <1>4, <1>6, <1>7, <1>8 DEF Computed, Decrypts
<1>. QED
  BY <1>6, <1>8, <1>9 DEF answer

\* The handshake of a bundle adds one session, with an identity that was checked.
LEMMA ProcessComputes ==
  ASSUME NEW record \in SessionRecord \cup {None}, NEW pinned,
         NEW b \in Bundles, NEW r, r.kind = "processPreKeyBundle", r.arg = b,
         ~Has(record, b.sid),
         ProcessPreKeyBundleOp(b, record, pinned).err = None
  PROVE  LET answer == ProcessPreKeyBundleOp(b, record, pinned)
         IN  /\ answer \in Result
             /\ answer.session \in SessionRecord
             /\ Computed(answer, r, record)
             /\ answer.trusted \in Identities
             /\ Trusted(pinned, answer.trusted)
<1> DEFINE st == NewState(b.ident, TRUE, b.ids)
           new == Install(record, b.sid, st)
           answer == ProcessPreKeyBundleOp(b, record, pinned)
<1>1. b \in [peer : Peers, sid : Sids, ident : Identities, ids : BundleIds]
  BY ClientAssumption
<1>2. st \in SessionState
  BY <1>1 DEF NewState, SessionState
<1>. HIDE DEF st
<1>3. new \in SessionRecord
  BY <1>1, <1>2, InstallType
<1>4. /\ Extends(new, record)
      /\ \A s \in Sids : Has(new, s) => Has(record, s) \/ s = b.sid
  BY <1>1, <1>2, InstallExtends
<1>5. /\ Trusted(pinned, b.ident)
      /\ answer = Returned(new, None, None, None, b.ident)
  BY ErrorAssumption DEF ProcessPreKeyBundleOp, Failure, Errors, st
<1>. HIDE DEF answer, new
<1>6. answer \in Result /\ answer.session = new /\ answer.trusted = b.ident
  BY <1>1, <1>3, <1>5 DEF Returned, Result
<1>7. Computed(answer, r, record)
  BY <1>4, <1>6 DEF Computed, Decrypts
<1>. QED
  BY <1>1, <1>3, <1>5, <1>6, <1>7 DEF answer

\* A handshake message is decrypted with the session it names or with a new one.
LEMMA DecryptPreKeyComputes ==
  ASSUME NEW record \in SessionRecord \cup {None}, NEW pinned,
         NEW oneTime, NEW signed, NEW kybers,
         NEW m \in CiphertextMessage, m.ids \in BundleIds, m.ident \in Identities,
         NEW r, r.kind = "decryptPreKeySignal", r.arg = m,
         DecryptPreKeySignalOp(m, record, pinned, oneTime, signed, kybers).err = None
  PROVE  LET answer == DecryptPreKeySignalOp(m, record, pinned, oneTime, signed, kybers)
         IN  /\ answer \in Result
             /\ answer.session \in SessionRecord
             /\ Computed(answer, r, record)
<1> DEFINE answer == DecryptPreKeySignalOp(m, record, pinned, oneTime, signed, kybers)
<1>1. m.sid \in Sids /\ m.ids.preKey \in PreKeys \cup {None} /\ m.ids.kyber \in Kybers
  BY DEF CiphertextMessage, BundleIds
<1>2. CASE Has(record, m.sid)
  <2>1. record \in SessionRecord
    BY <1>2 DEF Has
  <2>2. answer = DecryptWith(record, m, m.ids.preKey, None)
    BY <1>2, ErrorAssumption DEF DecryptPreKeySignalOp, Failure, Errors
  <2>. HIDE DEF answer
  <2>3. answer.err = None
    BY DEF answer
  <2>4. /\ answer \in Result
        /\ answer.msg = m
        /\ m.ctr \notin record.states[m.sid].rcvd
        /\ answer.session \in SessionRecord
        /\ Extends(answer.session, record)
        /\ \A s \in Sids : Has(answer.session, s) => Has(record, s) \/ s = m.sid
        /\ Has(answer.session, m.sid)
        /\ m.ctr \in answer.session.states[m.sid].rcvd
    BY <1>1, <1>2, <2>1, <2>2, <2>3, DecryptWithComputes
  <2>5. Computed(answer, r, record)
    BY <2>4 DEF Computed, Decrypts
  <2>. QED  BY <2>4, <2>5 DEF answer
<1>3. CASE ~Has(record, m.sid)
  <2> DEFINE st == NewState(m.ident, FALSE, m.ids)
             base == Install(record, m.sid, st)
  <2>1. st \in SessionState
    BY DEF NewState, SessionState
  <2>2. /\ base \in SessionRecord
        /\ Has(base, m.sid)
        /\ Extends(base, record)
        /\ \A s \in Sids : Has(base, s) => Has(record, s) \/ s = m.sid
    <3>. HIDE DEF st
    <3>1. base \in SessionRecord
      BY <1>1, <2>1, InstallType
    <3>. QED
      BY <1>1, <1>3, <2>1, <3>1, InstallExtends
  <2>3. answer = DecryptWith(base, m, m.ids.preKey, m.ids.kyber)
    BY <1>3, ErrorAssumption DEF DecryptPreKeySignalOp, Failure, Errors
  <2>. HIDE DEF answer, base
  <2>4. answer.err = None
    BY DEF answer
  <2>5. /\ answer \in Result
        /\ answer.msg = m
        /\ answer.session \in SessionRecord
        /\ Extends(answer.session, base)
        /\ \A s \in Sids : Has(answer.session, s) => Has(base, s) \/ s = m.sid
        /\ Has(answer.session, m.sid)
        /\ m.ctr \in answer.session.states[m.sid].rcvd
    BY <1>1, <2>2, <2>3, <2>4, DecryptWithComputes
  <2>6. Extends(answer.session, record)
    <3>1. SUFFICES ASSUME record # None, NEW s \in Sids, record.states[s] # None
                   PROVE  /\ answer.session # None /\ answer.session.states[s] # None
                          /\ answer.session.states[s].sent >= record.states[s].sent
                          /\ record.states[s].rcvd \subseteq answer.session.states[s].rcvd
      BY DEF Extends
    <3>2. /\ base.states[s] # None
          /\ base.states[s].sent >= record.states[s].sent
          /\ record.states[s].rcvd \subseteq base.states[s].rcvd
      BY <2>2, <3>1 DEF Extends
    <3>3. /\ answer.session.states[s] # None
          /\ answer.session.states[s].sent >= base.states[s].sent
          /\ base.states[s].rcvd \subseteq answer.session.states[s].rcvd
      BY <2>2, <2>5, <3>2, NoneAssumption DEF Extends
    <3>4. /\ record.states[s].sent \in Nat
          /\ base.states[s].sent \in Nat
          /\ answer.session.states[s].sent \in Nat
      BY <2>2, <2>5, <3>1, <3>2, <3>3 DEF SessionRecord, SessionState
    <3>. QED  BY <2>5, <3>2, <3>3, <3>4, NoneAssumption
  <2>7. Computed(answer, r, record)
    BY <1>3, <2>2, <2>5, <2>6 DEF Computed, Decrypts
  <2>. QED  BY <2>5, <2>7 DEF answer
<1>. QED  BY <1>2, <1>3

\* A later message is decrypted with a session the record holds.
LEMMA DecryptSignalComputes ==
  ASSUME NEW record \in SessionRecord \cup {None}, NEW pinned,
         NEW m \in CiphertextMessage, NEW r, r.kind = "decryptSignal", r.arg = m,
         DecryptSignalOp(m, record, pinned).err = None
  PROVE  LET answer == DecryptSignalOp(m, record, pinned)
         IN  /\ answer \in Result
             /\ answer.session \in SessionRecord
             /\ Computed(answer, r, record)
<1> DEFINE answer == DecryptSignalOp(m, record, pinned)
<1>1. Has(record, m.sid) /\ answer = DecryptWith(record, m, None, None)
  BY ErrorAssumption DEF DecryptSignalOp, Failure, Errors
<1>2. record \in SessionRecord
  BY <1>1 DEF Has
<1>. HIDE DEF answer
<1>3. answer.err = None
  BY DEF answer
<1>4. /\ answer \in Result
      /\ answer.msg = m
      /\ m.ctr \notin record.states[m.sid].rcvd
      /\ answer.session \in SessionRecord
      /\ Extends(answer.session, record)
      /\ \A s \in Sids : Has(answer.session, s) => Has(record, s) \/ s = m.sid
      /\ Has(answer.session, m.sid)
      /\ m.ctr \in answer.session.states[m.sid].rcvd
  BY <1>1, <1>2, <1>3, DecryptWithComputes
<1>5. Computed(answer, r, record)
  <2>1. m.sid \in Sids
    BY DEF CiphertextMessage
  <2>2. \A s \in Sids : Has(answer.session, s) => Has(record, s)
    BY <1>1, <1>4
  <2>. QED  BY <1>4, <2>2 DEF Computed, Decrypts
<1>. QED  BY <1>4, <1>5 DEF answer
-----------------------------------------------------------------------------
(* The steps of a call are steps of the queue *)

USE DEF Reads, Writes, Labels, Resolving, Publishing, Cleanup, Decrypts

\* A step of the device is a step of its queue, or leaves the queue alone.
LEMMA StepProjects == [Next]_vars => [QueueNext]_queueVars
<1>. SUFFICES ASSUME [Next]_vars PROVE [QueueNext]_queueVars
  OBVIOUS
<1>1. ASSUME NEW t \in Calls, Invoke(t) PROVE QueueNext
  BY <1>1 DEF Invoke, QueueNext
<1>2. ASSUME NEW t \in Calls, NEW err, Throw(t, err) PROVE QueueNext
  BY <1>2 DEF Throw, QueueNext
<1>3. ASSUME NEW t \in Calls, Begin(t) PROVE QueueNext
  BY <1>3 DEF Begin, QueueNext
<1>4. ASSUME NEW t \in Calls, Read(t) PROVE [QueueNext]_queueVars
  BY <1>2, <1>4 DEF Read, LoadSession, GetIdentity, LoadPreKey, LoadSignedPreKey,
                    LoadKyberPreKeys
<1>5. ASSUME NEW t \in Calls, RunOp(t) PROVE [QueueNext]_queueVars
  BY <1>2, <1>5 DEF RunOp
<1>6. ASSUME NEW t \in Calls, Write(t) PROVE UNCHANGED queueVars
  BY <1>6 DEF Write, StoreSession, RemovePreKey, MarkKyberPreKeyUsed, SaveIdentity,
              StorePreKey, StoreSignedPreKey, StoreKyberPreKey
<1>7. ASSUME NEW t \in Calls, Return(t) PROVE QueueNext
  BY <1>7 DEF Return, QueueNext
<1>8. ASSUME NEW t \in Calls, StoreFails(t) PROVE QueueNext
  BY <1>2, <1>8 DEF StoreFails
<1>9. ASSUME Kill PROVE QueueNext
  BY <1>9 DEF Kill, QueueNext
<1>10. ASSUME UNCHANGED vars PROVE UNCHANGED queueVars
  BY <1>10 DEF vars
<1>. QED
  BY <1>1, <1>3, <1>4, <1>5, <1>6, <1>7, <1>8, <1>9, <1>10 DEF Next, Step

\* The device implements the queue: whatever its operations do, they are handed
\* to runExclusive, entered and settled as the promise chain has it.
THEOREM ClientImplementsQueue == Spec => QueueSpec
<1>1. Init => QueueInit
  BY DEF Init
<1>. QED
  BY <1>1, StepProjects, PTL DEF Spec, QueueSpec

\* Two protocol operations of a device are never in progress at the same time.
THEOREM ClientExcludes == Spec => []MutualExclusion
  BY ClientImplementsQueue, ChainMutualExclusion, PTL

-----------------------------------------------------------------------------
(* What a native operation answers in a reachable state *)

\* A session has one peer.
LEMMA OwnsUnique ==
  ASSUME NEW p, NEW q, NEW s, Owns(p, s), Owns(q, s)
  PROVE  p = q
  BY ClientAssumption DEF Owns

\* What a request carries, by its kind.
LEMMA RequestTypes ==
  ASSUME NEW t \in Calls, phase[t] # "idle", RequestInv(t)
  PROVE  /\ Kind(t) \in {"processPreKeyBundle", "encrypt", "decryptPreKeySignal",
                         "decryptSignal", "publishOneTimePreKey"}
         /\ Kind(t) # "publishOneTimePreKey" => Peer(t) \in Peers
         /\ Kind(t) = "publishOneTimePreKey" => Arg(t) \in BundleIds
         /\ Kind(t) = "processPreKeyBundle" => Arg(t) \in Bundles
         /\ Kind(t) \in Decrypts => Arg(t) \in CiphertextMessage
         /\ Kind(t) = "decryptPreKeySignal" =>
              Arg(t).ids \in BundleIds /\ Arg(t).ident \in Identities
<1>1. request[t] \in Requests
  BY DEF RequestInv
<1>2. Kind(t) \in Decrypts =>
        \E i \in Incoming : /\ i.msg = Arg(t)
                            /\ i.msg \in CiphertextMessage
                            /\ Kind(t) = "decryptPreKeySignal" => i.msg.type = "preKeySignal"
  BY ClientAssumption DEF RequestInv, CiphertextMessage
<1>3. Kind(t) = "publishOneTimePreKey" => Arg(t) \in BundleIds
  BY <1>1, ClientAssumption DEF Requests, Kind, Arg
<1>4. /\ Kind(t) \in {"processPreKeyBundle", "encrypt", "decryptPreKeySignal",
                      "decryptSignal", "publishOneTimePreKey"}
      /\ Kind(t) # "publishOneTimePreKey" => Peer(t) \in Peers
      /\ Kind(t) = "processPreKeyBundle" => Arg(t) \in Bundles
  BY <1>1 DEF Requests, Kind, Arg, Peer
<1>. QED
  BY <1>2, <1>3, <1>4, ClientAssumption

\* A native operation answers, or throws one of the error classes.
LEMMA OpErrors ==
  ASSUME NEW t \in Calls
  PROVE  Op(t).err \in Errors \cup {None}
<1>1. \A e \in Errors : Failure(e).err = e
  BY DEF Failure
<1>2. \A a, b, c, d, e : Returned(a, b, c, d, e).err = None
  BY DEF Returned
<1>3. ASSUME NEW record, NEW m, NEW c, NEW k
      PROVE DecryptWith(record, m, c, k).err \in Errors \cup {None}
  BY <1>1, <1>2 DEF DecryptWith, Errors
<1>4. ASSUME NEW record, NEW pinned, NEW b
      PROVE ProcessPreKeyBundleOp(b, record, pinned).err \in Errors \cup {None}
  BY DEF ProcessPreKeyBundleOp, Errors, Failure, Returned
<1>5. ASSUME NEW record, NEW pinned
      PROVE EncryptOp(record, pinned, LocalIdentity).err \in Errors \cup {None}
  BY <1>1, <1>2 DEF EncryptOp, Errors
<1>6. ASSUME NEW record, NEW pinned, NEW m, NEW oneTime, NEW signed, NEW kybers
      PROVE DecryptPreKeySignalOp(m, record, pinned, oneTime, signed, kybers).err
              \in Errors \cup {None}
  BY <1>1, <1>3 DEF DecryptPreKeySignalOp, Errors
<1>7. ASSUME NEW record, NEW pinned, NEW m
      PROVE DecryptSignalOp(m, record, pinned).err \in Errors \cup {None}
  BY <1>1, <1>3 DEF DecryptSignalOp, Errors
<1>. QED
  BY <1>4, <1>5, <1>6, <1>7 DEF Op

\* What runOp is about to store is computed from what the tables hold.
LEMMA OpComputes ==
  ASSUME ClientInv, NEW t \in Calls, At(t, "runOp"), Op(t).err = None
  PROVE  /\ Op(t) \in Result
         /\ Op(t).session \in SessionRecord
         /\ Computed(Op(t), request[t], existingSession[t])
         /\ Kind(t) = "processPreKeyBundle" =>
              Op(t).trusted \in Identities /\ Trusted(remoteIdentity[t], Op(t).trusted)
<1>1. /\ CallInv(t)
      /\ phase[t] = "running" /\ pc[t] = "runOp"
      /\ Running(t)
      /\ existingSession[t] \in SessionRecord \cup {None}
  BY DEF ClientInv, TypeOK, At, Running
<1>2. /\ Kind(t) \in {"processPreKeyBundle", "encrypt", "decryptPreKeySignal", "decryptSignal"}
      /\ Kind(t) = "processPreKeyBundle" => Arg(t) \in Bundles
      /\ Kind(t) \in Decrypts => Arg(t) \in CiphertextMessage
      /\ Kind(t) = "decryptPreKeySignal" =>
           Arg(t).ids \in BundleIds /\ Arg(t).ident \in Identities
  BY <1>1, RequestTypes DEF CallInv, LabelInv
<1>3. /\ existingSession[t] = session[Peer(t)]
      /\ Kind(t) = "encrypt" => existingSession[t] # None
  BY <1>1 DEF CallInv, FreshReads
<1>4. CASE Kind(t) = "processPreKeyBundle"
  <2>1. ~Has(existingSession[t], Arg(t).sid)
    BY <1>1, <1>3, <1>4 DEF ClientInv, BundleInv, Unstored
  <2>2. Op(t) = ProcessPreKeyBundleOp(Arg(t), existingSession[t], remoteIdentity[t])
    BY <1>4 DEF Op
  <2>. QED
    BY <1>1, <1>2, <1>4, <2>1, <2>2, ProcessComputes DEF Kind, Arg
<1>5. CASE Kind(t) = "encrypt"
  <2>1. Op(t) = EncryptOp(existingSession[t], remoteIdentity[t], LocalIdentity)
    BY <1>5 DEF Op
  <2>. QED
    BY <1>1, <1>3, <1>5, <2>1, EncryptComputes DEF Kind
<1>6. CASE Kind(t) = "decryptPreKeySignal"
  <2>1. Op(t) = DecryptPreKeySignalOp(Arg(t), existingSession[t], remoteIdentity[t],
                                      preKey[t], signedPreKey[t], kyberBlob[t])
    BY <1>6 DEF Op
  <2>. QED
    BY <1>1, <1>2, <1>6, <2>1, DecryptPreKeyComputes DEF Kind, Arg
<1>7. CASE Kind(t) = "decryptSignal"
  <2>1. Op(t) = DecryptSignalOp(Arg(t), existingSession[t], remoteIdentity[t])
    BY <1>7 DEF Op
  <2>. QED
    BY <1>1, <1>2, <1>7, <2>1, DecryptSignalComputes DEF Kind, Arg
<1>. QED
  BY <1>2, <1>4, <1>5, <1>6, <1>7
-----------------------------------------------------------------------------
(* Types *)

\* A new device has variables of their types.
LEMMA InitTypes == Init => TypeOK
  BY ClientAssumption DEF Init, QueueInit, TypeOK, QueueTypeOK, BundleIds, Failure, Result, Ids

\* Types, when an operation throws.
LEMMA ThrowTypes ==
  ASSUME TypeOK, QueueTypeOK', NEW t \in Calls, NEW err \in Errors, Throw(t, err)
  PROVE  TypeOK'
<1>1. Failure(err) \in Result
  BY DEF Failure, Result
<1>. QED
  BY <1>1 DEF Throw, TypeOK, tables, loaded

\* Types, when an operation writes to the database.
LEMMA WriteTypes ==
  ASSUME ClientInv, QueueTypeOK', NEW t \in Calls, Write(t)
  PROVE  TypeOK'
<1>. USE DEF At, Goto
<1>1. /\ TypeOK /\ CallInv(t) /\ phase[t] = "running" /\ Running(t)
  BY DEF ClientInv, Write, StoreSession, RemovePreKey, MarkKyberPreKeyUsed, SaveIdentity,
         StorePreKey, StoreSignedPreKey, StoreKyberPreKey, Running
<1>2. pc[t] \in {"storeSession"} \cup Cleanup => Peer(t) \in Peers
  BY <1>1, RequestTypes DEF CallInv, LabelInv
<1>3. pc[t] \in Publishing => Arg(t) \in BundleIds
  BY <1>1, RequestTypes DEF CallInv, LabelInv
<1>4. CASE StoreSession(t)
  <2>1. session' \in [Peers -> SessionRecord \cup {None}]
    BY <1>1, <1>2, <1>4 DEF StoreSession, TypeOK, CallInv, ResultInv
  <2>2. AfterSession(t) \in Labels
    BY DEF AfterSession, AfterPreKey, AfterKyber
  <2>. QED
    BY <1>1, <1>4, <2>1, <2>2 DEF StoreSession, TypeOK, locals, loaded
<1>5. CASE RemovePreKey(t)
  <2>1. AfterPreKey(t) \in Labels
    BY DEF AfterPreKey, AfterKyber
  <2>. QED
    BY <1>1, <1>5, <2>1 DEF RemovePreKey, DeleteRow, TypeOK, locals, loaded
<1>6. CASE MarkKyberPreKeyUsed(t)
  <2>1. AfterKyber(t) \in Labels
    BY DEF AfterKyber
  <2>. QED
    BY <1>1, <1>6, <2>1 DEF MarkKyberPreKeyUsed, Ids, TypeOK, locals, loaded
<1>7. CASE SaveIdentity(t)
  <2>1. ToPin(t) \in Identities
    BY <1>1, <1>7 DEF SaveIdentity, CallInv, ResultInv, ToPin, TypeOK
  <2>2. identity' \in [Peers -> Identities \cup {None}]
    BY <1>1, <1>2, <1>7, <2>1 DEF SaveIdentity, TypeOK
  <2>. QED
    BY <1>1, <1>7, <2>2 DEF SaveIdentity, TypeOK, locals, loaded
<1>8. CASE StorePreKey(t)
  <2>1. Arg(t).preKey \in PreKeys
    BY <1>1, <1>3, <1>8, ClientAssumption
       DEF StorePreKey, CallInv, LabelInv, RequestInv, Requests, Kind, Arg, BundleIds
  <2>. QED
    BY <1>1, <1>8, <2>1 DEF StorePreKey, Upsert, DeleteRow, TypeOK, locals, loaded
<1>9. CASE StoreSignedPreKey(t)
  <2>1. Arg(t).signed \in SignedKeys
    BY <1>3, <1>9 DEF StoreSignedPreKey, BundleIds
  <2>. QED
    BY <1>1, <1>9, <2>1 DEF StoreSignedPreKey, Upsert, DeleteRow, TypeOK, locals, loaded
<1>10. CASE StoreKyberPreKey(t)
  <2>1. Arg(t).kyber \in Kybers
    BY <1>3, <1>10 DEF StoreKyberPreKey, BundleIds
  <2>. QED
    BY <1>1, <1>10, <2>1 DEF StoreKyberPreKey, Ids, Upsert, DeleteRow, TypeOK, locals, loaded
<1>. QED
  BY <1>4, <1>5, <1>6, <1>7, <1>8, <1>9, <1>10 DEF Write

\* Types, when an operation reads from the database.
LEMMA ReadTypes ==
  ASSUME ClientInv, QueueTypeOK', NEW t \in Calls, Read(t)
  PROVE  TypeOK'
<1>. USE DEF At, Goto
<1>1. /\ TypeOK /\ CallInv(t) /\ phase[t] = "running" /\ Running(t)
  BY DEF ClientInv, Read, LoadSession, GetIdentity, LoadPreKey, LoadSignedPreKey,
         LoadKyberPreKeys, Running
<1>2. pc[t] \notin Publishing \cup {"return"} => Peer(t) \in Peers
  BY <1>1, RequestTypes DEF CallInv, LabelInv
<1>3. ASSUME NEW err \in Errors, Throw(t, err) PROVE TypeOK'
  BY <1>1, <1>3, ThrowTypes
<1>4. CASE LoadSession(t)
  <2>1. "SessionNotFound" \in Errors /\ Peer(t) \in Peers
    BY <1>2, <1>4 DEF LoadSession, Errors
  <2>2. CASE Throw(t, "SessionNotFound")
    BY <2>1, <2>2, <1>3
  <2>3. CASE ~Throw(t, "SessionNotFound")
    BY <1>1, <1>4, <2>1, <2>3 DEF LoadSession, TypeOK, tables, loaded
  <2>. QED  BY <2>2, <2>3
<1>5. CASE GetIdentity(t)
  <2>1. Peer(t) \in Peers
    BY <1>2, <1>5 DEF GetIdentity
  <2>. QED
    BY <1>1, <1>5, <2>1 DEF GetIdentity, TypeOK, tables, loaded
<1>6. CASE LoadPreKey(t)
  <2>1. CASE Throw(t, "InvalidKey")
    BY <2>1, <1>3 DEF Errors
  <2>2. CASE ~Throw(t, "InvalidKey")
    BY <1>1, <1>6, <2>2 DEF LoadPreKey, TypeOK, tables, locals, loaded
  <2>. QED  BY <2>1, <2>2
<1>7. CASE LoadSignedPreKey(t)
  <2>1. CASE Throw(t, "InvalidKey")
    BY <2>1, <1>3 DEF Errors
  <2>2. CASE ~Throw(t, "InvalidKey")
    BY <1>1, <1>7, <2>2 DEF LoadSignedPreKey, TypeOK, tables, locals, loaded
  <2>. QED  BY <2>1, <2>2
<1>8. CASE LoadKyberPreKeys(t)
  BY <1>1, <1>8 DEF LoadKyberPreKeys, TypeOK, tables, loaded
<1>. QED
  BY <1>4, <1>5, <1>6, <1>7, <1>8 DEF Read

\* The type invariant, given that the invariant held before the step.
LEMMA StepTypes ==
  ASSUME ClientInv, QueueTypeOK', [Next]_vars
  PROVE  TypeOK'
<1>. USE DEF At, Goto
<1>1. TypeOK
  BY DEF ClientInv
<1>2. ASSUME NEW t \in Calls, Invoke(t) PROVE TypeOK'
  BY <1>1, <1>2 DEF Invoke, TypeOK, tables, locals, loaded
<1>3. ASSUME NEW t \in Calls, Begin(t) PROVE TypeOK'
  BY <1>1, <1>3 DEF Begin, TypeOK, tables, locals, loaded
<1>4. ASSUME NEW t \in Calls, RunOp(t) PROVE TypeOK'
  <2>1. CASE Op(t).err = None
    <3>1. Op(t) \in Result
      BY <1>4, <2>1, OpComputes DEF RunOp
    <3>. QED
      BY <1>1, <1>4, <2>1, <3>1 DEF RunOp, TypeOK, tables, loaded
  <2>2. CASE Op(t).err # None
    <3>1. Op(t).err \in Errors
      BY <2>2, OpErrors
    <3>2. Throw(t, Op(t).err)
      BY <1>4, <2>2 DEF RunOp
    <3>. QED
      BY <1>1, <3>1, <3>2, ThrowTypes
  <2>. QED  BY <2>1, <2>2
<1>5. ASSUME NEW t \in Calls, Return(t) PROVE TypeOK'
  BY <1>1, <1>5 DEF Return, TypeOK, tables, volatile, locals, loaded
<1>6. ASSUME NEW t \in Calls, StoreFails(t) PROVE TypeOK'
  BY <1>1, <1>6, ThrowTypes DEF StoreFails, Errors
<1>7. ASSUME Kill PROVE TypeOK'
  BY <1>1, <1>7 DEF Kill, TypeOK, tables, volatile, locals, loaded
<1>8. ASSUME UNCHANGED vars PROVE TypeOK'
  BY <1>1, <1>8 DEF vars, TypeOK, tables, volatile, locals, loaded
<1>. QED
  BY <1>2, <1>3, <1>4, <1>5, <1>6, <1>7, <1>8, ReadTypes, WriteTypes DEF Next, Step
-----------------------------------------------------------------------------
(* The inductive invariant *)

\* The step changes the local state of no call but t.
OnlyCall(t) ==
  \A u \in Calls : u # t =>
    /\ phase'[u] = phase[u]
    /\ request'[u] = request[u]
    /\ pc'[u] = pc[u]
    /\ existingSession'[u] = existingSession[u]
    /\ remoteIdentity'[u] = remoteIdentity[u]
    /\ preKey'[u] = preKey[u]
    /\ result'[u] = result[u]

\* A record extends itself.
LEMMA SelfExtends ==
  ASSUME NEW record \in SessionRecord \cup {None}
  PROVE  Extends(record, record)
<1>. SUFFICES ASSUME record # None, NEW s \in Sids, record.states[s] # None
              PROVE  record.states[s].sent \in Nat
  BY DEF Extends
<1>1. record.states[s] \in SessionState
  BY DEF SessionRecord
<1>. QED
  BY <1>1 DEF SessionState

\* The keys a call has spent stay spent when the records are only extended.
LEMMA SpentStays ==
  ASSUME TypeOK, TypeOK', NEW u \in Calls, RequestInv(u), SpentInv(u),
         phase'[u] = phase[u], request'[u] = request[u], pc'[u] = pc[u],
         result'[u] = result[u],
         \A p \in Peers : Extends(session'[p], session[p])
  PROVE  SpentInv(u)'
<1>. SUFFICES ASSUME Done(u) PROVE SpentInv(u)'
  BY DEF SpentInv, Done, Running
<1>1. phase[u] # "idle" /\ Kind(u)' = Kind(u) /\ Arg(u)' = Arg(u) /\ Peer(u)' = Peer(u)
  BY DEF Done, Running, Kind, Arg, Peer
<1>2. /\ Kind(u) # "publishOneTimePreKey" => Peer(u) \in Peers
      /\ Kind(u) \in Decrypts => Arg(u) \in CiphertextMessage
  BY <1>1, RequestTypes
<1>3. ASSUME NEW p \in Peers, NEW s \in Sids, Has(session[p], s)
      PROVE  /\ Has(session'[p], s)
             /\ session'[p].states[s].sent \in Nat
             /\ session[p].states[s].sent \in Nat
             /\ session'[p].states[s].sent >= session[p].states[s].sent
             /\ session[p].states[s].rcvd \subseteq session'[p].states[s].rcvd
  <2>1. /\ Has(session'[p], s)
        /\ session'[p].states[s].sent >= session[p].states[s].sent
        /\ session[p].states[s].rcvd \subseteq session'[p].states[s].rcvd
    BY <1>3 DEF Has, Extends
  <2>2. session[p] \in SessionRecord /\ session'[p] \in SessionRecord
    BY <1>3, <2>1 DEF Has, TypeOK
  <2>3. session[p].states[s] \in SessionState /\ session'[p].states[s] \in SessionState
    BY <1>3, <2>1, <2>2 DEF Has, SessionRecord
  <2>. QED
    BY <2>1, <2>3 DEF SessionState
<1>4. CASE Kind(u) = "encrypt"
  <2>1. /\ result[u].msg.sid \in Sids
        /\ result[u].msg.ctr \in Nat
        /\ Has(session[Peer(u)], result[u].msg.sid)
        /\ result[u].msg.ctr < session[Peer(u)].states[result[u].msg.sid].sent
        /\ result[u].msg \in CiphertextMessage
    BY <1>4 DEF SpentInv, CiphertextMessage
  <2>2. /\ Has(session'[Peer(u)], result[u].msg.sid)
        /\ result[u].msg.ctr < session'[Peer(u)].states[result[u].msg.sid].sent
    BY <1>2, <1>3, <1>4, <2>1
  <2>3. Kind(u) \notin Decrypts
    BY <1>4
  <2>. QED
    BY <1>1, <2>1, <2>2, <2>3 DEF SpentInv
<1>5. CASE Kind(u) \in Decrypts
  <2>1. /\ Arg(u).sid \in Sids
        /\ result[u].msg = Arg(u)
        /\ Has(session[Peer(u)], Arg(u).sid)
        /\ Arg(u).ctr \in session[Peer(u)].states[Arg(u).sid].rcvd
    BY <1>2, <1>5 DEF SpentInv, CiphertextMessage
  <2>2. /\ Has(session'[Peer(u)], Arg(u).sid)
        /\ Arg(u).ctr \in session'[Peer(u)].states[Arg(u).sid].rcvd
    BY <1>2, <1>3, <1>5, <2>1
  <2>. QED
    BY <1>1, <1>5, <2>1, <2>2 DEF SpentInv
<1>6. CASE Kind(u) # "encrypt" /\ Kind(u) \notin Decrypts
  BY <1>1, <1>6 DEF SpentInv
<1>. QED  BY <1>4, <1>5, <1>6

\* A call that takes no step keeps its invariant: what it has read is not written
\* while it runs, and what it has spent stays spent.
LEMMA FrameCall ==
  ASSUME TypeOK, TypeOK', NEW u \in Calls, CallInv(u),
         phase'[u] = phase[u], request'[u] = request[u], pc'[u] = pc[u],
         existingSession'[u] = existingSession[u],
         remoteIdentity'[u] = remoteIdentity[u], result'[u] = result[u],
         \A p \in Peers : Extends(session'[p], session[p]),
         (session' = session /\ identity' = identity) \/ ~Running(u)
  PROVE  CallInv(u)'
<1>. USE DEF Kind, Arg, Peer
<1>1. RequestInv(u)'
  BY DEF CallInv, RequestInv
<1>2. LabelInv(u)'
  BY DEF CallInv, LabelInv, Running
<1>3. FreshReads(u)'
  BY DEF CallInv, FreshReads, Running
<1>4. ResultInv(u)'
  BY DEF CallInv, ResultInv, Running, ToPin
<1>5. SpentInv(u)'
  BY SpentStays DEF CallInv
<1>. QED
  BY <1>1, <1>2, <1>3, <1>4, <1>5 DEF CallInv

\* A step of one call that writes no session, and writes an identity only while
\* no other call runs.
LEMMA LocalStep ==
  ASSUME ClientInv, TypeOK', NEW t \in Calls, OnlyCall(t),
         request' = request, session' = session,
         identity' = identity \/ (MutualExclusion /\ Running(t)),
         phase[t] # "idle", phase'[t] # "idle",
         CallInv(t)',
         Unstored(t)' /\ Kind(t) = "processPreKeyBundle" => Unstored(t),
         Done(t)' /\ Kind(t) # "publishOneTimePreKey" =>
           Done(t) /\ result'[t] = result[t]
  PROVE  ClientInv'
<1>1. TypeOK /\ \A u \in Calls : CallInv(u)
  BY DEF ClientInv
<1>2. \A p \in Peers : Extends(session'[p], session[p])
  BY <1>1, SelfExtends DEF TypeOK
<1>3. ASSUME NEW u \in Calls PROVE CallInv(u)'
  <2>1. CASE u = t
    BY <2>1
  <2>2. CASE u # t
    <3>1. (session' = session /\ identity' = identity) \/ ~Running(u)
      BY <2>2 DEF MutualExclusion, Running
    <3>. QED
      BY <1>1, <1>2, <2>2, <3>1, FrameCall DEF OnlyCall
  <2>. QED  BY <2>1, <2>2
<1>4. \A u \in Calls : /\ Kind(u)' = Kind(u) /\ Arg(u)' = Arg(u) /\ Peer(u)' = Peer(u)
                       /\ Unstored(u)' /\ Kind(u) = "processPreKeyBundle" => Unstored(u)
                       /\ Done(u)' /\ Kind(u) # "publishOneTimePreKey" =>
                            Done(u) /\ result'[u] = result[u]
                       /\ phase'[u] = "idle" <=> phase[u] = "idle"
  BY DEF OnlyCall, Kind, Arg, Peer, Unstored, Done, Running
<1>5. BundleInv'
  <2>1. \A b \in Bundles : FreshBundle(b)' <=> FreshBundle(b)
    BY DEF FreshBundle
  <2>2. BundleInv
    BY DEF ClientInv
  <2>3. \A b \in Bundles : FreshBundle(b)' => ~Has(session'[b.peer], b.sid)
    BY <2>1, <2>2 DEF BundleInv
  <2>4. \A u \in Calls : Unstored(u)' /\ Kind(u)' = "processPreKeyBundle" =>
          ~Has(session'[Peer(u)'], Arg(u)'.sid)
    BY <1>4, <2>2 DEF BundleInv
  <2>5. \A u, v \in Calls :
          (/\ phase'[u] # "idle" /\ Kind(u)' = "processPreKeyBundle"
           /\ phase'[v] # "idle" /\ Kind(v)' = "processPreKeyBundle"
           /\ Arg(u)' = Arg(v)') => u = v
    BY <1>4, <2>2 DEF BundleInv
  <2>. QED
    BY <2>3, <2>4, <2>5 DEF BundleInv
<1>6. OwnerInv'
  BY DEF ClientInv, OwnerInv
<1>7. KeysOnce'
  BY <1>4 DEF ClientInv, KeysOnce, SameKey
<1>. QED
  BY <1>3, <1>5, <1>6, <1>7 DEF ClientInv
\* A call that throws keeps nothing to be right about.
LEMMA ThrowStep ==
  ASSUME ClientInv, TypeOK', NEW t \in Calls, NEW err, Throw(t, err)
  PROVE  ClientInv'
<1>1. TypeOK /\ RequestInv(t)
  BY DEF ClientInv, CallInv
<1>2. /\ OnlyCall(t)
      /\ request' = request /\ session' = session /\ identity' = identity
      /\ phase[t] = "running" /\ phase'[t] = "rejected"
  BY <1>1 DEF Throw, SettleFn, OnlyCall, loaded, tables, TypeOK, QueueTypeOK
<1>3. CallInv(t)'
  BY <1>1, <1>2 DEF CallInv, RequestInv, LabelInv, FreshReads, ResultInv, SpentInv,
                    Running, Done, Kind, Arg, Peer
<1>4. ~Unstored(t)' /\ ~Done(t)'
  BY <1>2 DEF Unstored, Done, Running
<1>. QED
  BY <1>2, <1>3, <1>4, LocalStep

\* A call that is entered has read nothing yet.
LEMMA BeginStep ==
  ASSUME ClientInv, TypeOK', NEW t \in Calls, Begin(t)
  PROVE  ClientInv'
<1>1. TypeOK /\ RequestInv(t)
  BY DEF ClientInv, CallInv
<1>2. /\ OnlyCall(t)
      /\ request' = request /\ session' = session /\ identity' = identity
      /\ phase[t] = "queued" /\ phase'[t] = "running"
      /\ pc'[t] = IF Kind(t) = "publishOneTimePreKey" THEN "storePreKey" ELSE "loadSession"
  BY <1>1 DEF Begin, StartFn, Goto, OnlyCall, loaded, tables, locals, TypeOK, QueueTypeOK
<1>3. RequestInv(t)'
  BY <1>1, <1>2 DEF RequestInv, Kind, Arg, Peer
<1>4. CallInv(t)'
  BY <1>2, <1>3 DEF CallInv, LabelInv, FreshReads, ResultInv, SpentInv, Running, Done,
                    Kind, Arg, Peer
<1>5. Unstored(t) /\ ~Done(t)'
  BY <1>2 DEF Unstored, Done, Running
<1>. QED
  BY <1>2, <1>4, <1>5, LocalStep

\* The reads: a call remembers what the tables hold.
LEMMA ReadStep ==
  ASSUME ClientInv, TypeOK', NEW t \in Calls, Read(t)
  PROVE  ClientInv'
<1>. USE DEF At, Goto
<1>1. TypeOK /\ CallInv(t)
  BY DEF ClientInv
<1>2. CASE \E err \in Errors : Throw(t, err)
  BY <1>2, ThrowStep
<1>3. ASSUME OnlyCall(t),
             request' = request, session' = session, identity' = identity,
             Running(t), phase'[t] = "running",
             LabelInv(t)', FreshReads(t)', pc'[t] \in {"getIdentity", "runOp"} \cup Resolving,
             pc'[t] \in {"getIdentity", "runOp"} =>
               pc[t] \in {"loadSession", "getIdentity"} \/ Kind(t) # "processPreKeyBundle"
      PROVE  ClientInv'
  <2>1. RequestInv(t)'
    BY <1>1, <1>3 DEF CallInv, RequestInv, Kind, Arg, Peer, Running
  <2>2. ResultInv(t)' /\ SpentInv(t)' /\ ~Done(t)'
    BY <1>3 DEF ResultInv, SpentInv, Done, Running
  <2>3. CallInv(t)'
    BY <1>3, <2>1, <2>2 DEF CallInv
  <2>. QED
    <3>1. Unstored(t)' /\ Kind(t) = "processPreKeyBundle" => Unstored(t)
      BY <1>3 DEF Running, Unstored
    <3>2. phase[t] # "idle" /\ phase'[t] # "idle"
      BY <1>3 DEF Running
    <3>. QED
      BY <1>3, <2>2, <2>3, <3>1, <3>2, LocalStep
<1>4. CASE LoadSession(t) /\ ~Throw(t, "SessionNotFound")
  <2>1. /\ OnlyCall(t)
        /\ request' = request /\ session' = session /\ identity' = identity
        /\ Running(t) /\ phase'[t] = "running"
        /\ pc[t] = "loadSession" /\ pc'[t] = "getIdentity"
        /\ existingSession'[t] = session[Peer(t)]
        /\ Kind(t) = "encrypt" => session[Peer(t)] # None
    BY <1>1, <1>4 DEF LoadSession, OnlyCall, loaded, Running, queueVars, tables, TypeOK
  <2>2. LabelInv(t)' /\ FreshReads(t)'
    BY <1>1, <2>1 DEF CallInv, LabelInv, FreshReads, Kind, Peer, Running
  <2>. QED  BY <2>1, <2>2, <1>3
<1>5. CASE GetIdentity(t)
  <2>1. /\ OnlyCall(t)
        /\ request' = request /\ session' = session /\ identity' = identity
        /\ Running(t) /\ phase'[t] = "running"
        /\ pc[t] = "getIdentity"
        /\ pc'[t] \in {"runOp", "loadPreKey", "loadSignedPreKey"}
        /\ pc'[t] # "runOp" => Kind(t) = "decryptPreKeySignal"
        /\ existingSession'[t] = existingSession[t]
        /\ remoteIdentity'[t] = identity[Peer(t)]
    BY <1>1, <1>5 DEF GetIdentity, OnlyCall, loaded, Running, queueVars, tables, TypeOK
  <2>2. LabelInv(t)' /\ FreshReads(t)'
    BY <1>1, <2>1 DEF CallInv, LabelInv, FreshReads, Kind, Peer, Running
  <2>. QED  BY <2>1, <2>2, <1>3
<1>6. CASE (LoadPreKey(t) \/ LoadSignedPreKey(t)) /\ ~Throw(t, "InvalidKey")
  <2>1. /\ OnlyCall(t)
        /\ request' = request /\ session' = session /\ identity' = identity
        /\ Running(t) /\ phase'[t] = "running"
        /\ pc[t] \in Resolving
        /\ pc'[t] \in {"loadSignedPreKey", "loadKyberPreKeys"}
        /\ existingSession'[t] = existingSession[t]
        /\ remoteIdentity'[t] = remoteIdentity[t]
    BY <1>1, <1>6 DEF LoadPreKey, LoadSignedPreKey, OnlyCall, loaded, Running, queueVars, tables,
                      locals, TypeOK
  <2>2. LabelInv(t)' /\ FreshReads(t)'
    BY <1>1, <2>1 DEF CallInv, LabelInv, FreshReads, Kind, Peer, Running
  <2>. QED  BY <2>1, <2>2, <1>3
<1>7. CASE LoadKyberPreKeys(t)
  <2>1. /\ OnlyCall(t)
        /\ request' = request /\ session' = session /\ identity' = identity
        /\ Running(t) /\ phase'[t] = "running"
        /\ pc[t] = "loadKyberPreKeys" /\ pc'[t] = "runOp"
        /\ existingSession'[t] = existingSession[t]
        /\ remoteIdentity'[t] = remoteIdentity[t]
    BY <1>1, <1>7 DEF LoadKyberPreKeys, OnlyCall, loaded, Running, queueVars, tables, TypeOK
  <2>2. Kind(t) = "decryptPreKeySignal"
    BY <1>1, <2>1 DEF CallInv, LabelInv
  <2>3. LabelInv(t)' /\ FreshReads(t)'
    BY <1>1, <2>1, <2>2 DEF CallInv, LabelInv, FreshReads, Kind, Peer, Running
  <2>. QED  BY <2>1, <2>2, <2>3, <1>3
<1>8. "SessionNotFound" \in Errors /\ "InvalidKey" \in Errors
  BY DEF Errors
<1>. QED
  BY <1>2, <1>4, <1>5, <1>6, <1>7, <1>8 DEF Read

\* The native operation computes what is to be stored from what the tables hold.
LEMMA RunOpStep ==
  ASSUME ClientInv, TypeOK', NEW t \in Calls, RunOp(t)
  PROVE  ClientInv'
<1>1. TypeOK /\ CallInv(t)
  BY DEF ClientInv
<1>2. CASE Op(t).err # None
  BY <1>2, ThrowStep DEF RunOp
<1>3. CASE Op(t).err = None
  <2>1. /\ OnlyCall(t)
        /\ request' = request /\ session' = session /\ identity' = identity
        /\ Running(t) /\ phase'[t] = "running"
        /\ pc[t] = "runOp" /\ pc'[t] = "storeSession"
        /\ existingSession'[t] = existingSession[t]
        /\ remoteIdentity'[t] = remoteIdentity[t]
        /\ result'[t] = Op(t)
    BY <1>1, <1>3 DEF RunOp, At, Goto, OnlyCall, loaded, Running, queueVars, tables, TypeOK
  <2>2. RequestInv(t)' /\ LabelInv(t)' /\ FreshReads(t)'
    BY <1>1, <2>1 DEF CallInv, RequestInv, LabelInv, FreshReads, Kind, Arg, Peer, Running
  <2>3. /\ Op(t).session \in SessionRecord
        /\ Computed(Op(t), request[t], existingSession[t])
        /\ Kind(t) = "processPreKeyBundle" =>
             Op(t).trusted \in Identities /\ Trusted(remoteIdentity[t], Op(t).trusted)
    BY <1>3, OpComputes DEF RunOp
  <2>4. Computed(result'[t], request'[t], existingSession'[t])
    BY <2>1, <2>3
  <2>5. ResultInv(t)'
    BY <2>1, <2>3, <2>4 DEF ResultInv, Kind, Trusted
  <2>6. SpentInv(t)' /\ ~Done(t)'
    BY <2>1 DEF SpentInv, Done, Running
  <2>7. CallInv(t)'
    BY <2>2, <2>5, <2>6 DEF CallInv
  <2>. QED
    BY <2>1, <2>6, <2>7, LocalStep DEF Running, Unstored
<1>. QED  BY <1>2, <1>3
\* The writes other than that of a session.
LEMMA SideWriteStep ==
  ASSUME ClientInv, MutualExclusion, TypeOK', NEW t \in Calls, Write(t), ~StoreSession(t)
  PROVE  ClientInv'
<1>. USE DEF At, Goto
<1>1. TypeOK /\ CallInv(t)
  BY DEF ClientInv
<1>2. ASSUME OnlyCall(t), request' = request, session' = session, result' = result,
             Running(t), phase'[t] = "running",
             existingSession'[t] = existingSession[t],
             remoteIdentity'[t] = remoteIdentity[t],
             pc[t] \in Cleanup, pc'[t] \in Cleanup \cup {"return"},
             pc'[t] # "return" => identity' = identity,
             pc'[t] # "removePreKey",
             pc'[t] = "markKyberPreKeyUsed" => result[t].kyber # None,
             pc'[t] = "saveIdentity" => ToPin(t) # None
      PROVE  ClientInv'
  <2>1. RequestInv(t)' /\ LabelInv(t)' /\ FreshReads(t)'
    BY <1>1, <1>2 DEF CallInv, RequestInv, LabelInv, FreshReads, Kind, Arg, Peer, Running
  <2>2. ResultInv(t)'
    BY <1>1, <1>2 DEF CallInv, ResultInv, Running, Kind, ToPin
  <2>3. SpentInv(t)' /\ Done(t)
    BY <1>1, <1>2 DEF CallInv, SpentInv, Done, Running, Kind, Arg, Peer
  <2>4. CallInv(t)' /\ ~Unstored(t)'
    BY <1>2, <2>1, <2>2, <2>3 DEF CallInv, Unstored, Running
  <2>. QED
    BY <1>2, <2>3, <2>4, LocalStep DEF Running
<1>3. ASSUME OnlyCall(t), request' = request, session' = session, identity' = identity,
             Running(t), phase'[t] = "running",
             pc[t] \in Publishing, pc'[t] \in Publishing \cup {"return"}
      PROVE  ClientInv'
  <2>1. Kind(t) = "publishOneTimePreKey" /\ Kind(t)' = Kind(t)
    BY <1>1, <1>3 DEF CallInv, LabelInv, Kind
  <2>2. CallInv(t)' /\ ~Unstored(t)'
    BY <1>1, <1>3, <2>1 DEF CallInv, RequestInv, LabelInv, FreshReads, ResultInv, SpentInv,
                            Running, Unstored, Arg, Peer, Kind
  <2>. QED
    BY <1>3, <2>1, <2>2, LocalStep DEF Running
<1>4. CASE RemovePreKey(t)
  BY <1>1, <1>2, <1>4 DEF RemovePreKey, OnlyCall, loaded, Running, queueVars, locals, TypeOK,
                          AfterPreKey, AfterKyber
<1>5. CASE MarkKyberPreKeyUsed(t)
  BY <1>1, <1>2, <1>5 DEF MarkKyberPreKeyUsed, OnlyCall, loaded, Running, queueVars, locals, TypeOK,
                          AfterKyber
<1>6. CASE SaveIdentity(t)
  BY <1>1, <1>2, <1>6 DEF SaveIdentity, OnlyCall, loaded, Running, queueVars, locals, TypeOK
<1>7. CASE StorePreKey(t)
  BY <1>1, <1>3, <1>7 DEF StorePreKey, OnlyCall, loaded, Running, queueVars, locals, TypeOK
<1>8. CASE StoreSignedPreKey(t)
  BY <1>1, <1>3, <1>8 DEF StoreSignedPreKey, OnlyCall, loaded, Running, queueVars, locals, TypeOK
<1>9. CASE StoreKyberPreKey(t)
  BY <1>1, <1>3, <1>9 DEF StoreKyberPreKey, OnlyCall, loaded, Running, queueVars, locals, TypeOK
<1>. QED
  BY <1>4, <1>5, <1>6, <1>7, <1>8, <1>9 DEF Write

\* A call that returns has stored what it hands out.
LEMMA ReturnStep ==
  ASSUME ClientInv, TypeOK', NEW t \in Calls, Return(t)
  PROVE  ClientInv'
<1>1. TypeOK /\ CallInv(t)
  BY DEF ClientInv
<1>2. /\ OnlyCall(t)
      /\ request' = request /\ session' = session /\ identity' = identity
      /\ result' = result
      /\ phase[t] = "running" /\ phase'[t] = "fulfilled" /\ pc[t] = "return"
  BY <1>1 DEF Return, At, SettleFn, OnlyCall, loaded, tables, volatile, locals, TypeOK, QueueTypeOK
<1>3. Done(t) /\ ~Unstored(t)'
  BY <1>2 DEF Done, Running, Unstored
<1>4. CallInv(t)'
  BY <1>1, <1>2, <1>3 DEF CallInv, RequestInv, LabelInv, FreshReads, ResultInv, SpentInv,
                          Running, Kind, Arg, Peer
<1>. QED
  BY <1>2, <1>3, <1>4, LocalStep
\* The write of a session: it extends the record that is stored, adds no session
\* but the one of the call's own handshake, and spends a key not spent before.
LEMMA StoreSessionStep ==
  ASSUME ClientInv, MutualExclusion, TypeOK', NEW t \in Calls, StoreSession(t)
  PROVE  ClientInv'
<1> DEFINE p == Peer(t)
           new == result[t].session
<1>1. /\ TypeOK
      /\ \A u \in Calls : CallInv(u)
      /\ BundleInv /\ OwnerInv /\ KeysOnce
  BY DEF ClientInv
<1>2. /\ phase' = phase /\ request' = request /\ result' = result /\ identity' = identity
      /\ existingSession' = existingSession /\ remoteIdentity' = remoteIdentity /\ preKey' = preKey
      /\ session' = [session EXCEPT ![p] = new]
      /\ phase[t] = "running" /\ pc[t] = "storeSession" /\ Running(t)
      /\ pc' = [pc EXCEPT ![t] = AfterSession(t)]
  BY DEF StoreSession, At, Goto, Running, queueVars, locals, loaded
<1>3. OnlyCall(t)
  BY <1>1, <1>2 DEF OnlyCall, TypeOK
<1>4. /\ RequestInv(t) /\ LabelInv(t) /\ FreshReads(t) /\ ResultInv(t)
      /\ phase[t] # "idle"
  BY <1>1, <1>2 DEF CallInv
<1>5. /\ Kind(t) \in {"processPreKeyBundle", "encrypt", "decryptPreKeySignal", "decryptSignal"}
      /\ p \in Peers
      /\ Kind(t) = "processPreKeyBundle" => Arg(t) \in Bundles /\ Arg(t).peer = p
      /\ Kind(t) \in Decrypts => Arg(t) \in CiphertextMessage
  BY <1>2, <1>4, RequestTypes DEF LabelInv, RequestInv
<1>6. /\ new \in SessionRecord
      /\ existingSession[t] = session[p]
      /\ Computed(result[t], request[t], session[p])
  BY <1>2, <1>4 DEF ResultInv, FreshReads
<1>7. /\ session'[p] = new
      /\ \A q \in Peers : q # p => session'[q] = session[q]
  BY <1>1, <1>2, <1>5 DEF TypeOK
<1>8. /\ Extends(new, session[p])
      /\ \A s \in Sids : Has(new, s) =>
           \/ Has(session[p], s)
           \/ Kind(t) \in {"processPreKeyBundle", "decryptPreKeySignal"} /\ s = Arg(t).sid
      /\ Kind(t) = "encrypt" =>
           /\ result[t].msg \in CiphertextMessage
           /\ Has(session[p], result[t].msg.sid) /\ Has(new, result[t].msg.sid)
           /\ session[p].states[result[t].msg.sid].sent = result[t].msg.ctr
           /\ result[t].msg.ctr < new.states[result[t].msg.sid].sent
      /\ Kind(t) \in Decrypts =>
           /\ result[t].msg = Arg(t)
           /\ Has(session[p], Arg(t).sid) => Arg(t).ctr \notin session[p].states[Arg(t).sid].rcvd
           /\ Has(new, Arg(t).sid)
           /\ Arg(t).ctr \in new.states[Arg(t).sid].rcvd
  BY <1>6 DEF Computed, Kind, Arg
<1>. HIDE DEF p, new
<1>9. \A q \in Peers : Extends(session'[q], session[q])
  BY <1>1, <1>7, <1>8, SelfExtends DEF TypeOK
<1>10. \A u \in Calls : u # t => CallInv(u)'
  BY <1>1, <1>2, <1>3, <1>9, FrameCall DEF OnlyCall, MutualExclusion, Running
<1>11. /\ pc'[t] \in Cleanup \cup {"return"}
       /\ pc'[t] = "removePreKey" => result[t].consumed # None
       /\ pc'[t] = "markKyberPreKeyUsed" => result[t].kyber # None
       /\ pc'[t] = "saveIdentity" => ToPin(t) # None
  BY <1>1, <1>2 DEF AfterSession, AfterPreKey, AfterKyber, TypeOK
<1>12. CallInv(t)'
  <2>1. RequestInv(t)' /\ LabelInv(t)' /\ FreshReads(t)'
    BY <1>2, <1>4, <1>5, <1>11 DEF RequestInv, LabelInv, FreshReads, Kind, Arg, Peer, Running
  <2>2. ResultInv(t)'
    BY <1>2, <1>4, <1>11 DEF ResultInv, Running, Kind, ToPin
  <2>3. SpentInv(t)'
    BY <1>2, <1>5, <1>7, <1>8 DEF SpentInv, Kind, Arg, Peer, p
  <2>. QED
    BY <2>1, <2>2, <2>3 DEF CallInv
<1>13. ASSUME NEW b \in Bundles, Arg(t) # b \/ Kind(t) # "processPreKeyBundle",
              ~Has(session[b.peer], b.sid)
       PROVE  ~Has(session'[b.peer], b.sid)
  <2>1. b.sid \in Sids /\ b.peer \in Peers
    BY ClientAssumption
  <2>2. Kind(t) = "decryptPreKeySignal" => b.sid # Arg(t).sid
    BY <1>4, ClientAssumption DEF RequestInv
  <2>3. Kind(t) = "processPreKeyBundle" => b.sid # Arg(t).sid
    BY <1>5, <1>13, ClientAssumption
  <2>. QED
    BY <1>7, <1>8, <1>13, <2>1, <2>2, <2>3
<1>14. BundleInv'
  <2>1. ASSUME NEW b \in Bundles, FreshBundle(b)' PROVE ~Has(session'[b.peer], b.sid)
    <3>1. FreshBundle(b)
      BY <1>2, <2>1 DEF FreshBundle
    <3>2. Arg(t) # b
      BY <1>4, <3>1, RequestAssumption DEF FreshBundle, RequestInv, Arg
    <3>. QED
      BY <1>1, <1>13, <3>1, <3>2 DEF BundleInv
  <2>2. ASSUME NEW u \in Calls, Unstored(u)', Kind(u)' = "processPreKeyBundle"
        PROVE  ~Has(session'[Peer(u)'], Arg(u)'.sid)
    <3>1. u # t
      BY <1>2, <1>11, <2>2 DEF Unstored, Running
    <3>2. Unstored(u) /\ Kind(u) = "processPreKeyBundle" /\ phase[u] # "idle"
          /\ Peer(u)' = Peer(u) /\ Arg(u)' = Arg(u)
      BY <1>2, <1>3, <2>2, <3>1 DEF OnlyCall, Unstored, Running, Kind, Peer, Arg
    <3>3. Arg(u) \in Bundles /\ Arg(u).peer = Peer(u)
      BY <1>1, <3>2, RequestTypes DEF CallInv, RequestInv
    <3>4. Arg(t) # Arg(u) \/ Kind(t) # "processPreKeyBundle"
      BY <1>1, <1>4, <3>1, <3>2 DEF BundleInv
    <3>5. ~Has(session[Peer(u)], Arg(u).sid)
      BY <1>1, <3>2 DEF BundleInv
    <3>. QED
      BY <1>13, <3>2, <3>3, <3>4, <3>5
  <2>3. \A u, v \in Calls :
          (/\ phase'[u] # "idle" /\ Kind(u)' = "processPreKeyBundle"
           /\ phase'[v] # "idle" /\ Kind(v)' = "processPreKeyBundle"
           /\ Arg(u)' = Arg(v)') => u = v
    BY <1>1, <1>2 DEF BundleInv, Kind, Arg
  <2>. QED
    BY <2>1, <2>2, <2>3 DEF BundleInv
<1>15. OwnerInv'
  <2>. SUFFICES ASSUME NEW q \in Peers, NEW s \in Sids, Has(session'[q], s)
                PROVE  Owns(q, s)
    BY DEF OwnerInv, Owns
  <2>1. CASE Has(session[q], s)
    BY <1>1, <2>1 DEF OwnerInv
  <2>2. CASE ~Has(session[q], s)
    <3>1. q = p /\ Kind(t) \in {"processPreKeyBundle", "decryptPreKeySignal"} /\ s = Arg(t).sid
      BY <1>7, <1>8, <2>2
    <3>2. Kind(t) = "decryptPreKeySignal" => [from |-> p, msg |-> Arg(t)] \in Incoming
      BY <1>4 DEF RequestInv, p
    <3>. QED
      BY <1>5, <3>1, <3>2 DEF Owns
  <2>. QED  BY <2>1, <2>2
<1>16. KeysOnce'
  <2>1. ASSUME NEW u \in Calls, u # t, Done(u)',
               \/ Kind(t) = "encrypt" /\ Kind(u) = "encrypt"
               \/ Kind(t) \in Decrypts /\ Kind(u) \in Decrypts
        PROVE  ~SameKey(t, u)
    <3>1. Done(u) /\ SpentInv(u) /\ RequestInv(u) /\ phase[u] # "idle"
      BY <1>1, <1>2, <1>3, <2>1 DEF OnlyCall, Done, Running, CallInv
    <3>2. Peer(u) \in Peers /\ (Kind(u) \in Decrypts => Arg(u) \in CiphertextMessage)
      BY <2>1, <3>1, RequestTypes
    <3>3. CASE Kind(t) = "encrypt" /\ Kind(u) = "encrypt"
      <4>. SUFFICES ASSUME result[t].msg.sid = result[u].msg.sid
                    PROVE  result[t].msg.ctr # result[u].msg.ctr
        BY DEF SameKey
      <4>1. /\ result[u].msg.sid \in Sids
            /\ Has(session[Peer(u)], result[u].msg.sid)
            /\ result[u].msg.ctr < session[Peer(u)].states[result[u].msg.sid].sent
            /\ result[u].msg.ctr \in Nat
        BY <3>1, <3>3 DEF SpentInv, CiphertextMessage
      <4>2. Owns(Peer(u), result[u].msg.sid) /\ Owns(p, result[u].msg.sid)
        BY <1>1, <1>5, <1>8, <3>2, <3>3, <4>1 DEF OwnerInv
      <4>3. Peer(u) = p
        BY <4>2, OwnsUnique
      <4>. QED
        BY <1>8, <3>3, <4>1, <4>3
    <3>4. CASE Kind(t) \in Decrypts /\ Kind(u) \in Decrypts
      <4>. SUFFICES ASSUME Arg(t).sid = Arg(u).sid
                    PROVE  Arg(t).ctr # Arg(u).ctr
        BY <1>8, <3>1, <3>4 DEF SameKey, SpentInv
      <4>1. /\ Has(session[Peer(u)], Arg(u).sid)
            /\ Arg(u).ctr \in session[Peer(u)].states[Arg(u).sid].rcvd
        BY <3>1, <3>4 DEF SpentInv
      <4>2. Peer(u) = p
        BY <1>4, <3>1, <3>4, ClientAssumption DEF RequestInv, p
      <4>. QED
        BY <1>8, <3>4, <4>1, <4>2
    <3>. QED  BY <2>1, <3>3, <3>4
  <2>2. \A u \in Calls : Kind(u)' = Kind(u) /\ (u # t => (Done(u)' <=> Done(u)))
    BY <1>2, <1>3 DEF OnlyCall, Kind, Done, Running
  <2>3. \A u, v \in Calls : SameKey(u, v)' = SameKey(u, v) /\ SameKey(u, v) = SameKey(v, u)
    BY <1>2 DEF SameKey
  <2>. SUFFICES ASSUME NEW u \in Calls, NEW v \in Calls, u # v, Done(u)', Done(v)',
                       \/ Kind(u) = "encrypt" /\ Kind(v) = "encrypt"
                       \/ Kind(u) \in Decrypts /\ Kind(v) \in Decrypts
                PROVE  ~SameKey(u, v)
    BY <2>2, <2>3 DEF KeysOnce
  <2>4. CASE u = t
    BY <2>1, <2>4
  <2>5. CASE v = t
    BY <2>1, <2>3, <2>5
  <2>6. CASE u # t /\ v # t
    BY <1>1, <2>2, <2>6 DEF KeysOnce
  <2>. QED  BY <2>4, <2>5, <2>6
<1>. QED
  BY <1>10, <1>12, <1>14, <1>15, <1>16 DEF ClientInv
\* A new call has a request that may arrive, and no bundle is used twice.
LEMMA InvokeStep ==
  ASSUME ClientInv, TypeOK', NEW t \in Calls, Invoke(t)
  PROVE  ClientInv'
<1>1. /\ TypeOK
      /\ \A u \in Calls : CallInv(u)
      /\ BundleInv /\ OwnerInv /\ KeysOnce
  BY DEF ClientInv
<1>2. PICK r \in Requests : Arrives(r) /\ request' = [request EXCEPT ![t] = r]
  BY DEF Invoke
<1>3. /\ OnlyCall(t)
      /\ phase[t] = "idle" /\ phase'[t] = "queued"
      /\ request'[t] = r
      /\ session' = session /\ identity' = identity
      /\ result' = result
  BY <1>1, <1>2 DEF Invoke, RunExclusive, OnlyCall, loaded, tables, locals, TypeOK, QueueTypeOK
<1>4. request[t] = None
  BY <1>1, <1>3 DEF CallInv, RequestInv
<1>5. /\ r.kind = "processPreKeyBundle" =>
           r.arg \in Bundles /\ r.arg.peer = r.peer /\ FreshBundle(r.arg)
      /\ r.kind \in Decrypts => /\ [from |-> r.peer, msg |-> r.arg] \in Incoming
                                /\ r.kind = "decryptSignal" <=> r.arg.type = "signal"
  BY <1>2 DEF Arrives, Requests
<1>6. CallInv(t)'
  <2>1. RequestInv(t)'
    BY <1>2, <1>3, <1>5 DEF RequestInv, Kind, Arg, Peer
  <2>. QED
    BY <1>3, <2>1 DEF CallInv, LabelInv, FreshReads, ResultInv, SpentInv, Running, Done
<1>7. \A p \in Peers : Extends(session'[p], session[p])
  BY <1>1, <1>3, SelfExtends DEF TypeOK
<1>8. \A u \in Calls : CallInv(u)'
  BY <1>1, <1>3, <1>6, <1>7, FrameCall DEF OnlyCall
<1>9. \A u \in Calls : u # t =>
        /\ Kind(u)' = Kind(u) /\ Arg(u)' = Arg(u) /\ Peer(u)' = Peer(u)
        /\ Unstored(u)' = Unstored(u) /\ Done(u)' = Done(u) /\ phase'[u] = phase[u]
  BY <1>3 DEF OnlyCall, Kind, Arg, Peer, Unstored, Done, Running
<1>10. Kind(t)' = r.kind /\ Arg(t)' = r.arg /\ Peer(t)' = r.peer /\ ~Done(t)'
  BY <1>3 DEF Kind, Arg, Peer, Done, Running
<1>11. BundleInv'
  <2>1. ASSUME NEW b \in Bundles, FreshBundle(b)' PROVE ~Has(session'[b.peer], b.sid)
    <3>1. FreshBundle(b)
      BY <1>3, <1>4, <2>1 DEF FreshBundle, OnlyCall
    <3>. QED
      BY <1>1, <1>3, <3>1 DEF BundleInv
  <2>2. ASSUME NEW u \in Calls, Unstored(u)', Kind(u)' = "processPreKeyBundle"
        PROVE  ~Has(session'[Peer(u)'], Arg(u)'.sid)
    <3>1. CASE u = t
      BY <1>1, <1>3, <1>5, <1>10, <2>2, <3>1 DEF BundleInv
    <3>2. CASE u # t
      BY <1>1, <1>3, <1>9, <2>2, <3>2 DEF BundleInv
    <3>. QED  BY <3>1, <3>2
  <2>3. ASSUME NEW u \in Calls, u # t, phase[u] # "idle", Kind(u) = "processPreKeyBundle",
               r.kind = "processPreKeyBundle"
        PROVE  Arg(u) # r.arg
    BY <1>1, <1>5, <2>3, RequestAssumption DEF CallInv, RequestInv, FreshBundle, Arg
  <2>4. ASSUME NEW u \in Calls, NEW v \in Calls,
               phase'[u] # "idle", Kind(u)' = "processPreKeyBundle",
               phase'[v] # "idle", Kind(v)' = "processPreKeyBundle",
               Arg(u)' = Arg(v)'
        PROVE  u = v
    <3>1. CASE u # t /\ v # t
      BY <1>1, <1>9, <2>4, <3>1 DEF BundleInv
    <3>2. CASE u = t \/ v = t
      BY <1>9, <1>10, <2>3, <2>4, <3>2
    <3>. QED  BY <3>1, <3>2
  <2>. QED
    BY <2>1, <2>2, <2>4 DEF BundleInv
<1>12. OwnerInv'
  BY <1>1, <1>3 DEF OwnerInv
<1>13. KeysOnce'
  BY <1>1, <1>3, <1>9, <1>10 DEF KeysOnce, SameKey
<1>. QED
  BY <1>8, <1>11, <1>12, <1>13 DEF ClientInv

\* A crash loses the calls in progress and nothing that was committed.
LEMMA KillStep ==
  ASSUME ClientInv, TypeOK', Kill
  PROVE  ClientInv'
<1>1. /\ \A u \in Calls : CallInv(u)
      /\ BundleInv /\ OwnerInv /\ KeysOnce
  BY DEF ClientInv
<1>2. /\ request' = request /\ result' = result /\ session' = session
      /\ \A u \in Calls : phase'[u] = IF phase[u] \in {"queued", "running"} THEN "lost"
                                       ELSE phase[u]
  BY DEF Kill, Restart, tables, volatile, locals
<1>3. \A u \in Calls : /\ ~Running(u)' /\ ~Unstored(u)'
                       /\ Done(u)' => Done(u)
                       /\ Kind(u)' = Kind(u) /\ Arg(u)' = Arg(u) /\ Peer(u)' = Peer(u)
                       /\ phase'[u] = "idle" <=> phase[u] = "idle"
  BY <1>2 DEF Running, Unstored, Done, Kind, Arg, Peer
<1>4. ASSUME NEW u \in Calls PROVE CallInv(u)'
  <2>1. RequestInv(u)'
    BY <1>1, <1>2, <1>3 DEF CallInv, RequestInv
  <2>2. LabelInv(u)' /\ FreshReads(u)' /\ ResultInv(u)'
    BY <1>3 DEF LabelInv, FreshReads, ResultInv
  <2>3. SpentInv(u)'
    BY <1>1, <1>2, <1>3 DEF CallInv, SpentInv
  <2>. QED
    BY <2>1, <2>2, <2>3 DEF CallInv
<1>5. BundleInv'
  BY <1>1, <1>2, <1>3 DEF BundleInv, FreshBundle
<1>6. OwnerInv' /\ KeysOnce'
  BY <1>1, <1>2, <1>3 DEF OwnerInv, KeysOnce, SameKey
<1>. QED
  BY <1>4, <1>5, <1>6 DEF ClientInv

\* Nothing changes.
LEMMA StutterStep ==
  ASSUME ClientInv, TypeOK', UNCHANGED vars
  PROVE  ClientInv'
<1>1. /\ phase' = phase /\ session' = session /\ identity' = identity
      /\ request' = request /\ pc' = pc /\ result' = result
      /\ existingSession' = existingSession /\ remoteIdentity' = remoteIdentity
  BY DEF vars, queueVars, tables, volatile, locals
<1>2. TypeOK /\ \A p \in Peers : Extends(session'[p], session[p])
  BY <1>1, SelfExtends DEF ClientInv, TypeOK
<1>3. \A u \in Calls : CallInv(u)'
  BY <1>1, <1>2, FrameCall DEF ClientInv
<1>4. BundleInv'
  BY <1>1 DEF ClientInv, BundleInv, FreshBundle, Unstored, Running, Kind, Arg, Peer
<1>5. OwnerInv'
  BY <1>1 DEF ClientInv, OwnerInv
<1>6. KeysOnce'
  BY <1>1 DEF ClientInv, KeysOnce, SameKey, Done, Running, Kind
<1>. QED
  BY <1>3, <1>4, <1>5, <1>6 DEF ClientInv

\* Every step of the device preserves the invariant.
LEMMA ClientStep ==
  ASSUME ClientInv, ChainInv, ChainInv', [Next]_vars
  PROVE  ClientInv'
<1>1. MutualExclusion
  BY ChainExcludes
<1>2. TypeOK'
  BY StepTypes DEF ChainInv
<1>. QED
  BY <1>1, <1>2, InvokeStep, BeginStep, ReadStep, RunOpStep, StoreSessionStep, SideWriteStep,
     ReturnStep, ThrowStep, KillStep, StutterStep DEF Next, Step, Write, StoreFails

\* A new device satisfies the invariant.
LEMMA ClientInit == Init => ClientInv
<1>. SUFFICES ASSUME Init PROVE ClientInv
  OBVIOUS
<1>1. /\ \A t \in Calls : phase[t] = "idle" /\ request[t] = None
      /\ \A p \in Peers : session[p] = None
  BY DEF Init, QueueInit
<1>2. ASSUME NEW t \in Calls PROVE CallInv(t)
  <2>1. phase[t] = "idle" /\ request[t] = None
    BY <1>1
  <2>2. ~Running(t) /\ ~Done(t)
    BY <2>1 DEF Running, Done
  <2>. QED
    BY <2>1, <2>2 DEF CallInv, RequestInv, LabelInv, FreshReads, ResultInv, SpentInv
<1>3. BundleInv
  <2>1. \A b \in Bundles : b.peer \in Peers
    BY ClientAssumption
  <2>. QED
    BY <1>1, <2>1 DEF BundleInv, Has, Unstored, Running
<1>4. OwnerInv /\ KeysOnce
  BY <1>1 DEF OwnerInv, KeysOnce, Has, Done, Running
<1>5. TypeOK
  BY InitTypes
<1>. QED
  BY <1>2, <1>3, <1>4, <1>5 DEF ClientInv

\* The inductive invariant of a device holds in every reachable state.
THEOREM ClientInvariant == Spec => []ClientInv
<1>1. Spec => []ChainInv
  BY ClientImplementsQueue, ChainInvariant, PTL
<1>2. ClientInv /\ ChainInv /\ ChainInv' /\ [Next]_vars => ClientInv'
  BY ClientStep
<1>. QED
  BY <1>1, <1>2, ClientInit, PTL DEF Spec

\* Every variable of a device keeps its type.
THEOREM ClientTypes == Spec => []TypeOK
<1>1. ClientInv => TypeOK
  BY DEF ClientInv
<1>. QED
  BY <1>1, ClientInvariant, PTL

\* No two ciphertexts handed out by a device use the same message key.
THEOREM ClientNoMessageKeyReuse == Spec => []NoMessageKeyReuse
<1>1. ClientInv => NoMessageKeyReuse
  BY DEF ClientInv, KeysOnce, NoMessageKeyReuse, Encrypted, Fulfilled, Done, Kind
<1>. QED
  BY <1>1, ClientInvariant, PTL

\* No message is decrypted twice.
THEOREM ClientAtMostOnce == Spec => []AtMostOnce
<1>1. ClientInv => AtMostOnce
  BY DEF ClientInv, KeysOnce, AtMostOnce, Decrypted, Fulfilled, Done, Kind
<1>. QED
  BY <1>1, ClientInvariant, PTL
\* The table sessions is written by storeSession and trusted_identities by
\* saveIdentity, and by nothing else.
LEMMA OneWriter ==
  ASSUME [Next]_vars
  PROVE  /\ session' # session => \E t \in Calls : StoreSession(t)
         /\ identity' # identity => \E t \in Calls : SaveIdentity(t)
<1>. USE DEF tables
<1>1. ASSUME NEW t \in Calls, Invoke(t) \/ Begin(t) \/ Return(t)
      PROVE  session' = session /\ identity' = identity
  BY <1>1 DEF Invoke, Begin, Return
<1>2. ASSUME NEW t \in Calls, NEW err, Throw(t, err)
      PROVE  session' = session /\ identity' = identity
  BY <1>2 DEF Throw
<1>3. ASSUME NEW t \in Calls, Read(t)
      PROVE  session' = session /\ identity' = identity
  BY <1>2, <1>3 DEF Read, LoadSession, GetIdentity, LoadPreKey, LoadSignedPreKey,
                    LoadKyberPreKeys
<1>4. ASSUME NEW t \in Calls, RunOp(t) \/ StoreFails(t)
      PROVE  session' = session /\ identity' = identity
  BY <1>2, <1>4 DEF RunOp, StoreFails
<1>5. ASSUME NEW t \in Calls, Write(t)
      PROVE  /\ StoreSession(t) \/ session' = session
             /\ SaveIdentity(t) \/ identity' = identity
  BY <1>5 DEF Write, StoreSession, RemovePreKey, MarkKyberPreKeyUsed, SaveIdentity,
              StorePreKey, StoreSignedPreKey, StoreKyberPreKey
<1>6. ASSUME Kill \/ UNCHANGED vars PROVE session' = session /\ identity' = identity
  BY <1>6 DEF Kill, vars
<1>. QED
  BY <1>1, <1>3, <1>4, <1>5, <1>6 DEF Next, Step

\* A stored session record is only replaced by one that extends it, whatever
\* operations, failures and crashes come between the read and the write.
THEOREM ClientNoLostUpdate == Spec => NoLostUpdate
<1> DEFINE A == \A p \in Peers : Extends(session'[p], session[p])
<1>1. ASSUME ClientInv, [Next]_vars PROVE A
  <2>1. TypeOK
    BY <1>1 DEF ClientInv
  <2>2. CASE session' = session
    BY <2>1, <2>2, SelfExtends DEF TypeOK
  <2>3. ASSUME NEW t \in Calls, StoreSession(t) PROVE A
    <3>1. /\ CallInv(t) /\ Running(t) /\ pc[t] = "storeSession"
          /\ session' = [session EXCEPT ![Peer(t)] = result[t].session]
      BY <1>1, <2>3 DEF ClientInv, StoreSession, At, Running
    <3>2. Extends(result[t].session, session[Peer(t)])
      BY <3>1 DEF CallInv, ResultInv, FreshReads, Computed
    <3>. QED
      BY <2>1, <3>1, <3>2, SelfExtends DEF TypeOK
  <2>. QED
    BY <1>1, <2>2, <2>3, OneWriter
<1>. QED
  BY <1>1, ClientInvariant, PTL DEF Spec, NoLostUpdate

\* The identity pinned for a peer is never replaced.
THEOREM ClientIdentityPinIsStable == Spec => IdentityPinIsStable
<1> DEFINE A == \A p \in Peers : identity[p] # None => identity'[p] = identity[p]
<1>1. ASSUME ClientInv, [Next]_vars PROVE A
  <2>1. CASE identity' = identity
    BY <2>1
  <2>2. ASSUME NEW t \in Calls, SaveIdentity(t) PROVE A
    <3>1. /\ TypeOK /\ CallInv(t) /\ Running(t) /\ pc[t] = "saveIdentity"
          /\ identity' = [identity EXCEPT ![Peer(t)] = ToPin(t)]
      BY <1>1, <2>2 DEF ClientInv, SaveIdentity, At, Running
    <3>2. remoteIdentity[t] = identity[Peer(t)]
      BY <3>1 DEF CallInv, FreshReads
    <3>3. remoteIdentity[t] # None => ToPin(t) = remoteIdentity[t]
      BY <3>1 DEF CallInv, ResultInv, ToPin, Trusted
    <3>. QED
      BY <3>1, <3>2, <3>3 DEF TypeOK
  <2>. QED
    BY <1>1, <2>1, <2>2, OneWriter
<1>. QED
  BY <1>1, ClientInvariant, PTL DEF Spec, IdentityPinIsStable

-----------------------------------------------------------------------------
(* The device implements MessageKeys *)

\* A call is fulfilled by Return and by nothing else, and stays as it is then.
LEMMA OnlyReturnFulfils ==
  ASSUME TypeOK, [Next]_vars
  PROVE  \/ \E t \in Calls : Return(t)
         \/ \A u \in Calls :
              /\ phase'[u] = "fulfilled" <=> phase[u] = "fulfilled"
              /\ phase[u] = "fulfilled" => request'[u] = request[u] /\ result'[u] = result[u]
<1> DEFINE Kept == \A u \in Calls :
                     /\ phase'[u] = "fulfilled" <=> phase[u] = "fulfilled"
                     /\ phase[u] = "fulfilled" =>
                          request'[u] = request[u] /\ result'[u] = result[u]
<1>1. /\ phase \in [Calls -> Phases]
      /\ request \in [Calls -> Requests \cup {None}]
      /\ result \in [Calls -> Result]
  BY DEF TypeOK, QueueTypeOK
<1>2. ASSUME NEW t \in Calls, NEW err, Throw(t, err) PROVE Kept
  BY <1>1, <1>2 DEF Throw, SettleFn
<1>3. ASSUME NEW t \in Calls, UNCHANGED <<phase, request>>,
             \/ result' = result
             \/ phase[t] = "running" /\ \E answer : result' = [result EXCEPT ![t] = answer]
      PROVE  Kept
  BY <1>1, <1>3
<1>4. ASSUME NEW t \in Calls, Invoke(t) PROVE Kept
  BY <1>1, <1>4 DEF Invoke, RunExclusive, locals
<1>5. ASSUME NEW t \in Calls, Begin(t) PROVE Kept
  BY <1>1, <1>5 DEF Begin, StartFn, locals
<1>6. ASSUME NEW t \in Calls, Read(t) PROVE Kept
  BY <1>2, <1>3, <1>6 DEF Read, LoadSession, GetIdentity, LoadPreKey, LoadSignedPreKey,
                          LoadKyberPreKeys, queueVars, locals
<1>7. ASSUME NEW t \in Calls, RunOp(t) PROVE Kept
  BY <1>2, <1>3, <1>7 DEF RunOp, At, queueVars
<1>8. ASSUME NEW t \in Calls, Write(t) PROVE Kept
  BY <1>3, <1>8 DEF Write, StoreSession, RemovePreKey, MarkKyberPreKeyUsed, SaveIdentity,
                    StorePreKey, StoreSignedPreKey, StoreKyberPreKey, queueVars, locals
<1>9. ASSUME NEW t \in Calls, StoreFails(t) PROVE Kept
  BY <1>2, <1>9 DEF StoreFails
<1>10. ASSUME Kill PROVE Kept
  BY <1>1, <1>10 DEF Kill, Restart, volatile, locals
<1>11. ASSUME UNCHANGED vars PROVE Kept
  BY <1>11 DEF vars, queueVars, volatile, locals
<1>. QED
  BY <1>4, <1>5, <1>6, <1>7, <1>8, <1>9, <1>10, <1>11 DEF Next, Step

\* The key of a call that hands something out is a key.
LEMMA KeyTypes ==
  ASSUME TypeOK, NEW t \in Calls, CallInv(t), Done(t), Kind(t) \in {"encrypt"} \cup Decrypts
  PROVE  KeyOf(t) \in Sids \X Nat
<1>1. phase[t] # "idle"
  BY DEF Done, Running
<1>2. Kind(t) \in Decrypts => Arg(t) \in CiphertextMessage
  BY <1>1, RequestTypes DEF CallInv
<1>3. result[t].msg \in CiphertextMessage
  BY <1>2 DEF CallInv, SpentInv
<1>. QED
  BY <1>3 DEF KeyOf, CiphertextMessage

\* The device hands out ciphertexts and plaintexts as MessageKeys has it: the reads, the
\* native operation and the writes of a call, its failures and kills are invisible, and
\* its return takes a key that no call of its kind has taken.
THEOREM ClientImplementsMessageKeys == Spec => ImplementsMessageKeys
<1> DEFINE sent   == {<<t, KeyOf(t)>> : t \in {u \in Calls : Encrypted(u)}}
           opened == {<<t, KeyOf(t)>> : t \in {u \in Calls : Decrypted(u)}}
<1>1. Init => OneUse!Init
  BY DEF Init, QueueInit, OneUse!Init, Encrypted, Decrypted, Fulfilled
<1>2. ASSUME ClientInv, ClientInv', [Next]_vars
      PROVE  [OneUse!Next]_<<sent, opened>>
  <2>1. CASE \A u \in Calls :
               /\ phase'[u] = "fulfilled" <=> phase[u] = "fulfilled"
               /\ phase[u] = "fulfilled" => request'[u] = request[u] /\ result'[u] = result[u]
    <3>1. \A u \in Calls : /\ Encrypted(u)' <=> Encrypted(u)
                           /\ Decrypted(u)' <=> Decrypted(u)
                           /\ Encrypted(u) \/ Decrypted(u) => KeyOf(u)' = KeyOf(u)
      BY <2>1 DEF Encrypted, Decrypted, Fulfilled, KeyOf
    <3>. QED
      BY <3>1
  <2>2. ASSUME NEW t \in Calls, Return(t) PROVE [OneUse!Next]_<<sent, opened>>
    <3>1. /\ phase[t] = "running" /\ pc[t] = "return"
          /\ phase' = [phase EXCEPT ![t] = "fulfilled"]
          /\ UNCHANGED <<request, result>>
          /\ phase \in [Calls -> Phases]
      BY <1>2, <2>2 DEF Return, At, SettleFn, volatile, locals, ClientInv, TypeOK, QueueTypeOK
    <3>2. /\ TypeOK /\ CallInv(t) /\ Done(t)
          /\ KeyOf(t)' = KeyOf(t) /\ Kind(t)' = Kind(t)
      BY <1>2, <3>1 DEF ClientInv, Done, Running, KeyOf, Kind
    <3>3. \A u \in Calls \ {t} : /\ Encrypted(u)' <=> Encrypted(u)
                                 /\ Decrypted(u)' <=> Decrypted(u)
                                 /\ KeyOf(u)' = KeyOf(u)
      BY <3>1 DEF Encrypted, Decrypted, Fulfilled, KeyOf
    <3>4. ~Encrypted(t) /\ ~Decrypted(t)
      BY <3>1 DEF Encrypted, Decrypted, Fulfilled
    <3>5. Encrypted(t)' <=> Kind(t) = "encrypt"
      BY <3>1 DEF Encrypted, Fulfilled, Kind
    <3>6. Decrypted(t)' <=> Kind(t) \in Decrypts
      BY <3>1 DEF Decrypted, Fulfilled, Kind, Decrypts
    <3>7. NoMessageKeyReuse' /\ AtMostOnce'
      BY <1>2 DEF ClientInv, KeysOnce, NoMessageKeyReuse, AtMostOnce, Encrypted, Decrypted,
                  Fulfilled, Done, Kind, Decrypts
    <3>8. \A u \in Calls : SameKey(t, u)' <=> KeyOf(u)' = KeyOf(t)'
      BY DEF SameKey, KeyOf
    <3>9. CASE Kind(t) = "encrypt"
      <4>1. sent' = sent \cup {<<t, KeyOf(t)>>} /\ opened' = opened
        BY <3>2, <3>3, <3>4, <3>5, <3>6, <3>9 DEF Decrypts
      <4>2. \A u \in sent : u[1] # t /\ u[2] # KeyOf(t)
        BY <3>2, <3>3, <3>4, <3>5, <3>7, <3>8, <3>9 DEF NoMessageKeyReuse
      <4>3. KeyOf(t) \in Sids \X Nat
        BY <3>2, <3>9, KeyTypes
      <4>4. OneUse!Takes(t, sent, sent')
        BY <4>1, <4>2, <4>3 DEF OneUse!Takes
      <4>. QED
        BY <4>1, <4>4 DEF OneUse!Next, OneUse!Encrypt
    <3>10. CASE Kind(t) \in Decrypts
      <4>1. opened' = opened \cup {<<t, KeyOf(t)>>} /\ sent' = sent
        BY <3>2, <3>3, <3>4, <3>5, <3>6, <3>10 DEF Decrypts
      <4>2. \A u \in opened : u[1] # t /\ u[2] # KeyOf(t)
        BY <3>2, <3>3, <3>4, <3>6, <3>7, <3>8, <3>10 DEF AtMostOnce
      <4>3. KeyOf(t) \in Sids \X Nat
        BY <3>2, <3>10, KeyTypes
      <4>4. OneUse!Takes(t, opened, opened')
        BY <4>1, <4>2, <4>3 DEF OneUse!Takes
      <4>. QED
        BY <4>1, <4>4 DEF OneUse!Next, OneUse!Decrypt
    <3>11. CASE Kind(t) # "encrypt" /\ Kind(t) \notin Decrypts
      BY <3>3, <3>4, <3>5, <3>6, <3>11
    <3>. QED
      BY <3>9, <3>10, <3>11
  <2>3. TypeOK
    BY <1>2 DEF ClientInv
  <2>. QED
    BY <1>2, <2>1, <2>2, <2>3, OnlyReturnFulfils
<1>. QED
  BY <1>1, <1>2, ClientInvariant, PTL DEF Spec, ImplementsMessageKeys, OneUse!Spec
=============================================================================
