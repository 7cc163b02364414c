------------------------- MODULE SealedSenderProofs -------------------------
(***************************************************************************)
(* Proofs about a device that also sends and receives sealed messages.     *)
(* The sealed calls go through the same queue, so mutual exclusion holds   *)
(* of all calls; it keeps the prekeys that decryptMessage loaded those of  *)
(* the table until the one it used is removed.  The last part is about the *)
(* tables that sealed and plain calls share: a sealed decryption replaces  *)
(* the session record, and what this device started is not started again.  *)
(***************************************************************************)
EXTENDS SealedSender, PreKeyProofs, RecordListProofs

USE DEF Phases, Outcomes, Reads, Writes, Labels, Publishing, Cleanup

-----------------------------------------------------------------------------
(* The queue *)

\* A step of the device, sealed or not, is a step of its queue, or leaves the queue alone.
LEMMA SealedStepProjects == [SealedNext]_sealedVars => [QueueNext]_queueVars
<1>. SUFFICES ASSUME [SealedNext]_sealedVars PROVE [QueueNext]_queueVars
  OBVIOUS
<1>1. ASSUME NEW t \in Calls, NEW err, Throw(t, err) PROVE QueueNext
  BY <1>1 DEF Throw, QueueNext
<1>2. ASSUME NEW t \in Calls, SealedStep(t) PROVE [QueueNext]_queueVars
  <2>1. CASE BeginSealed(t)
    BY <2>1 DEF BeginSealed, QueueNext
  <2>2. CASE LoadSessionToSeal(t) \/ RunSealedOp(t) \/ SealedStoreFails(t)
    BY <1>1, <2>2 DEF LoadSessionToSeal, RunSealedOp, SealedStoreFails
  <2>3. CASE LoadPreKeys(t) \/ LoadSignedPreKeys(t) \/ GetIdentity(t) \/ LoadKyberPreKeys(t)
    BY <2>3 DEF LoadPreKeys, LoadSignedPreKeys, GetIdentity, LoadKyberPreKeys
  <2>4. CASE Write(t)
    BY <2>4 DEF Write, StoreSession, RemovePreKey, MarkKyberPreKeyUsed, SaveIdentity,
                StorePreKey, StoreSignedPreKey, StoreKyberPreKey
  <2>5. CASE Return(t)
    BY <2>5 DEF Return, QueueNext
  <2>. QED
    BY <1>2, <2>1, <2>2, <2>3, <2>4, <2>5 DEF SealedStep
<1>3. ASSUME NEW t \in Calls, InvokeSealed(t) PROVE QueueNext
  BY <1>3 DEF InvokeSealed, QueueNext
<1>4. ASSUME NEW t \in Calls, Invoke(t) \/ Step(t) \/ StoreFails(t) PROVE [QueueNext]_queueVars
  <2>1. Next
    BY <1>4 DEF Next
  <2>. QED
    BY <2>1, StepProjects
<1>5. ASSUME Kill PROVE [QueueNext]_queueVars
  BY <1>5, StepProjects DEF Next
<1>6. ASSUME UNCHANGED sealedVars PROVE UNCHANGED queueVars
  BY <1>6 DEF sealedVars, vars
<1>. QED
  BY <1>2, <1>3, <1>4, <1>5, <1>6 DEF SealedNext

\* Sealed operations, with the plain ones, implement the queue of runExclusive.
THEOREM SealedImplementsQueue == SealedSpec => QueueSpec
<1>1. SealedInit => QueueInit
  BY DEF SealedInit, Init
<1>. QED
  BY <1>1, SealedStepProjects, PTL DEF SealedSpec, QueueSpec

\* Two operations, sealed or plain, are never in progress at the same time.
THEOREM SealedExcludes == SealedSpec => []MutualExclusion
  BY SealedImplementsQueue, ChainMutualExclusion, PTL

-----------------------------------------------------------------------------
(***************************************************************************)
(* The inductive invariant of decryptMessage: what a call says of its      *)
(* envelope at each of its steps, and who has the one-time prekey.         *)
(***************************************************************************)
Unseals(t) == phase[t] # "idle" /\ Kind(t) = "sealedDecrypt"

\* The native operation of the call has succeeded; the session is to be stored, or was.
Opened(t) == phase[t] = "fulfilled" \/ (Running(t) /\ pc[t] \in {"storeSession", "return"} \cup Cleanup)

\* The call is past the removal of the prekey it used.
Removed(t) ==
  phase[t] = "fulfilled" \/ (Running(t) /\ pc[t] \in {"markKyberPreKeyUsed", "saveIdentity", "return"})

\* The one-time prekey that an unsealing call uses, where the native side reports it.
Claimed(t) == IF ReportsPreKey THEN Arg(t).msg.ids.preKey ELSE None

Unsealing == {"loadPreKeys", "loadSignedPreKeys", "loadKyberPreKeys", "runOp", "storeSession", "return"}
               \cup Cleanup

UnsealInv(t) ==
  /\ phase[t] = "idle" <=> request[t] = None
  /\ Running(t) /\ pc[t] \in Publishing => Kind(t) = "publishOneTimePreKey"
  /\ Publishes(t) => Arg(t) \in OwnIds \ Published
  /\ Unseals(t) =>
       /\ Arg(t).msg.type = "preKeySignal" => Named(Arg(t).msg.ids.preKey)
       /\ Running(t) => pc[t] \in Unsealing
       /\ Running(t) /\ pc[t] \in {"loadSignedPreKeys", "loadKyberPreKeys", "runOp"} =>
            preKeysBlob[t] = preKeys
       /\ Opened(t) => /\ Arg(t).certified /\ Arg(t).msg.type = "preKeySignal"
                       /\ result[t].msg = Arg(t).msg
                       /\ result[t].consumed = Claimed(t)
       /\ Removed(t) => Claimed(t) \notin preKeys

\* Two calls publish two bundles, and two that have opened a message used two prekeys.
ClaimsOnce ==
  \A t, u \in Calls : t # u =>
    /\ Publishes(t) /\ Publishes(u) => Arg(t) # Arg(u)
    /\ Unseals(t) /\ Unseals(u) /\ Opened(t) /\ Opened(u) /\ Claimed(t) # None =>
         Claimed(t) # Claimed(u)

UnsealedInv ==
  /\ request \in [Calls -> Requests \cup SealedRequests \cup {None}]
  /\ pc \in [Calls -> Labels \cup {"loadPreKeys", "loadSignedPreKeys"}]
  /\ DOMAIN result = Calls /\ DOMAIN preKeysBlob = Calls
  /\ preKeys \subseteq PreKeys
  /\ \A t \in Calls : UnsealInv(t)
  /\ ClaimsOnce

-----------------------------------------------------------------------------
(* What a step of one call leaves as it is *)

\* Only call t takes part in the step.
Alone(t) ==
  \A u \in Calls : u # t =>
    /\ phase'[u] = phase[u] /\ pc'[u] = pc[u] /\ request'[u] = request[u]
    /\ result'[u] = result[u] /\ preKeysBlob'[u] = preKeysBlob[u]

\* The prekeys change only while call t runs, and none comes back that was removed.
KeepsRemoved(t) ==
  \/ preKeys' = preKeys
  \/ Running(t) /\ \A u \in Calls : u # t /\ Unseals(u) /\ Removed(u) => Claimed(u) \notin preKeys'

\* What is said of the other calls stays true.
LEMMA OthersStayUnsealed ==
  ASSUME UnsealedInv, MutualExclusion, NEW t \in Calls, Alone(t), phase[t] # "fulfilled",
         KeepsRemoved(t)
  PROVE  /\ \A k : Named(k) => Named(k)'
         /\ \A u \in Calls : u # t => UnsealInv(u)'
<1>1. \A k : Named(k) => Named(k)'
  <2>1. \A u \in Calls : phase[u] = "fulfilled" =>
          phase'[u] = "fulfilled" /\ request'[u] = request[u]
    BY DEF Alone
  <2>. QED
    BY <2>1, OfferedStays
<1>2. ASSUME NEW u \in Calls, u # t PROVE UnsealInv(u)'
  <2>1. UnsealInv(u)
    BY DEF UnsealedInv
  <2>2. /\ phase'[u] = phase[u] /\ pc'[u] = pc[u] /\ request'[u] = request[u]
        /\ result'[u] = result[u] /\ preKeysBlob'[u] = preKeysBlob[u]
    BY <1>2 DEF Alone
  <2>3. /\ Running(u)' = Running(u) /\ Unseals(u)' = Unseals(u) /\ Opened(u)' = Opened(u)
        /\ Removed(u)' = Removed(u) /\ Publishes(u)' = Publishes(u)
        /\ Claimed(u)' = Claimed(u) /\ Kind(u)' = Kind(u) /\ Arg(u)' = Arg(u)
    BY <2>2 DEF Running, Unseals, Opened, Removed, Publishes, Claimed, Kind, Arg
  <2>4. Running(u) => preKeys' = preKeys
    BY <1>2 DEF KeepsRemoved, MutualExclusion, Running
  <2>5. Unseals(u) /\ Removed(u) => Claimed(u) \notin preKeys'
    BY <1>2, <2>1 DEF KeepsRemoved, UnsealInv
  <2>. QED
    BY <1>1, <2>1, <2>2, <2>3, <2>4, <2>5 DEF UnsealInv
<1>. QED
  BY <1>1, <1>2

\* A call that opens a message holds a prekey that no call before it has used.
LEMMA OneCallUnseals ==
  ASSUME UnsealedInv, MutualExclusion, NEW t \in Calls, Alone(t), UNCHANGED request,
         phase[t] # "fulfilled", phase[t] # "idle", KeepsRemoved(t), UnsealInv(t)',
         Unseals(t)' /\ Opened(t)' => Opened(t) \/ (Running(t) /\ Claimed(t) \in preKeys \cup {None}),
         pc' \in [Calls -> Labels \cup {"loadPreKeys", "loadSignedPreKeys"}],
         DOMAIN result' = Calls, DOMAIN preKeysBlob' = Calls, preKeys' \subseteq PreKeys
  PROVE  UnsealedInv'
<1>1. \A u \in Calls : UnsealInv(u)'
  BY OthersStayUnsealed
<1>2. \A u \in Calls : Claimed(u)' = Claimed(u) /\ Arg(u)' = Arg(u) /\ Kind(u)' = Kind(u)
  BY DEF Claimed, Arg, Kind
<1>3. \A u \in Calls : u # t => /\ Unseals(u)' = Unseals(u) /\ Opened(u)' = Opened(u)
                                /\ Publishes(u)' = Publishes(u)
  BY DEF Alone, Unseals, Opened, Publishes, Running, Kind
<1>4. (Unseals(t)' => Unseals(t)) /\ (Publishes(t)' => Publishes(t))
  BY <1>2 DEF Unseals, Publishes
<1>5. ASSUME NEW u \in Calls, u # t, Unseals(t)', Opened(t)', Unseals(u), Opened(u)
      PROVE  (Claimed(t) # None \/ Claimed(u) # None) => Claimed(t) # Claimed(u)
  <2>1. CASE Opened(t)
    BY <2>1, <1>4, <1>5 DEF UnsealedInv, ClaimsOnce
  <2>2. CASE Running(t) /\ Claimed(t) \in preKeys \cup {None}
    <3>1. phase[u] = "fulfilled"
      BY <1>5, <2>2 DEF Opened, Running, MutualExclusion
    <3>2. Claimed(u) \notin preKeys
      BY <1>5, <3>1 DEF UnsealedInv, UnsealInv, Removed
    <3>. QED
      BY <2>2, <3>2
  <2>. QED  BY <1>5, <2>1, <2>2
<1>6. ClaimsOnce'
  <2> SUFFICES ASSUME NEW v \in Calls, NEW u \in Calls, v # u
               PROVE  /\ Publishes(v)' /\ Publishes(u)' => Arg(v)' # Arg(u)'
                      /\ Unseals(v)' /\ Unseals(u)' /\ Opened(v)' /\ Opened(u)'
                         /\ Claimed(v)' # None => Claimed(v)' # Claimed(u)'
    BY DEF ClaimsOnce
  <2>1. Publishes(v)' /\ Publishes(u)' => Arg(v)' # Arg(u)'
    BY <1>2, <1>3, <1>4 DEF UnsealedInv, ClaimsOnce
  <2>2. CASE v = t
    BY <2>1, <2>2, <1>2, <1>3, <1>5
  <2>3. CASE u = t
    BY <2>1, <2>3, <1>2, <1>3, <1>5
  <2>4. CASE v # t /\ u # t
    BY <2>1, <2>4, <1>2, <1>3 DEF UnsealedInv, ClaimsOnce
  <2>. QED  BY <2>2, <2>3, <2>4
<1>. QED
  BY <1>1, <1>6 DEF UnsealedInv

\* A running call goes to its next await.
LEMMA AdvanceUnsealed ==
  ASSUME UnsealedInv, MutualExclusion, NEW t \in Calls, Running(t),
         NEW label \in Labels \cup {"loadPreKeys", "loadSignedPreKeys"},
         pc' = [pc EXCEPT ![t] = label], UNCHANGED <<phase, request>>,
         result' = result \/ \E answer : result' = [result EXCEPT ![t] = answer],
         preKeysBlob' = preKeysBlob \/ preKeysBlob' = [preKeysBlob EXCEPT ![t] = preKeys],
         preKeys' \subseteq PreKeys, KeepsRemoved(t),
         label \in Publishing => Kind(t) = "publishOneTimePreKey",
         Unseals(t) =>
           /\ label \in Unsealing
           /\ label \in {"loadSignedPreKeys", "loadKyberPreKeys", "runOp"} =>
                preKeysBlob'[t] = preKeys'
           /\ label \in {"storeSession", "return"} \cup Cleanup =>
                /\ Arg(t).certified /\ Arg(t).msg.type = "preKeySignal"
                /\ result'[t].msg = Arg(t).msg
                /\ result'[t].consumed = Claimed(t)
                /\ Opened(t) \/ Claimed(t) \in preKeys \cup {None}
           /\ label \in {"markKyberPreKeyUsed", "saveIdentity", "return"} =>
                Claimed(t) \notin preKeys'
  PROVE  UnsealedInv'
<1>1. Alone(t)
  BY DEF Alone, UnsealedInv
<1>2. /\ pc' \in [Calls -> Labels \cup {"loadPreKeys", "loadSignedPreKeys"}] /\ pc'[t] = label
      /\ DOMAIN result' = Calls /\ DOMAIN preKeysBlob' = Calls
  BY DEF UnsealedInv
<1>3. phase[t] = "running" /\ phase'[t] = "running" /\ UnsealInv(t)
  BY DEF Running, UnsealedInv
<1>4. /\ Running(t)' = Running(t) /\ Kind(t)' = Kind(t) /\ Arg(t)' = Arg(t)
      /\ Claimed(t)' = Claimed(t) /\ Unseals(t)' = Unseals(t) /\ Publishes(t)' = Publishes(t)
      /\ Opened(t)' = (label \in {"storeSession", "return"} \cup Cleanup)
      /\ Removed(t)' = (label \in {"markKyberPreKeyUsed", "saveIdentity", "return"})
  BY <1>2, <1>3 DEF Running, Kind, Arg, Claimed, Unseals, Publishes, Opened, Removed
<1>5. \A k : Named(k) => Named(k)'
  BY <1>1, <1>3, OthersStayUnsealed
<1>6. UnsealInv(t)'
  <2>1. /\ request' = request /\ (phase[t] = "idle" <=> request[t] = None)
        /\ Running(t)' /\ pc'[t] \in Publishing => Kind(t)' = "publishOneTimePreKey"
        /\ Publishes(t)' => Arg(t)' \in OwnIds \ Published
    BY <1>2, <1>3, <1>4 DEF UnsealInv
  <2>2. Unseals(t) /\ Arg(t).msg.type = "preKeySignal" => Named(Arg(t).msg.ids.preKey)'
    BY <1>3, <1>4, <1>5 DEF UnsealInv, Named
  <2>. QED
    BY <1>2, <1>3, <1>4, <2>1, <2>2 DEF UnsealInv
<1>7. Unseals(t)' /\ Opened(t)' => Opened(t) \/ (Running(t) /\ Claimed(t) \in preKeys \cup {None})
  BY <1>4
<1>8. UNCHANGED request /\ phase[t] # "fulfilled" /\ phase[t] # "idle"
  BY <1>3
<1>. QED
  BY <1>1, <1>2, <1>6, <1>7, <1>8, OneCallUnseals

-----------------------------------------------------------------------------
(* The steps of a call *)

\* A call that throws has opened nothing.
LEMMA ThrowUnsealed ==
  ASSUME UnsealedInv, QueueTypeOK, MutualExclusion, NEW t \in Calls, NEW err, Throw(t, err),
         UNCHANGED blobs
  PROVE  UnsealedInv'
<1>1. /\ phase[t] = "running" /\ phase' = [phase EXCEPT ![t] = "rejected"]
      /\ result' = [result EXCEPT ![t] = Failure(err)]
      /\ UNCHANGED <<preKeys, request, pc, preKeysBlob>>
  BY DEF Throw, SettleFn, tables, blobs
<1>2. Alone(t) /\ KeepsRemoved(t) /\ UnsealInv(t)
  BY <1>1 DEF Alone, UnsealedInv, KeepsRemoved
<1>3. phase'[t] = "rejected"
  BY <1>1 DEF QueueTypeOK
<1>4. /\ ~Running(t)' /\ ~Opened(t)' /\ ~Removed(t)'
      /\ Unseals(t)' = Unseals(t) /\ Publishes(t)' = Publishes(t)
      /\ Kind(t)' = Kind(t) /\ Arg(t)' = Arg(t) /\ phase'[t] # "idle" /\ phase[t] # "idle"
  BY <1>1, <1>3 DEF Running, Opened, Removed, Unseals, Publishes, Kind, Arg
<1>5. \A k : Named(k) => Named(k)'
  BY <1>1, <1>2, OthersStayUnsealed
<1>6. UnsealInv(t)'
  BY <1>1, <1>2, <1>4, <1>5 DEF UnsealInv
<1>7. DOMAIN result' = Calls
  BY <1>1 DEF UnsealedInv
<1>. QED
  BY <1>1, <1>2, <1>4, <1>6, <1>7, OneCallUnseals DEF UnsealedInv

\* A call of either kind begins with a read or with the first write of a publication.
LEMMA BeginUnsealed ==
  ASSUME UnsealedInv, QueueTypeOK, MutualExclusion, NEW t \in Calls,
         \/ ~IsSealed(t) /\ Begin(t) /\ UNCHANGED blobs
         \/ IsSealed(t) /\ BeginSealed(t)
  PROVE  UnsealedInv'
<1> DEFINE label == pc'[t]
<1>1. /\ phase[t] = "queued" /\ phase' = [phase EXCEPT ![t] = "running"]
      /\ UNCHANGED <<preKeys, request, result, preKeysBlob>>
      /\ pc' = [pc EXCEPT ![t] = label]
      /\ label \in {"loadSession", "loadPreKeys", "storePreKey"}
      /\ label = "storePreKey" => Kind(t) = "publishOneTimePreKey"
      /\ Kind(t) = "sealedDecrypt" => label = "loadPreKeys"
  <2>1. UnsealInv(t) /\ request[t] # None
    BY DEF UnsealedInv, UnsealInv, Begin, BeginSealed, StartFn
  <2>2. CASE ~IsSealed(t) /\ Begin(t) /\ UNCHANGED blobs
    BY <2>1, <2>2 DEF Begin, StartFn, Goto, tables, locals, blobs, IsSealed, SealedKinds, UnsealedInv
  <2>3. CASE BeginSealed(t) /\ IsSealed(t)
    BY <2>3 DEF BeginSealed, StartFn, Goto, tables, locals, blobs, IsSealed, SealedKinds, UnsealedInv
  <2>. QED  BY <2>2, <2>3
<1>. HIDE DEF label
<1>2. Alone(t) /\ KeepsRemoved(t) /\ UnsealInv(t) /\ pc'[t] = label
  BY <1>1 DEF Alone, UnsealedInv, KeepsRemoved, label
<1>3. phase'[t] = "running"
  BY <1>1 DEF QueueTypeOK
<1>4. /\ Running(t)' /\ ~Opened(t)' /\ ~Removed(t)'
      /\ Unseals(t)' = Unseals(t) /\ Publishes(t)' = Publishes(t)
      /\ Kind(t)' = Kind(t) /\ Arg(t)' = Arg(t) /\ phase'[t] # "idle" /\ phase[t] # "idle"
      /\ phase[t] # "fulfilled"
  BY <1>1, <1>2, <1>3 DEF Running, Opened, Removed, Unseals, Publishes, Kind, Arg
<1>5. \A k : Named(k) => Named(k)'
  BY <1>2, <1>4, OthersStayUnsealed
<1>6. UnsealInv(t)'
  BY <1>1, <1>2, <1>4, <1>5 DEF UnsealInv, Unseals, Unsealing
<1>7. /\ pc' \in [Calls -> Labels \cup {"loadPreKeys", "loadSignedPreKeys"}]
      /\ UNCHANGED request
  BY <1>1 DEF UnsealedInv
<1>. QED
  BY <1>1, <1>2, <1>4, <1>6, <1>7, OneCallUnseals DEF UnsealedInv

\* The reads take what the tables hold.
LEMMA ReadUnsealed ==
  ASSUME UnsealedInv, QueueTypeOK, MutualExclusion, NEW t \in Calls,
         \/ LoadPreKeys(t) \/ LoadSignedPreKeys(t)
         \/ (Read(t) \/ LoadSessionToSeal(t)) /\ UNCHANGED blobs
  PROVE  UnsealedInv'
<1>1. /\ UnsealInv(t) /\ preKeys \subseteq PreKeys
      /\ Unseals(t) <=> phase[t] # "idle" /\ Kind(t) = "sealedDecrypt"
  BY DEF UnsealedInv, Unseals
<1>2. CASE LoadPreKeys(t)
  <2>1. /\ Running(t) /\ pc' = [pc EXCEPT ![t] = "loadSignedPreKeys"] /\ UNCHANGED <<phase, request>>
        /\ result' = result /\ preKeysBlob' = [preKeysBlob EXCEPT ![t] = preKeys] /\ preKeys' = preKeys
    BY <1>2 DEF LoadPreKeys, At, Goto, Running, queueVars, tables, locals
  <2>2. preKeysBlob'[t] = preKeys' /\ KeepsRemoved(t)
    BY <2>1 DEF UnsealedInv, KeepsRemoved
  <2>. QED
    BY <1>1, <2>1, <2>2, AdvanceUnsealed DEF Unsealing
<1>3. CASE LoadSignedPreKeys(t)
  <2>1. /\ Running(t) /\ pc' = [pc EXCEPT ![t] = "loadKyberPreKeys"] /\ UNCHANGED <<phase, request>>
        /\ result' = result /\ preKeysBlob' = preKeysBlob /\ preKeys' = preKeys
        /\ pc[t] = "loadSignedPreKeys" /\ KeepsRemoved(t)
    BY <1>3 DEF LoadSignedPreKeys, At, Goto, Running, queueVars, tables, locals, KeepsRemoved
  <2>. QED
    BY <1>1, <2>1, AdvanceUnsealed DEF Unsealing, UnsealInv
<1>4. ASSUME UNCHANGED <<phase, request, result, preKeys, preKeysBlob>>, Running(t),
             NEW label \in {"getIdentity", "loadPreKey", "loadSignedPreKey", "loadKyberPreKeys", "runOp"},
             pc' = [pc EXCEPT ![t] = label],
             Kind(t) = "sealedDecrypt" => pc[t] = "loadKyberPreKeys" /\ label = "runOp"
      PROVE  UnsealedInv'
  BY <1>1, <1>4, AdvanceUnsealed DEF Unsealing, UnsealInv, KeepsRemoved, Running
<1>5. CASE (Read(t) \/ LoadSessionToSeal(t)) /\ UNCHANGED blobs
  <2>1. Running(t) => (Kind(t) = "sealedDecrypt" => pc[t] \in Unsealing)
    BY <1>1 DEF UnsealInv, Running
  <2>2. ASSUME NEW err, Throw(t, err) PROVE UnsealedInv'
    BY <1>5, <2>2, ThrowUnsealed
  <2>3. CASE LoadSession(t) \/ LoadSessionToSeal(t)
    BY <1>4, <1>5, <2>1, <2>2, <2>3 DEF LoadSession, LoadSessionToSeal, At, Goto, Running, queueVars, tables,
                                   blobs, Unsealing
  <2>4. CASE GetIdentity(t)
    BY <1>4, <1>5, <2>1, <2>4 DEF GetIdentity, At, Goto, Running, queueVars, tables, blobs, Unsealing
  <2>5. CASE LoadPreKey(t) \/ LoadSignedPreKey(t)
    BY <1>4, <1>5, <2>1, <2>2, <2>5 DEF LoadPreKey, LoadSignedPreKey, At, Goto, Running, queueVars, tables,
                                   locals, blobs, Unsealing
  <2>6. CASE LoadKyberPreKeys(t)
    BY <1>4, <1>5, <2>6 DEF LoadKyberPreKeys, At, Goto, Running, queueVars, tables, blobs
  <2>. QED
    BY <1>5, <2>3, <2>4, <2>5, <2>6 DEF Read
<1>. QED  BY <1>2, <1>3, <1>5

\* The native operation opens an envelope that is certified, with prekeys it was given.
LEMMA RunOpUnsealed ==
  ASSUME UnsealedInv, QueueTypeOK, MutualExclusion, NEW t \in Calls,
         \/ ~IsSealed(t) /\ RunOp(t) /\ UNCHANGED blobs
         \/ IsSealed(t) /\ RunSealedOp(t)
  PROVE  UnsealedInv'
<1>1. ASSUME NEW err, Throw(t, err), UNCHANGED blobs PROVE UnsealedInv'
  BY <1>1, ThrowUnsealed
<1>2. ASSUME NEW answer, UNCHANGED <<phase, request, preKeys, preKeysBlob>>, At(t, "runOp"),
             result' = [result EXCEPT ![t] = answer], Goto(t, "storeSession"),
             Unseals(t) => /\ Arg(t).certified /\ Arg(t).msg.type = "preKeySignal"
                           /\ answer.msg = Arg(t).msg /\ answer.consumed = Claimed(t)
                           /\ Claimed(t) \in preKeys \cup {None}
      PROVE  UnsealedInv'
  <2>1. /\ Running(t) /\ pc' = [pc EXCEPT ![t] = "storeSession"] /\ KeepsRemoved(t)
        /\ result'[t] = answer /\ preKeys' \subseteq PreKeys
    BY <1>2 DEF At, Goto, Running, KeepsRemoved, UnsealedInv
  <2>. QED
    BY <1>2, <2>1, AdvanceUnsealed DEF Unsealing
<1>3. request[t] # None
  <2>1. phase[t] = "running"
    BY DEF RunOp, RunSealedOp, At
  <2>. QED
    BY <2>1 DEF UnsealedInv, UnsealInv
<1>4. CASE ~IsSealed(t) /\ RunOp(t) /\ UNCHANGED blobs
  <2>1. ~Unseals(t)
    BY <1>3, <1>4 DEF IsSealed, SealedKinds, Unseals
  <2>2. \/ Throw(t, Op(t).err)
        \/ /\ UNCHANGED <<phase, request, preKeys, preKeysBlob>> /\ At(t, "runOp")
           /\ result' = [result EXCEPT ![t] = Op(t)] /\ Goto(t, "storeSession")
    BY <1>4 DEF RunOp, queueVars, tables, blobs
  <2>. QED
    BY <1>1, <1>2, <1>4, <2>1, <2>2
<1>5. CASE IsSealed(t) /\ RunSealedOp(t)
  <2>1. CASE SealedOp(t).err # None
    <3>1. Throw(t, SealedOp(t).err) /\ UNCHANGED blobs
      BY <1>5, <2>1 DEF RunSealedOp
    <3>. QED
      BY <3>1, <1>1
  <2>2. CASE SealedOp(t).err = None
    <3> DEFINE answer == SealedOp(t)
    <3>1. /\ UNCHANGED <<phase, request, preKeys, preKeysBlob>> /\ At(t, "runOp")
          /\ result' = [result EXCEPT ![t] = answer] /\ Goto(t, "storeSession")
      BY <1>5, <2>2 DEF RunSealedOp, queueVars, tables, blobs
    <3>2. ASSUME Unseals(t)
          PROVE  /\ Arg(t).certified /\ Arg(t).msg.type = "preKeySignal"
                 /\ answer.msg = Arg(t).msg /\ answer.consumed = Claimed(t)
                 /\ Claimed(t) \in preKeys \cup {None}
      <4>1. preKeysBlob[t] = preKeys
        BY <3>1, <3>2 DEF UnsealedInv, UnsealInv, At, Running
      <4>2. answer = SealedDecryptOp(Arg(t), preKeys, signedPreKeysBlob[t], kyberBlob[t])
        BY <3>2, <4>1 DEF SealedOp, Unseals
      <4> DEFINE m == Arg(t).msg
                 record == Install(None, m.sid, NewState(m.ident, FALSE, m.ids))
                 consumed == IF ReportsPreKey THEN m.ids.preKey ELSE None
      <4>3. Failure("rejected").err # None
        BY SealedAssumption DEF Failure
      <4>4. /\ Arg(t).certified /\ CanBuild(m, preKeys, signedPreKeysBlob[t], kyberBlob[t])
            /\ answer = DecryptWith(record, m, consumed, m.ids.kyber)
        BY <2>2, <4>2, <4>3 DEF SealedDecryptOp
      <4>5. Failure("DuplicateMessage").err # None
        BY ErrorAssumption DEF Failure, Errors
      <4>6. answer.msg = m /\ answer.consumed = consumed
        <5> HIDE DEF record, consumed
        <5>1. answer = Returned(AdvanceReceiving(record, m.sid, m.ctr), m, consumed, m.ids.kyber, None)
          BY <2>2, <4>4, <4>5 DEF DecryptWith
        <5> HIDE DEF answer
        <5>. QED
          BY <5>1 DEF Returned
      <4>7. consumed = Claimed(t)
        BY DEF Claimed
      <4>. QED
        BY <4>4, <4>6, <4>7 DEF CanBuild
    <3> HIDE DEF answer
    <3>. QED
      BY <1>2, <3>1, <3>2
  <2>. QED  BY <2>1, <2>2
<1>. QED  BY <1>4, <1>5

\* A prekey that is published has not been offered before, so no call has used it.
LEMMA PublishedIsNew ==
  ASSUME UnsealedInv, NEW t \in Calls, Running(t), Publishes(t),
         NEW u \in Calls, Unseals(u), Removed(u)
  PROVE  Claimed(u) # Arg(t).preKey /\ Arg(t).preKey \in PreKeys
<1>1. Arg(t) \in OwnIds \ Published /\ UnsealInv(u)
  BY DEF UnsealedInv, UnsealInv
<1>2. Arg(t).preKey \in PreKeys
  BY <1>1, ClientAssumption DEF BundleIds
<1>3. ASSUME Claimed(u) = Arg(t).preKey PROVE FALSE
  <2>1. Opened(u)
    BY DEF Opened, Removed
  <2>2. Claimed(u) # None /\ Claimed(u) = Arg(u).msg.ids.preKey
    BY <1>2, <1>3, NoneAssumption DEF Claimed
  <2>3. Named(Claimed(u))
    BY <1>1, <2>1, <2>2 DEF UnsealInv
  <2>4. PICK b \in Offered : b.preKey = Claimed(u)
    BY <2>2, <2>3 DEF Named
  <2>5. b \in Published \/ \E v \in Calls : Publishes(v) /\ phase[v] = "fulfilled" /\ b = Arg(v)
    BY <2>4 DEF Offered, Fulfilled, Publishes, Kind, Arg
  <2>6. b \in OwnIds
    BY <2>5, ClientAssumption DEF UnsealedInv, UnsealInv
  <2>7. b = Arg(t)
    BY <1>1, <1>3, <2>4, <2>6, ClientAssumption
  <2>8. PICK v \in Calls : Publishes(v) /\ phase[v] = "fulfilled" /\ Arg(v) = Arg(t)
    BY <1>1, <2>5, <2>7
  <2>9. v # t
    BY <2>8 DEF Running
  <2>. QED
    BY <2>8, <2>9 DEF UnsealedInv, ClaimsOnce
<1>. QED  BY <1>2, <1>3

\* The writes: what a call has used is removed, and nothing that was used is published.
LEMMA WriteUnsealed ==
  ASSUME UnsealedInv, QueueTypeOK, MutualExclusion, NEW t \in Calls, Write(t), UNCHANGED blobs
  PROVE  UnsealedInv'
<1>1. /\ Running(t) /\ UNCHANGED <<phase, request, result, preKeysBlob>> /\ UnsealInv(t)
      /\ preKeys \subseteq PreKeys
  BY DEF Write, StoreSession, RemovePreKey, MarkKyberPreKeyUsed, SaveIdentity, StorePreKey,
         StoreSignedPreKey, StoreKyberPreKey, At, Running, queueVars, locals, blobs, UnsealedInv
<1>2. /\ AfterKyber(t) \in {"saveIdentity", "return"}
      /\ AfterPreKey(t) \in {"markKyberPreKeyUsed", "saveIdentity", "return"}
  BY DEF AfterKyber, AfterPreKey
<1>3. ASSUME NEW label \in {"return"} \cup Cleanup, pc' = [pc EXCEPT ![t] = label],
             pc[t] \in {"storeSession"} \cup Cleanup, preKeys' \subseteq preKeys,
             Unseals(t) /\ label # "removePreKey" => Claimed(t) \notin preKeys'
      PROVE  UnsealedInv'
  <2>1. KeepsRemoved(t)
    BY <1>1, <1>3 DEF KeepsRemoved, UnsealedInv, UnsealInv
  <2>2. Opened(t)
    BY <1>1, <1>3 DEF Opened
  <2>3. Unseals(t) => /\ Arg(t).certified /\ Arg(t).msg.type = "preKeySignal"
                      /\ result'[t].msg = Arg(t).msg /\ result'[t].consumed = Claimed(t)
    BY <1>1, <2>2 DEF UnsealInv
  <2>. QED
    BY <1>1, <1>3, <2>1, <2>2, <2>3, AdvanceUnsealed DEF Unsealing
<1>4. CASE StoreSession(t)
  <2>1. /\ pc[t] = "storeSession" /\ pc' = [pc EXCEPT ![t] = AfterSession(t)] /\ preKeys' = preKeys
    BY <1>4 DEF StoreSession, At, Goto
  <2>2. AfterSession(t) # "removePreKey" => result[t].consumed = None
    BY DEF AfterSession
  <2>3. Unseals(t) => result[t].consumed = Claimed(t)
    BY <1>1, <2>1 DEF UnsealInv, Opened
  <2>4. AfterSession(t) \in {"return"} \cup Cleanup
    BY <1>2 DEF AfterSession
  <2>. QED
    BY <1>1, <1>3, <2>1, <2>2, <2>3, <2>4, NoneAssumption
<1>5. CASE RemovePreKey(t)
  <2>1. /\ pc[t] = "removePreKey" /\ pc' = [pc EXCEPT ![t] = AfterPreKey(t)]
        /\ preKeys' = {k \in preKeys : Id[k] # Id[result[t].consumed]}
    BY <1>5 DEF RemovePreKey, DeleteRow, At, Goto
  <2>2. Unseals(t) => result[t].consumed = Claimed(t)
    BY <1>1, <2>1 DEF UnsealInv, Opened
  <2>. QED
    BY <1>2, <1>3, <2>1, <2>2
<1>6. CASE MarkKyberPreKeyUsed(t) \/ SaveIdentity(t)
  <2>1. /\ pc[t] \in {"markKyberPreKeyUsed", "saveIdentity"} /\ preKeys' = preKeys
        /\ pc' = [pc EXCEPT ![t] = AfterKyber(t)] \/ pc' = [pc EXCEPT ![t] = "return"]
    BY <1>6 DEF MarkKyberPreKeyUsed, SaveIdentity, At, Goto
  <2>2. Unseals(t) => Claimed(t) \notin preKeys
    BY <1>1, <2>1 DEF UnsealInv, Removed
  <2>. QED
    BY <1>2, <1>3, <2>1, <2>2
<1>7. CASE StorePreKey(t) \/ StoreSignedPreKey(t) \/ StoreKyberPreKey(t)
  <2>1. /\ pc[t] \in Publishing
        /\ \E label \in Publishing \cup {"return"} : pc' = [pc EXCEPT ![t] = label]
        /\ preKeys' \subseteq preKeys \cup {Arg(t).preKey}
    BY <1>7 DEF StorePreKey, Upsert, DeleteRow, StoreSignedPreKey, StoreKyberPreKey, At, Goto
  <2>2. Kind(t) = "publishOneTimePreKey" /\ Publishes(t) /\ ~Unseals(t)
    BY <1>1, <2>1 DEF UnsealInv, Publishes, Unseals, Running
  <2>3. Arg(t).preKey \in PreKeys
    BY <1>1, <2>2, ClientAssumption, NoneAssumption DEF UnsealInv, BundleIds
  <2>4. KeepsRemoved(t) /\ preKeys' \subseteq PreKeys
    BY <1>1, <2>1, <2>2, <2>3, PublishedIsNew DEF KeepsRemoved, UnsealedInv, UnsealInv
  <2>. QED
    BY <1>1, <2>1, <2>2, <2>4, AdvanceUnsealed
<1>. QED
  BY <1>4, <1>5, <1>6, <1>7 DEF Write

\* A call that returns has stored and removed what it had to.
LEMMA ReturnUnsealed ==
  ASSUME UnsealedInv, QueueTypeOK, MutualExclusion, NEW t \in Calls, Return(t), UNCHANGED blobs
  PROVE  UnsealedInv'
<1>1. /\ Running(t) /\ pc[t] = "return" /\ phase[t] = "running"
      /\ phase' = [phase EXCEPT ![t] = "fulfilled"]
      /\ UNCHANGED <<request, pc, result, preKeys, preKeysBlob>>
  BY DEF Return, At, SettleFn, Running, tables, volatile, locals, blobs
<1>2. Alone(t) /\ KeepsRemoved(t) /\ UnsealInv(t)
  BY <1>1 DEF Alone, UnsealedInv, KeepsRemoved
<1>3. phase'[t] = "fulfilled"
  BY <1>1 DEF QueueTypeOK
<1>4. /\ ~Running(t)' /\ Opened(t) /\ Removed(t) /\ Claimed(t)' = Claimed(t)
      /\ Unseals(t)' = Unseals(t) /\ Publishes(t)' = Publishes(t)
      /\ Kind(t)' = Kind(t) /\ Arg(t)' = Arg(t) /\ phase'[t] # "idle" /\ phase[t] # "idle"
  BY <1>1, <1>3 DEF Running, Opened, Removed, Unseals, Publishes, Kind, Arg, Claimed
<1>5. \A k : Named(k) => Named(k)'
  BY <1>1, <1>2, OthersStayUnsealed
<1>6. UnsealInv(t)'
  BY <1>1, <1>2, <1>4, <1>5 DEF UnsealInv
<1>. QED
  BY <1>1, <1>2, <1>4, <1>6, OneCallUnseals DEF UnsealedInv

\* What arrives names prekeys that were offered, and a bundle is published by one call.
LEMMA InvokeUnsealed ==
  ASSUME UnsealedInv, QueueTypeOK, MutualExclusion, NEW t \in Calls,
         InvokeSealed(t) \/ (Invoke(t) /\ UNCHANGED blobs)
  PROVE  UnsealedInv'
<1>1. PICK r \in Requests \cup SealedRequests :
        /\ request' = [request EXCEPT ![t] = r]
        /\ r.kind = "publishOneTimePreKey" =>
             /\ r.arg \in OwnIds \ Published
             /\ \A u \in Calls : request[u] # None => request[u].arg # r.arg
        /\ r.kind = "sealedDecrypt" /\ r.arg.msg.type = "preKeySignal" =>
             Named(r.arg.msg.ids.preKey)
  <2>1. CASE Invoke(t)
    <3>1. PICK r \in Requests : Arrives(r) /\ request' = [request EXCEPT ![t] = r]
      BY <2>1 DEF Invoke
    <3>2. r.kind = "publishOneTimePreKey" => r.arg \in OwnIds
      BY DEF Requests
    <3>3. r.kind # "sealedDecrypt"
      BY DEF Requests
    <3>. QED
      BY <3>1, <3>2, <3>3 DEF Arrives
  <2>2. CASE InvokeSealed(t)
    <3>1. PICK r \in SealedRequests :
            /\ r.kind = "sealedDecrypt" => SealedMayArrive(r.arg.msg)
            /\ request' = [request EXCEPT ![t] = r]
      BY <2>2 DEF InvokeSealed
    <3>2. r.kind # "publishOneTimePreKey"
      BY DEF SealedRequests
    <3>3. ASSUME r.kind = "sealedDecrypt", r.arg.msg.type = "preKeySignal"
          PROVE  Named(r.arg.msg.ids.preKey)
      <4>1. MayArrive(r.arg.msg)
        BY <3>1, <3>3 DEF SealedMayArrive
      <4>. QED
        BY <3>3, <4>1 DEF MayArrive, Named
    <3>. QED
      BY <3>1, <3>2, <3>3
  <2>. QED  BY <2>1, <2>2
<1>2. /\ phase[t] = "idle" /\ phase' = [phase EXCEPT ![t] = "queued"]
      /\ UNCHANGED <<pc, result, preKeys, preKeysBlob>>
  BY DEF Invoke, InvokeSealed, RunExclusive, tables, locals, blobs
<1>3. phase'[t] = "queued" /\ request'[t] = r /\ r # None
  BY <1>1, <1>2, RequestAssumption, SealedRequestAssumption DEF QueueTypeOK, UnsealedInv
<1>4. Alone(t) /\ KeepsRemoved(t)
  BY <1>1, <1>2 DEF Alone, UnsealedInv, KeepsRemoved
<1>5. /\ \A k : Named(k) => Named(k)'
      /\ \A u \in Calls : u # t => UnsealInv(u)'
  BY <1>2, <1>4, OthersStayUnsealed
<1>6. /\ ~Running(t)' /\ ~Opened(t)' /\ ~Removed(t)' /\ ~Publishes(t)
      /\ Kind(t)' = r.kind /\ Arg(t)' = r.arg /\ phase'[t] # "idle" /\ request'[t] # None
  BY <1>2, <1>3 DEF Running, Opened, Removed, Publishes, Kind, Arg
<1>7. UnsealInv(t)'
  BY <1>1, <1>5, <1>6 DEF UnsealInv, Publishes, Unseals
<1>8. \A u \in Calls : u # t =>
        /\ Unseals(u)' = Unseals(u) /\ Opened(u)' = Opened(u) /\ Publishes(u)' = Publishes(u)
        /\ Claimed(u)' = Claimed(u) /\ Arg(u)' = Arg(u)
  BY <1>4 DEF Alone, Unseals, Opened, Publishes, Running, Kind, Arg, Claimed
<1>9. \A u \in Calls : Publishes(u) /\ Publishes(t)' => Arg(u) # Arg(t)'
  <2>1. \A u \in Calls : Publishes(u) => request[u] # None
    BY DEF Publishes, UnsealedInv, UnsealInv
  <2>2. Publishes(t)' => r.kind = "publishOneTimePreKey"
    BY <1>6 DEF Publishes
  <2>. QED
    BY <1>1, <1>6, <2>1, <2>2 DEF Arg
<1>10. ClaimsOnce'
  <2> SUFFICES ASSUME NEW v \in Calls, NEW u \in Calls, v # u
               PROVE  /\ Publishes(v)' /\ Publishes(u)' => Arg(v)' # Arg(u)'
                      /\ Unseals(v)' /\ Unseals(u)' /\ Opened(v)' /\ Opened(u)'
                         /\ Claimed(v)' # None => Claimed(v)' # Claimed(u)'
    BY DEF ClaimsOnce
  <2>1. CASE v = t
    BY <2>1, <1>6, <1>8, <1>9
  <2>2. CASE u = t
    BY <2>2, <1>6, <1>8, <1>9
  <2>3. CASE v # t /\ u # t
    BY <2>3, <1>8 DEF UnsealedInv, ClaimsOnce
  <2>. QED  BY <2>1, <2>2, <2>3
<1>11. request' \in [Calls -> Requests \cup SealedRequests \cup {None}]
  BY <1>1 DEF UnsealedInv
<1>. QED
  BY <1>2, <1>5, <1>7, <1>10, <1>11 DEF UnsealedInv

\* A kill leaves the calls that have returned as they are, and nothing of the others.
LEMMA KillUnsealed ==
  ASSUME UnsealedInv, QueueTypeOK, Kill, UNCHANGED blobs
  PROVE  UnsealedInv'
<1>1. /\ phase' = [u \in Calls |-> IF phase[u] \in {"queued", "running"} THEN "lost" ELSE phase[u]]
      /\ UNCHANGED <<request, pc, result, preKeys, preKeysBlob>>
  BY DEF Kill, Restart, tables, volatile, locals, blobs
<1>2. \A u \in Calls : /\ ~Running(u)' /\ (phase'[u] = "idle" <=> phase[u] = "idle")
                       /\ (phase'[u] = "fulfilled" <=> phase[u] = "fulfilled")
  BY <1>1 DEF Running
<1>3. \A k : Named(k) => Named(k)'
  <2>1. \A u \in Calls : phase[u] = "fulfilled" =>
          phase'[u] = "fulfilled" /\ request'[u] = request[u]
    BY <1>1, <1>2
  <2>. QED
    BY <2>1, OfferedStays
<1>4. \A u \in Calls :
        /\ Unseals(u)' = Unseals(u) /\ Publishes(u)' = Publishes(u)
        /\ (Opened(u)' => Opened(u)) /\ (Removed(u)' => Removed(u))
        /\ Claimed(u)' = Claimed(u) /\ Arg(u)' = Arg(u)
  BY <1>1, <1>2 DEF Unseals, Opened, Removed, Publishes, Kind, Arg, Claimed
<1>5. ASSUME NEW u \in Calls PROVE UnsealInv(u)'
  <2>1. UnsealInv(u)
    BY DEF UnsealedInv
  <2>. QED
    BY <2>1, <1>1, <1>2, <1>3, <1>4 DEF UnsealInv
<1>6. ClaimsOnce'
  BY <1>4 DEF UnsealedInv, ClaimsOnce
<1>. QED
  BY <1>1, <1>5, <1>6 DEF UnsealedInv

\* A step that changes nothing keeps the invariant.
LEMMA StutterUnsealed ==
  ASSUME UnsealedInv, UNCHANGED sealedVars
  PROVE  UnsealedInv'
<1>1. UNCHANGED <<phase, request, pc, result, preKeys, preKeysBlob>>
  BY DEF sealedVars, vars, queueVars, tables, volatile, locals, blobs
<1>2. \A u \in Calls :
        /\ Running(u)' = Running(u) /\ Unseals(u)' = Unseals(u) /\ Publishes(u)' = Publishes(u)
        /\ Opened(u)' = Opened(u) /\ Removed(u)' = Removed(u)
        /\ Claimed(u)' = Claimed(u) /\ Arg(u)' = Arg(u) /\ Kind(u)' = Kind(u)
  BY <1>1 DEF Running, Unseals, Opened, Removed, Publishes, Kind, Arg, Claimed
<1>3. \A k : Named(k) => Named(k)'
  BY <1>1, OfferedStays
<1>4. ASSUME NEW u \in Calls PROVE UnsealInv(u)'
  <2>1. UnsealInv(u)
    BY DEF UnsealedInv
  <2>. QED
    BY <2>1, <1>1, <1>2, <1>3 DEF UnsealInv
<1>5. ClaimsOnce'
  BY <1>2 DEF UnsealedInv, ClaimsOnce
<1>. QED
  BY <1>1, <1>4, <1>5 DEF UnsealedInv

\* Every step of the device keeps the invariant.
LEMMA UnsealedNext ==
  ASSUME UnsealedInv, QueueTypeOK, MutualExclusion, [SealedNext]_sealedVars
  PROVE  UnsealedInv'
<1>1. ASSUME NEW t \in Calls, IsSealed(t), SealedStep(t) PROVE UnsealedInv'
  <2>1. CASE SealedStoreFails(t)
    BY <2>1, ThrowUnsealed DEF SealedStoreFails
  <2>2. CASE (GetIdentity(t) \/ LoadKyberPreKeys(t)) /\ UNCHANGED blobs
    BY <2>2, ReadUnsealed DEF Read
  <2>3. CASE LoadSessionToSeal(t)
    BY <2>3, ReadUnsealed DEF LoadSessionToSeal
  <2>. QED
    BY <1>1, <2>1, <2>2, <2>3, BeginUnsealed, ReadUnsealed, RunOpUnsealed, WriteUnsealed, ReturnUnsealed
       DEF SealedStep
<1>2. ASSUME NEW t \in Calls, ~IsSealed(t), Invoke(t) \/ Step(t) \/ StoreFails(t), UNCHANGED blobs
      PROVE  UnsealedInv'
  BY <1>2, InvokeUnsealed, BeginUnsealed, ReadUnsealed, RunOpUnsealed, WriteUnsealed,
     ReturnUnsealed, ThrowUnsealed DEF Step, StoreFails
<1>3. ASSUME NEW t \in Calls, InvokeSealed(t) PROVE UnsealedInv'
  BY <1>3, InvokeUnsealed
<1>4. CASE Kill /\ UNCHANGED blobs
  BY <1>4, KillUnsealed
<1>5. CASE UNCHANGED sealedVars
  BY <1>5, StutterUnsealed
<1>. QED
  BY <1>1, <1>2, <1>3, <1>4, <1>5 DEF SealedNext

\* A device that has done nothing has unsealed nothing.
LEMMA UnsealedInit == SealedInit => UnsealedInv
<1>. SUFFICES ASSUME SealedInit PROVE UnsealedInv
  OBVIOUS
<1>1. /\ request = [t \in Calls |-> None] /\ pc = [t \in Calls |-> "start"]
      /\ phase = [t \in Calls |-> "idle"]
      /\ DOMAIN result = Calls /\ DOMAIN preKeysBlob = Calls
  BY DEF SealedInit, Init, QueueInit
<1>2. ASSUME NEW t \in Calls PROVE phase[t] = "idle" /\ request[t] = None
  BY <1>1
<1>3. preKeys \subseteq PreKeys
  BY ClientAssumption DEF SealedInit, Init, BundleIds
<1>4. ASSUME NEW t \in Calls PROVE UnsealInv(t)
  BY <1>2 DEF UnsealInv, Running, Unseals, Publishes
<1>5. ClaimsOnce
  BY <1>2 DEF ClaimsOnce, Unseals, Publishes
<1>. QED
  BY <1>1, <1>3, <1>4, <1>5 DEF UnsealedInv

-----------------------------------------------------------------------------
(* The theorems *)

\* The inductive invariant of decryptMessage holds in every reachable state.
THEOREM SealedInvariant == SealedSpec => []UnsealedInv
<1>1. SealedSpec => []ChainInv
  BY SealedImplementsQueue, ChainInvariant, PTL
<1>2. ChainInv => QueueTypeOK
  BY DEF ChainInv
<1>3. UnsealedInv /\ QueueTypeOK /\ MutualExclusion /\ [SealedNext]_sealedVars => UnsealedInv'
  BY UnsealedNext
<1>. QED
  BY <1>1, <1>2, <1>3, SealedExcludes, UnsealedInit, PTL DEF SealedSpec

\* A sealed handshake on a one-time prekey is decrypted at most once where the native
\* side reports the prekey (decryptMessage removes it before it returns).
THEOREM SealedUnsealedOnce == SealedSpec => []UnsealedOnce
<1>1. ASSUME UnsealedInv PROVE UnsealedOnce
  <2>. SUFFICES ASSUME NEW t \in Calls, NEW u \in Calls, t # u, Unsealed(t), Unsealed(u),
                       ReportsPreKey, Arg(t).msg.ids.preKey # None, SameKey(t, u)
                PROVE  FALSE
    BY DEF UnsealedOnce
  <2>1. \A v \in {t, u} : Unseals(v) /\ Opened(v) /\ request[v] # None
    BY <1>1 DEF Unsealed, Fulfilled, Unseals, Opened, Kind, UnsealedInv, UnsealInv
  <2>2. \A v \in {t, u} : Arg(v).msg.type = "preKeySignal" /\ result[v].msg = Arg(v).msg
    BY <1>1, <2>1 DEF UnsealedInv, UnsealInv
  <2>3. \A v \in {t, u} : Arg(v) \in SealedIncoming
    <3>1. \A v \in {t, u} : request[v] \in Requests \cup SealedRequests /\ request[v].kind = "sealedDecrypt"
      BY <1>1, <2>1 DEF UnsealedInv, Unseals, Kind
    <3>. QED
      BY <3>1 DEF Requests, SealedRequests, Arg
  <2>4. Arg(t).msg.ids = Arg(u).msg.ids
    BY <2>2, <2>3, SealedAssumption DEF SameKey
  <2>5. Claimed(t) # None /\ Claimed(t) = Claimed(u)
    BY <2>4 DEF Claimed
  <2>. QED
    BY <1>1, <2>1, <2>5 DEF UnsealedInv, ClaimsOnce
<1>. QED
  BY <1>1, SealedInvariant, PTL

\* An envelope whose certificate does not validate changes nothing that is stored (the
\* native operation of decryptMessage validates before it answers).
THEOREM SealedUncertifiedIsHarmless == SealedSpec => UncertifiedIsHarmless
<1> DEFINE A == tables' # tables =>
                  \A t \in Calls : phase[t] = "running" /\ Kind(t) = "sealedDecrypt" =>
                    Arg(t).certified
<1>1. ASSUME UnsealedInv, MutualExclusion, [SealedNext]_sealedVars PROVE A
  <2>1. ASSUME NEW t \in Calls, Write(t) PROVE A
    <3>1. phase[t] = "running" /\ pc[t] \in Writes
      BY <2>1 DEF Write, StoreSession, RemovePreKey, MarkKyberPreKeyUsed, SaveIdentity, StorePreKey,
                  StoreSignedPreKey, StoreKyberPreKey, At
    <3>2. ASSUME Kind(t) = "sealedDecrypt" PROVE Arg(t).certified
      <4>1. Unseals(t) /\ Running(t)
        BY <3>1, <3>2 DEF Unseals, Running
      <4>2. pc[t] \in Unsealing
        BY <1>1, <4>1 DEF UnsealedInv, UnsealInv
      <4>3. Opened(t)
        BY <3>1, <4>1, <4>2 DEF Opened, Unsealing
      <4>. QED
        BY <1>1, <4>1, <4>3 DEF UnsealedInv, UnsealInv
    <3>3. \A u \in Calls : phase[u] = "running" => u = t
      BY <1>1, <3>1 DEF MutualExclusion
    <3>. QED
      BY <3>2, <3>3
  <2>2. ASSUME NEW t \in Calls, NEW err, Throw(t, err) PROVE UNCHANGED tables
    BY <2>2 DEF Throw
  <2>3. ASSUME NEW t \in Calls, SealedStep(t), ~Write(t) PROVE UNCHANGED tables
    BY <2>2, <2>3 DEF SealedStep, BeginSealed, LoadSessionToSeal, LoadPreKeys, LoadSignedPreKeys, RunSealedOp,
                      SealedStoreFails, GetIdentity, LoadKyberPreKeys, Return
  <2>4. ASSUME NEW t \in Calls, Invoke(t) \/ Step(t) \/ StoreFails(t), ~Write(t) PROVE UNCHANGED tables
    BY <2>2, <2>4 DEF Step, Invoke, Begin, Read, LoadSession, GetIdentity, LoadPreKey, LoadSignedPreKey,
                      LoadKyberPreKeys, RunOp, Return, StoreFails
  <2>5. ASSUME NEW t \in Calls, InvokeSealed(t) PROVE UNCHANGED tables
    BY <2>5 DEF InvokeSealed
  <2>6. CASE Kill
    BY <2>6 DEF Kill
  <2>7. CASE UNCHANGED sealedVars
    BY <2>7 DEF sealedVars, vars
  <2>. QED
    BY <1>1, <2>1, <2>3, <2>4, <2>5, <2>6, <2>7 DEF SealedNext
<1>. QED
  BY <1>1, SealedInvariant, SealedExcludes, PTL DEF SealedSpec, UncertifiedIsHarmless

-----------------------------------------------------------------------------
(***************************************************************************)
(* The inductive invariant of the tables.  A plain operation extends the   *)
(* record it has read, a sealed decryption replaces it by one with a       *)
(* single session; so a session this device started may go, but then no    *)
(* message is encrypted in it again.                                       *)
(***************************************************************************)
Sender(t) == phase[t] # "idle" /\ Kind(t) \in {"encrypt", "sealedEncrypt"}

Own(p, s) == \E b \in Bundles : b.peer = p /\ b.sid = s

\* The sessions of the handshakes name the prekeys that the handshakes do.
SealedFits(record) ==
  \A i \in Incoming \cup SealedIncoming : i.msg.type = "preKeySignal" /\ Has(record, i.msg.sid) =>
    record.states[i.msg.sid].ids = i.msg.ids

RecordInv ==
  /\ session \in [Peers -> SessionRecord \cup {None}]
  /\ \A p \in Peers :
       /\ SealedFits(session[p])
       /\ \A s \in Sids : Has(session[p], s) => s \in Started \/ Own(p, s)

\* A plain call is as in ProtocolClient.
KindInv(t) ==
  IF phase[t] # "idle" /\ Kind(t) \in SealedKinds
  THEN /\ request[t] \in SealedRequests
       /\ Running(t) /\ Kind(t) = "sealedEncrypt" =>
            pc[t] \in {"loadSession", "getIdentity", "runOp", "storeSession", "return"} \cup Cleanup
  ELSE RequestInv(t) /\ LabelInv(t)

\* Encrypting is the same native operation in both.
AsPlain(t) ==
  IF Kind(t) = "sealedEncrypt" THEN [request[t] EXCEPT !.kind = "encrypt"] ELSE request[t]

ReadInv(t) ==
  /\ phase[t] \in {"idle", "queued"} => pc[t] = "start"
  /\ Running(t) /\ Kind(t) # "sealedDecrypt"
     /\ pc[t] \in {"getIdentity", "runOp", "storeSession"} \cup Resolving =>
       existingSession[t] = session[Peer(t)] /\ (Sender(t) => existingSession[t] # None)
  /\ Running(t) /\ Kind(t) = "publishOneTimePreKey"
     /\ pc[t] \in {"storeSignedPreKey", "storeKyberPreKey", "return"} => Arg(t).preKey \in preKeys

AnswerInv(t) ==
  /\ Running(t) /\ pc[t] = "storeSession" =>
       /\ result[t].session \in SessionRecord /\ SealedFits(result[t].session)
       /\ result[t].consumed # None => BuiltIn(result[t].session, result[t].consumed)
       /\ Kind(t) # "sealedDecrypt" => Computed(result[t], AsPlain(t), existingSession[t])
       /\ Kind(t) = "sealedDecrypt" =>
            /\ Arg(t).msg.ids.preKey \in preKeys \cup {None}
            /\ \A s \in Sids : Has(result[t].session, s) => s = Arg(t).msg.sid
  /\ Running(t) /\ pc[t] = "removePreKey" =>
       result[t].consumed \in PreKeys /\ Built(result[t].consumed)

\* What was encrypted in a session this device started is behind its counter, or the
\* session is gone.
SentInv(t) == Done(t) /\ Sender(t) /\ result[t].msg.sid \notin Started =>
  /\ result[t].msg \in CiphertextMessage
  /\ Own(Peer(t), result[t].msg.sid)
  /\ Has(session[Peer(t)], result[t].msg.sid) =>
       result[t].msg.ctr < session[Peer(t)].states[result[t].msg.sid].sent

\* The session of the bundle is still to be started.
ToStart(b) ==
  \/ FreshBundle(b)
  \/ \E t \in Calls : Unstored(t) /\ Kind(t) = "processPreKeyBundle" /\ Arg(t) = b

\* It has not been there before, and there is one call to start it.
StartInv ==
  /\ \A b \in Bundles : ToStart(b) =>
       /\ \A p \in Peers : ~Has(session[p], b.sid)
       /\ \A t \in Calls : Done(t) /\ Sender(t) => result[t].msg.sid # b.sid
  /\ \A t, u \in Calls :
       (/\ phase[t] # "idle" /\ Kind(t) = "processPreKeyBundle"
        /\ phase[u] # "idle" /\ Kind(u) = "processPreKeyBundle"
        /\ Arg(t) = Arg(u)) => t = u

SentOnce ==
  \A t, u \in Calls :
    t # u /\ Done(t) /\ Sender(t) /\ Done(u) /\ Sender(u) /\ SameKey(t, u) =>
      result[t].msg.sid \in Started

SealedTableInv ==
  /\ DOMAIN existingSession = Calls
  /\ RecordInv
  /\ \A t \in Calls : KindInv(t) /\ ReadInv(t) /\ AnswerInv(t) /\ SentInv(t)
  /\ StartInv
  /\ SentOnce
  /\ PreKeyOutlivesSealed

-----------------------------------------------------------------------------
(* The tables: what a step of one call leaves as it is *)

\* Only call t takes part in the step.
Apart(t) ==
  \A u \in Calls : u # t =>
    /\ phase'[u] = phase[u] /\ pc'[u] = pc[u] /\ request'[u] = request[u]
    /\ result'[u] = result[u] /\ existingSession'[u] = existingSession[u]

\* A sealed decryption has been stored over what was there before.
Overwritten(k) ==
  \E t \in Calls : /\ IsSealed(t) /\ Kind(t) = "sealedDecrypt" /\ pc[t] \in Cleanup \cup {"return"}
                   /\ Arg(t).msg.ids.preKey # k

\* What is said of another call stays true when the tables do, or when call t runs.
LEMMA OthersStaySealed ==
  ASSUME SealedTableInv, MutualExclusion, NEW t \in Calls, Apart(t),
         Running(t) \/ (session' = session /\ preKeys' = preKeys),
         NEW u \in Calls, u # t
  PROVE  /\ KindInv(u)' /\ ReadInv(u)' /\ AnswerInv(u)'
         /\ Done(u)' = Done(u) /\ Sender(u)' = Sender(u) /\ Unstored(u)' = Unstored(u)
         /\ Kind(u)' = Kind(u) /\ Arg(u)' = Arg(u) /\ Peer(u)' = Peer(u)
<1>1. /\ phase'[u] = phase[u] /\ pc'[u] = pc[u] /\ request'[u] = request[u]
      /\ result'[u] = result[u] /\ existingSession'[u] = existingSession[u]
  BY DEF Apart
<1>2. /\ Done(u)' = Done(u) /\ Sender(u)' = Sender(u) /\ Unstored(u)' = Unstored(u)
      /\ Kind(u)' = Kind(u) /\ Arg(u)' = Arg(u) /\ Peer(u)' = Peer(u)
      /\ Running(u)' = Running(u) /\ AsPlain(u)' = AsPlain(u)
  BY <1>1 DEF Done, Sender, Unstored, Kind, Arg, Peer, Running, AsPlain
<1>3. KindInv(u) /\ ReadInv(u) /\ AnswerInv(u)
  BY DEF SealedTableInv
<1>4. Running(u) => session' = session /\ preKeys' = preKeys
  BY DEF Running, MutualExclusion
<1>5. KindInv(u)'
  BY <1>1, <1>2, <1>3 DEF KindInv, RequestInv, LabelInv
<1>6. CASE ~Running(u)
  BY <1>1, <1>2, <1>3, <1>5, <1>6 DEF ReadInv, AnswerInv
<1>7. CASE Running(u)
  <2>1. session' = session /\ preKeys' = preKeys
    BY <1>4, <1>7
  <2>2. ReadInv(u)'
    BY <1>1, <1>2, <1>3, <2>1 DEF ReadInv
  <2>3. \A k : Built(k) => Built(k)'
    BY <2>1 DEF Built
  <2>4. AnswerInv(u)'
    BY <1>1, <1>2, <1>3, <2>1, <2>3 DEF AnswerInv
  <2>. QED
    BY <1>2, <1>5, <2>2, <2>4
<1>. QED  BY <1>6, <1>7

\* A handshake's session is a session.
LEMMA StartedIsSid == Started \subseteq Sids
BY ClientAssumption, SealedAssumption DEF Started, CiphertextMessage

\* A prekey that is gone is still accounted for when the sessions built on it stay.
LEMMA GoneStays ==
  ASSUME SealedTableInv, NEW t \in Calls, Apart(t), UNCHANGED request,
         pc[t] \in Cleanup \cup {"return"} => pc'[t] \in Cleanup \cup {"return"},
         \A b \in Offered' \ Offered : b.preKey \in preKeys',
         \A k \in PreKeys : Id[k] \notin Ids(preKeys)' => Id[k] \notin Ids(preKeys) \/ BuiltAs(Id[k])',
         \A b \in OwnIds : Id[b.preKey] \notin Ids(preKeys) /\ BuiltAs(Id[b.preKey]) =>
           BuiltAs(Id[b.preKey])' \/ Overwritten(b.preKey)'
  PROVE  PreKeyOutlivesSealed'
<1>1. \A k : Overwritten(k) => Overwritten(k)'
  <2>. SUFFICES ASSUME NEW k, NEW u \in Calls, IsSealed(u), Kind(u) = "sealedDecrypt",
                       pc[u] \in Cleanup \cup {"return"}, Arg(u).msg.ids.preKey # k
                PROVE  Overwritten(k)'
    BY DEF Overwritten
  <2>1. pc'[u] \in Cleanup \cup {"return"}
    BY DEF Apart
  <2>. QED
    BY <2>1 DEF Overwritten, IsSealed, Kind, Arg
<1>2. SUFFICES ASSUME NEW b \in Offered', Id[b.preKey] \notin Ids(preKeys)'
               PROVE  BuiltAs(Id[b.preKey])' \/ Overwritten(b.preKey)'
  BY DEF PreKeyOutlivesSealed, Overwritten
<1>3. b \in Offered
  BY <1>2 DEF Ids
<1>4. b \in OwnIds
  <2>1. b \in Published \/ \E u \in Calls : Fulfilled(u, "publishOneTimePreKey") /\ b = request[u].arg
    BY <1>3 DEF Offered
  <2>2. ASSUME NEW u \in Calls, Fulfilled(u, "publishOneTimePreKey") PROVE request[u].arg \in OwnIds
    <3>1. RequestInv(u)
      BY <2>2 DEF SealedTableInv, KindInv, Fulfilled, SealedKinds, Kind
    <3>. QED
      BY <2>2, <3>1 DEF RequestInv, Fulfilled, Requests, Kind
  <2>. QED
    BY <2>1, <2>2, ClientAssumption
<1>5. b.preKey \in PreKeys
  BY <1>4, ClientAssumption DEF BundleIds
<1>6. CASE Id[b.preKey] \in Ids(preKeys)
  BY <1>2, <1>5, <1>6
<1>7. CASE Id[b.preKey] \notin Ids(preKeys)
  <2>1. BuiltAs(Id[b.preKey]) \/ Overwritten(b.preKey)
    BY <1>3, <1>7 DEF SealedTableInv, PreKeyOutlivesSealed, Overwritten
  <2>. QED
    BY <1>1, <1>4, <1>7, <2>1
<1>. QED  BY <1>6, <1>7

\* A step of a call that stores no session.
LEMMA QuietSealed ==
  ASSUME SealedTableInv, MutualExclusion, NEW t \in Calls, Apart(t), UNCHANGED <<request, session>>,
         Running(t) \/ preKeys' = preKeys, phase[t] # "idle",
         KindInv(t)', ReadInv(t)', AnswerInv(t)', PreKeyOutlivesSealed',
         Done(t)' /\ Sender(t) => Done(t) /\ result'[t] = result[t], phase'[t] # "idle",
         Unstored(t)' /\ Kind(t) = "processPreKeyBundle" => Unstored(t), DOMAIN existingSession' = Calls
  PROVE  SealedTableInv'
<1>1. \A u \in Calls : u # t =>
        /\ KindInv(u)' /\ ReadInv(u)' /\ AnswerInv(u)'
        /\ Done(u)' = Done(u) /\ Sender(u)' = Sender(u) /\ Unstored(u)' = Unstored(u)
        /\ result'[u] = result[u] /\ phase'[u] = phase[u]
  BY OthersStaySealed DEF Apart
<1>2. \A u \in Calls : Kind(u)' = Kind(u) /\ Arg(u)' = Arg(u) /\ Peer(u)' = Peer(u)
  BY DEF Kind, Arg, Peer
<1>3. Sender(t)' = Sender(t)
  BY <1>2 DEF Sender
<1>4. \A u \in Calls : Done(u)' /\ Sender(u)' => Done(u) /\ Sender(u) /\ result'[u] = result[u]
  BY <1>1, <1>3
<1>5. RecordInv'
  <2>1. RecordInv
    BY DEF SealedTableInv
  <2>. QED
    BY <2>1 DEF RecordInv
<1>6. \A u \in Calls : SentInv(u)'
  BY <1>2, <1>4 DEF SealedTableInv, SentInv
<1>7. \A b \in Bundles : ToStart(b)' => ToStart(b)
  BY <1>1, <1>2 DEF ToStart, FreshBundle
<1>8. StartInv'
  <2>1. StartInv
    BY DEF SealedTableInv
  <2>2. \A b \in Bundles : ToStart(b)' =>
          /\ \A p \in Peers : ~Has(session'[p], b.sid)
          /\ \A u \in Calls : Done(u)' /\ Sender(u)' => result'[u].msg.sid # b.sid
    BY <1>4, <1>7, <2>1 DEF StartInv
  <2>3. \A u \in Calls : phase'[u] # "idle" => phase[u] # "idle"
    BY <1>1
  <2>. QED
    BY <1>2, <2>1, <2>2, <2>3 DEF StartInv
<1>9. SentOnce'
  BY <1>4 DEF SealedTableInv, SentOnce, SameKey
<1>. QED
  BY <1>1, <1>5, <1>6, <1>8, <1>9 DEF SealedTableInv

\* A running call that stores no session goes to its next await.
LEMMA InnerSealed ==
  ASSUME SealedTableInv, UnsealedInv, MutualExclusion, NEW t \in Calls, Running(t),
         NEW label \in (Labels \cup {"loadPreKeys", "loadSignedPreKeys"}) \ {"start", "removePreKey"},
         pc' = [pc EXCEPT ![t] = label], UNCHANGED <<phase, request, session>>,
         result' = result \/ \E answer : result' = [result EXCEPT ![t] = answer],
         existingSession' = existingSession
           \/ \E record : existingSession' = [existingSession EXCEPT ![t] = record],
         \A k \in PreKeys : Id[k] \notin Ids(preKeys)' => Id[k] \notin Ids(preKeys) \/ BuiltAs(Id[k]),
         Done(t) => result' = result,
         label \in Cleanup \cup {"return"} <=>
           \/ Done(t)
           \/ pc[t] = "storeKyberPreKey" /\ Kind(t) = "publishOneTimePreKey",
         Kind(t) = "processPreKeyBundle" /\ label \in {"loadSession", "getIdentity", "runOp", "storeSession"} =>
           Unstored(t),
         Kind(t) = "sealedEncrypt" =>
           label \in {"loadSession", "getIdentity", "runOp", "storeSession", "return"} \cup Cleanup,
         Kind(t) \notin SealedKinds =>
           /\ label \in Resolving => Kind(t) = "decryptPreKeySignal"
           /\ label \in Publishing => Kind(t) = "publishOneTimePreKey"
           /\ Kind(t) = "publishOneTimePreKey" => label \in Publishing \cup {"return"},
         Kind(t) # "sealedDecrypt" /\ label \in {"getIdentity", "runOp", "storeSession"} \cup Resolving =>
           existingSession'[t] = session[Peer(t)] /\ (Sender(t) => existingSession'[t] # None),
         Kind(t) = "publishOneTimePreKey"
           /\ label \in {"storeSignedPreKey", "storeKyberPreKey", "return"} => Arg(t).preKey \in preKeys',
         label = "storeSession" =>
           /\ result'[t].session \in SessionRecord /\ SealedFits(result'[t].session)
           /\ result'[t].consumed # None => BuiltIn(result'[t].session, result'[t].consumed)
           /\ Kind(t) # "sealedDecrypt" => Computed(result'[t], AsPlain(t), existingSession'[t])
           /\ Kind(t) = "sealedDecrypt" =>
                /\ Arg(t).msg.ids.preKey \in preKeys' \cup {None}
                /\ \A s \in Sids : Has(result'[t].session, s) => s = Arg(t).msg.sid
  PROVE  SealedTableInv'
<1>1. Apart(t) /\ pc'[t] = label /\ phase[t] = "running" /\ phase'[t] = "running"
  BY DEF Apart, UnsealedInv, SealedTableInv, Running
<1>2. /\ Running(t)' /\ Kind(t)' = Kind(t) /\ Arg(t)' = Arg(t) /\ Peer(t)' = Peer(t)
      /\ Sender(t)' = Sender(t) /\ AsPlain(t)' = AsPlain(t)
      /\ Done(t)' <=> label \in Cleanup \cup {"return"}
      /\ Unstored(t)' <=> label \in {"loadSession", "getIdentity", "runOp", "storeSession"}
  <2>1. Running(t)' /\ Kind(t)' = Kind(t) /\ Arg(t)' = Arg(t) /\ Peer(t)' = Peer(t)
    BY <1>1 DEF Running, Kind, Arg, Peer
  <2>2. Sender(t)' = Sender(t) /\ AsPlain(t)' = AsPlain(t)
    BY <1>1, <2>1 DEF Sender, AsPlain
  <2>3. Done(t)' <=> label \in Cleanup \cup {"return"}
    BY <1>1, <2>1 DEF Done
  <2>4. Unstored(t)' <=> label \in {"loadSession", "getIdentity", "runOp", "storeSession"}
    BY <1>1, <2>1 DEF Unstored
  <2>. QED  BY <2>1, <2>2, <2>3, <2>4
<1>3. KindInv(t)
  BY DEF SealedTableInv
<1>4. KindInv(t)'
  BY <1>1, <1>2, <1>3 DEF KindInv, RequestInv, LabelInv
<1>5. ReadInv(t)'
  BY <1>1, <1>2 DEF ReadInv
<1>6. AnswerInv(t)'
  BY <1>1, <1>2 DEF AnswerInv
<1>7. \A id : BuiltAs(id)' = BuiltAs(id)
  BY DEF BuiltAs, Built
<1>8. Offered' = Offered
  BY DEF Offered, Fulfilled
<1>9. pc[t] \in Cleanup \cup {"return"} => pc'[t] \in Cleanup \cup {"return"}
  BY <1>1 DEF Done, Running
<1>10. PreKeyOutlivesSealed'
  BY <1>1, <1>7, <1>8, <1>9, GoneStays
<1>11. Done(t)' /\ Sender(t) => Done(t) /\ result'[t] = result[t]
  BY <1>2 DEF Sender
<1>12. DOMAIN existingSession' = Calls
  BY DEF SealedTableInv
<1>13. Unstored(t)' /\ Kind(t) = "processPreKeyBundle" => Unstored(t)
  BY <1>2
<1>14. UNCHANGED <<request, session>> /\ phase[t] # "idle" /\ phase'[t] # "idle"
  BY <1>1
<1>. HIDE DEF Labels
<1>. QED
  BY <1>1, <1>4, <1>5, <1>6, <1>10, <1>11, <1>12, <1>13, <1>14, QuietSealed

-----------------------------------------------------------------------------
(* The steps of a call, for the tables *)

USE DEF Resolving, Decrypts, SealedKinds

\* A call that throws leaves the tables.
LEMMA ThrowSealed ==
  ASSUME SealedTableInv, UnsealedInv, QueueTypeOK, MutualExclusion,
         NEW t \in Calls, NEW err, Throw(t, err)
  PROVE  SealedTableInv'
<1>1. /\ phase[t] = "running" /\ phase' = [phase EXCEPT ![t] = "rejected"]
      /\ result' = [result EXCEPT ![t] = Failure(err)]
      /\ UNCHANGED <<session, preKeys, request, pc, existingSession>>
  BY DEF Throw, SettleFn, tables
<1>2. Apart(t) /\ phase'[t] = "rejected"
  BY <1>1 DEF Apart, UnsealedInv, QueueTypeOK
<1>3. /\ ~Running(t)' /\ ~Done(t)' /\ ~Unstored(t)' /\ Kind(t)' = Kind(t)
      /\ phase[t] # "idle" /\ phase'[t] # "idle"
  BY <1>1, <1>2 DEF Running, Done, Unstored, Kind
<1>4. KindInv(t)' /\ ReadInv(t)' /\ AnswerInv(t)'
  <2>1. KindInv(t)
    BY DEF SealedTableInv
  <2>2. ReadInv(t)' /\ AnswerInv(t)'
    BY <1>2, <1>3 DEF ReadInv, AnswerInv
  <2>. QED
    BY <1>1, <1>3, <2>1, <2>2 DEF KindInv, RequestInv, LabelInv, Peer, Arg, Kind
<1>5. Offered' = Offered
  BY <1>1, <1>2 DEF Offered, Fulfilled, Apart
<1>6. (\A id : BuiltAs(id)' = BuiltAs(id)) /\ Ids(preKeys)' = Ids(preKeys)
  BY <1>1 DEF BuiltAs, Built, Ids, tables
<1>7. PreKeyOutlivesSealed'
  BY <1>1, <1>2, <1>5, <1>6, GoneStays
<1>8. DOMAIN existingSession' = Calls
  BY <1>1 DEF SealedTableInv
<1>. QED
  BY <1>1, <1>2, <1>3, <1>4, <1>7, <1>8, QuietSealed

\* The kinds of calls, and the labels at which they read.
LEMMA CallKinds ==
  ASSUME SealedTableInv, UnsealedInv, NEW t \in Calls, Running(t)
  PROVE  /\ request[t] # None /\ (IsSealed(t) <=> Kind(t) \in SealedKinds)
         /\ Kind(t) \in SealedKinds => request[t] \in SealedRequests
         /\ Kind(t) \notin SealedKinds => RequestInv(t) /\ LabelInv(t)
         /\ Kind(t) # "publishOneTimePreKey" => Peer(t) \in Peers
         /\ Kind(t) = "sealedDecrypt" => pc[t] \in Unsealing /\ Arg(t) \in SealedIncoming
<1>1. UnsealInv(t) /\ KindInv(t) /\ phase[t] = "running"
  BY DEF UnsealedInv, SealedTableInv, Running
<1>2. request[t] # None
  BY <1>1 DEF UnsealInv
<1>3. /\ Kind(t) \in SealedKinds => request[t] \in SealedRequests
      /\ Kind(t) \notin SealedKinds => RequestInv(t) /\ LabelInv(t)
  BY <1>1 DEF KindInv
<1>4. CASE Kind(t) \in SealedKinds
  <2>1. request[t].peer \in Peers /\ (request[t].kind = "sealedDecrypt" => request[t].arg \in SealedIncoming)
    BY <1>3, <1>4, SealedAssumption DEF SealedRequests
  <2>. QED
    BY <1>1, <1>2, <1>3, <1>4, <2>1 DEF IsSealed, Peer, Arg, Kind, UnsealInv, Unseals, SealedKinds
<1>5. CASE Kind(t) \notin SealedKinds
  BY <1>1, <1>2, <1>3, <1>5, RequestTypes DEF IsSealed, SealedKinds
<1>. QED  BY <1>4, <1>5

\* Encrypting, sealed or not, is encrypting.
LEMMA PlainKinds ==
  ASSUME SealedTableInv, UnsealedInv, NEW t \in Calls, Running(t)
  PROVE  /\ Kind(t) # "sealedEncrypt" => AsPlain(t) = request[t]
         /\ Kind(t) \in {"encrypt", "sealedEncrypt"} => AsPlain(t).kind = "encrypt"
<1>1. Kind(t) # "sealedEncrypt" => AsPlain(t) = request[t]
  BY DEF AsPlain
<1>2. ASSUME Kind(t) = "sealedEncrypt" PROVE AsPlain(t).kind = "encrypt"
  <2>1. request[t] \in SealedRequests /\ request[t].kind = "sealedEncrypt"
    BY <1>2, CallKinds DEF Kind
  <2>2. request[t] \in [kind : {"sealedEncrypt"}, peer : Peers, arg : {None}]
    BY <2>1 DEF SealedRequests
  <2>. QED
    BY <1>2, <2>2 DEF AsPlain
<1>. QED
  BY <1>1, <1>2 DEF Kind

\* A read of a call of either kind.
ReadsEither(t) ==
  \/ /\ IsSealed(t)
     /\ LoadPreKeys(t) \/ LoadSignedPreKeys(t) \/ LoadSessionToSeal(t) \/ GetIdentity(t) \/ LoadKyberPreKeys(t)
  \/ ~IsSealed(t) /\ Read(t)

\* What a call reads is what it will find when it stores.
LEMMA ReadSealed ==
  ASSUME SealedTableInv, UnsealedInv, QueueTypeOK, MutualExclusion, NEW t \in Calls, ReadsEither(t)
  PROVE  SealedTableInv'
<1>1. /\ Running(t) /\ pc[t] \in Reads \cup {"loadPreKeys", "loadSignedPreKeys"}
      /\ phase[t] = "running"
  BY DEF ReadsEither, LoadPreKeys, LoadSignedPreKeys, LoadSessionToSeal, GetIdentity, LoadKyberPreKeys, Read,
         LoadSession, LoadPreKey, LoadSignedPreKey, At, Running
<1>2. /\ request[t] # None /\ (IsSealed(t) <=> Kind(t) \in SealedKinds)
      /\ Kind(t) \notin SealedKinds => LabelInv(t)
      /\ Kind(t) = "sealedDecrypt" => pc[t] \in Unsealing
  BY <1>1, CallKinds
<1>3. ~Done(t) /\ ReadInv(t) /\ KindInv(t) /\ DOMAIN existingSession = Calls
  BY <1>1 DEF Done, Running, SealedTableInv
<1>4. ASSUME NEW err, Throw(t, err) PROVE SealedTableInv'
  BY <1>4, ThrowSealed
<1>5. ASSUME NEW label \in {"getIdentity", "loadPreKey", "loadSignedPreKey", "loadKyberPreKeys", "runOp",
                             "loadSignedPreKeys"},
             pc' = [pc EXCEPT ![t] = label], UNCHANGED <<phase, request, session, preKeys, result>>,
             existingSession' = existingSession
               \/ \E record : existingSession' = [existingSession EXCEPT ![t] = record],
             Kind(t) = "processPreKeyBundle" => Unstored(t),
             Kind(t) # "publishOneTimePreKey",
             Kind(t) = "sealedEncrypt" => label \in {"getIdentity", "runOp"},
             Kind(t) \notin SealedKinds => (label \in Resolving => Kind(t) = "decryptPreKeySignal"),
             Kind(t) # "sealedDecrypt" =>
               existingSession'[t] = session[Peer(t)] /\ (Sender(t) => existingSession'[t] # None)
      PROVE  SealedTableInv'
  <2>1. Done(t) => result' = result
    BY <1>5
  <2>2. label \in Cleanup \cup {"return"} <=>
          \/ Done(t)
          \/ pc[t] = "storeKyberPreKey" /\ Kind(t) = "publishOneTimePreKey"
    BY <1>3, <1>5
  <2>3. label \in (Labels \cup {"loadPreKeys", "loadSignedPreKeys"}) \ {"start", "removePreKey"}
    BY <1>5
  <2>4. Kind(t) # "sealedDecrypt" /\ label \in {"getIdentity", "runOp", "storeSession"} \cup Resolving =>
          existingSession'[t] = session[Peer(t)] /\ (Sender(t) => existingSession'[t] # None)
    BY <1>5
  <2>5. Kind(t) \notin SealedKinds =>
          /\ label \in Resolving => Kind(t) = "decryptPreKeySignal"
          /\ label \in Publishing => Kind(t) = "publishOneTimePreKey"
          /\ Kind(t) = "publishOneTimePreKey" => label \in Publishing \cup {"return"}
    BY <1>5
  <2>. HIDE DEF Labels, Cleanup, Publishing, Reads
  <2>. QED
    BY <1>1, <1>5, <2>1, <2>2, <2>3, <2>4, <2>5, InnerSealed
<1>6. Kind(t) # "publishOneTimePreKey"
  <2>1. Kind(t) = "publishOneTimePreKey" => pc[t] \in Publishing \cup {"return"}
    BY <1>1, <1>2 DEF LabelInv, SealedKinds
  <2>. QED
    BY <1>1, <2>1
<1>7. Kind(t) = "processPreKeyBundle" => Unstored(t)
  <2>1. ~IsSealed(t) => pc[t] \in Reads
    BY DEF ReadsEither, Read, LoadSession, GetIdentity, LoadPreKey, LoadSignedPreKey, LoadKyberPreKeys, At
  <2>. QED
    BY <1>1, <1>2, <2>1 DEF LabelInv, Unstored
<1>8. CASE IsSealed(t) /\ (LoadPreKeys(t) \/ LoadSignedPreKeys(t))
  <2>1. Kind(t) = "sealedDecrypt"
    <3>1. pc[t] \in {"loadPreKeys", "loadSignedPreKeys"}
      BY <1>8 DEF LoadPreKeys, LoadSignedPreKeys, At
    <3>. QED
      BY <1>1, <1>2, <1>3, <1>8, <3>1 DEF KindInv
  <2>2. \E label \in {"loadSignedPreKeys", "loadKyberPreKeys"} :
          /\ pc' = [pc EXCEPT ![t] = label]
          /\ UNCHANGED <<phase, request, session, preKeys, result, existingSession>>
    BY <1>8 DEF LoadPreKeys, LoadSignedPreKeys, Goto, queueVars, tables, locals
  <2>. QED
    BY <1>5, <2>1, <2>2
<1>9. CASE (~IsSealed(t) /\ LoadSession(t)) \/ (IsSealed(t) /\ LoadSessionToSeal(t))
  <2>1. Kind(t) # "sealedDecrypt"
    BY <1>2, <1>9 DEF LoadSession, LoadSessionToSeal, At, Unsealing
  <2>2. \/ \E err : Throw(t, err)
        \/ /\ existingSession' = [existingSession EXCEPT ![t] = session[Peer(t)]]
           /\ pc' = [pc EXCEPT ![t] = "getIdentity"]
           /\ UNCHANGED <<phase, request, session, preKeys, result>>
           /\ Sender(t) => session[Peer(t)] # None
    <3>1. Sender(t) => Kind(t) \in {"encrypt", "sealedEncrypt"}
      BY DEF Sender
    <3>2. CASE ~IsSealed(t) /\ LoadSession(t)
      BY <1>2, <3>1, <3>2 DEF LoadSession, Goto, queueVars, tables
    <3>3. CASE IsSealed(t) /\ LoadSessionToSeal(t)
      BY <1>2, <3>1, <3>3 DEF LoadSessionToSeal, Goto, queueVars, tables
    <3>. QED  BY <1>9, <3>2, <3>3
  <2>3. CASE \E err : Throw(t, err)
    BY <1>4, <2>3
  <2>4. CASE ~ \E err : Throw(t, err)
    <3>1. existingSession'[t] = session[Peer(t)] /\ (Sender(t) => existingSession'[t] # None)
      BY <1>3, <2>2, <2>4
    <3>. QED
      BY <1>5, <1>6, <1>7, <2>1, <2>2, <2>4, <3>1
  <2>. QED  BY <2>3, <2>4
<1>10. CASE GetIdentity(t)
  <2>1. Kind(t) # "sealedDecrypt" /\ pc[t] = "getIdentity"
    BY <1>2, <1>10 DEF GetIdentity, At, Unsealing
  <2>2. existingSession[t] = session[Peer(t)] /\ (Sender(t) => existingSession[t] # None)
    BY <1>1, <1>3, <2>1 DEF ReadInv
  <2>3. \E label \in {"runOp", "loadPreKey", "loadSignedPreKey"} :
          /\ pc' = [pc EXCEPT ![t] = label]
          /\ label # "runOp" => Kind(t) = "decryptPreKeySignal"
          /\ UNCHANGED <<phase, request, session, preKeys, result, existingSession>>
    BY <1>10 DEF GetIdentity, Goto, queueVars, tables
  <2>4. PICK label \in {"runOp", "loadPreKey", "loadSignedPreKey"} :
          /\ pc' = [pc EXCEPT ![t] = label]
          /\ label # "runOp" => Kind(t) = "decryptPreKeySignal"
          /\ UNCHANGED <<phase, request, session, preKeys, result, existingSession>>
    BY <2>3
  <2>. QED
    BY <1>5, <1>6, <1>7, <2>2, <2>4
<1>11. CASE LoadPreKey(t) \/ LoadSignedPreKey(t) \/ LoadKyberPreKeys(t)
  <2>1. Kind(t) \in {"sealedDecrypt", "decryptPreKeySignal"} /\ pc[t] \in Resolving
    <3>1. pc[t] \in Resolving
      BY <1>11 DEF LoadPreKey, LoadSignedPreKey, LoadKyberPreKeys, At
    <3>2. Kind(t) # "sealedEncrypt"
      BY <1>1, <1>3, <3>1 DEF KindInv
    <3>. QED
      BY <1>1, <1>2, <3>1, <3>2 DEF LabelInv
  <2>2. Kind(t) # "sealedDecrypt" =>
          existingSession[t] = session[Peer(t)] /\ (Sender(t) => existingSession[t] # None)
    BY <1>1, <1>3, <2>1 DEF ReadInv
  <2>3. \/ \E err : Throw(t, err)
        \/ \E label \in {"loadSignedPreKey", "loadKyberPreKeys", "runOp"} :
             /\ pc' = [pc EXCEPT ![t] = label]
             /\ UNCHANGED <<phase, request, session, preKeys, result, existingSession>>
    BY <1>11 DEF LoadPreKey, LoadSignedPreKey, LoadKyberPreKeys, Goto, queueVars, tables, locals
  <2>4. CASE \E err : Throw(t, err)
    BY <1>4, <2>4
  <2>. QED
    BY <1>5, <2>1, <2>2, <2>3, <2>4
<1>. QED
  BY <1>8, <1>9, <1>10, <1>11 DEF ReadsEither, Read

\* A call of either kind begins with a read or with the first write of a publication.
LEMMA BeginSealedTables ==
  ASSUME SealedTableInv, UnsealedInv, QueueTypeOK, MutualExclusion, NEW t \in Calls,
         \/ ~IsSealed(t) /\ Begin(t) /\ UNCHANGED blobs
         \/ IsSealed(t) /\ BeginSealed(t)
  PROVE  SealedTableInv'
<1>1. /\ phase[t] = "queued" /\ phase' = [phase EXCEPT ![t] = "running"]
      /\ UNCHANGED <<session, preKeys, request, result, existingSession>>
  BY DEF Begin, BeginSealed, StartFn, tables, locals
<1>2. \E label \in {"loadSession", "loadPreKeys", "storePreKey"} :
        /\ pc' = [pc EXCEPT ![t] = label]
        /\ IsSealed(t) => label # "storePreKey" /\ (Kind(t) = "sealedEncrypt" => label = "loadSession")
        /\ ~IsSealed(t) => label # "loadPreKeys" /\ (label = "storePreKey" <=> Kind(t) = "publishOneTimePreKey")
  <2>1. CASE ~IsSealed(t) /\ Begin(t)
    BY <2>1 DEF Begin, Goto
  <2>2. CASE IsSealed(t) /\ BeginSealed(t)
    BY <2>2 DEF BeginSealed, Goto
  <2>. QED  BY <2>1, <2>2
<1>3. PICK label \in {"loadSession", "loadPreKeys", "storePreKey"} :
        /\ pc' = [pc EXCEPT ![t] = label]
        /\ IsSealed(t) => label # "storePreKey" /\ (Kind(t) = "sealedEncrypt" => label = "loadSession")
        /\ ~IsSealed(t) => label # "loadPreKeys" /\ (label = "storePreKey" <=> Kind(t) = "publishOneTimePreKey")
  BY <1>2
<1>4. Apart(t) /\ phase'[t] = "running" /\ pc'[t] = label
  BY <1>1, <1>3 DEF Apart, UnsealedInv, QueueTypeOK
<1>5. /\ Running(t)' /\ ~Done(t)' /\ Unstored(t) /\ Kind(t)' = Kind(t)
      /\ phase[t] # "idle" /\ phase'[t] # "idle" /\ pc[t] = "start"
  <2>1. Running(t)' /\ Unstored(t) /\ Kind(t)' = Kind(t) /\ phase[t] # "idle" /\ phase'[t] # "idle"
    BY <1>1, <1>4 DEF Running, Unstored, Kind
  <2>2. ~Done(t)'
    BY <1>4 DEF Done
  <2>3. pc[t] = "start"
    BY <1>1 DEF SealedTableInv, ReadInv
  <2>. QED  BY <2>1, <2>2, <2>3
<1>6. KindInv(t)'
  <2>1. KindInv(t) /\ request[t] # None
    BY <1>5 DEF SealedTableInv, UnsealedInv, UnsealInv
  <2>2. CASE Kind(t) \in SealedKinds
    BY <1>1, <1>3, <1>4, <1>5, <2>1, <2>2 DEF KindInv, IsSealed
  <2>3. CASE Kind(t) \notin SealedKinds
    <3>1. RequestInv(t)'
      BY <1>1, <1>5, <2>1, <2>3 DEF KindInv, RequestInv, Peer, Arg, Kind
    <3>2. LabelInv(t)'
      BY <1>3, <1>4, <1>5, <2>1, <2>3 DEF LabelInv, IsSealed
    <3>. QED
      BY <1>5, <2>3, <3>1, <3>2 DEF KindInv
  <2>. QED  BY <2>2, <2>3
<1>7. ReadInv(t)' /\ AnswerInv(t)'
  BY <1>3, <1>4, <1>5 DEF ReadInv, AnswerInv
<1>8. Offered' = Offered
  BY <1>1, <1>4, <1>5 DEF Offered, Fulfilled, Apart
<1>9. (\A id : BuiltAs(id)' = BuiltAs(id)) /\ Ids(preKeys)' = Ids(preKeys)
  BY <1>1 DEF BuiltAs, Built, Ids, tables
<1>10. PreKeyOutlivesSealed'
  BY <1>1, <1>4, <1>5, <1>8, <1>9, GoneStays
<1>11. DOMAIN existingSession' = Calls
  BY <1>1 DEF SealedTableInv
<1>. QED
  BY <1>1, <1>4, <1>5, <1>6, <1>7, <1>10, <1>11, QuietSealed

\* A record keeps the sessions of the handshakes as they were built when another that
\* does so is installed.
LEMMA InstallSealedFits ==
  ASSUME NEW record \in SessionRecord \cup {None}, NEW sid \in Sids, NEW st \in SessionState,
         SealedFits(record),
         \A i \in Incoming \cup SealedIncoming : i.msg.type = "preKeySignal" /\ i.msg.sid = sid =>
           st.ids = i.msg.ids
  PROVE  SealedFits(Install(record, sid, st))
<1> DEFINE new == Install(record, sid, st)
<1>1. /\ new.states[sid] = st
      /\ \A s \in Sids : s # sid => new.states[s] = IF record = None THEN None ELSE record.states[s]
  BY InstallType
<1>. HIDE DEF new
<1>2. ASSUME NEW i \in Incoming \cup SealedIncoming, i.msg.type = "preKeySignal", Has(new, i.msg.sid)
      PROVE  new.states[i.msg.sid].ids = i.msg.ids
  <2>1. i.msg.sid \in Sids
    BY ClientAssumption, SealedAssumption DEF CiphertextMessage
  <2>2. CASE i.msg.sid = sid
    BY <1>1, <1>2, <2>2
  <2>3. CASE i.msg.sid # sid
    <3>1. Has(record, i.msg.sid) /\ new.states[i.msg.sid] = record.states[i.msg.sid]
      BY <1>1, <1>2, <2>1, <2>3 DEF Has
    <3>. QED
      BY <1>2, <3>1 DEF SealedFits
  <2>. QED  BY <2>2, <2>3
<1>. QED
  BY <1>2 DEF SealedFits, new

\* Decryption leaves the session it was found in as its handshake built it.
LEMMA DecryptWithSealedFits ==
  ASSUME NEW record \in SessionRecord, NEW m \in CiphertextMessage,
         Has(record, m.sid), SealedFits(record), NEW consumed, NEW kyber,
         DecryptWith(record, m, consumed, kyber).err = None
  PROVE  LET answer == DecryptWith(record, m, consumed, kyber)
         IN  /\ SealedFits(answer.session) /\ answer.consumed = consumed
             /\ \A s \in Sids : s # m.sid => answer.session.states[s] = record.states[s]
<1> DEFINE old == record.states[m.sid]
           st == [ident |-> old.ident, pending |-> FALSE, ids |-> old.ids,
                  sent |-> old.sent, rcvd |-> old.rcvd \cup {m.ctr}]
           answer == DecryptWith(record, m, consumed, kyber)
<1>1. m.sid \in Sids /\ m.ctr \in Nat
  BY DEF CiphertextMessage
<1>2. old \in SessionState
  BY <1>1 DEF Has, SessionRecord
<1>3. st \in SessionState /\ st.ids = old.ids
  BY <1>1, <1>2 DEF SessionState
<1>4. answer.session = Install(record, m.sid, st) /\ answer.consumed = consumed
  BY ErrorAssumption DEF DecryptWith, Failure, Errors, Returned, AdvanceReceiving
<1>5. \A i \in Incoming \cup SealedIncoming : i.msg.type = "preKeySignal" /\ i.msg.sid = m.sid =>
        st.ids = i.msg.ids
  BY <1>3 DEF SealedFits
<1>6. record # None
  BY DEF Has
<1>. HIDE DEF st, answer
<1>7. SealedFits(answer.session)
  BY <1>1, <1>3, <1>4, <1>5, InstallSealedFits
<1>8. \A s \in Sids : s # m.sid => answer.session.states[s] = record.states[s]
  BY <1>1, <1>3, <1>4, <1>6, InstallType
<1>. QED
  BY <1>4, <1>7, <1>8 DEF answer

\* A record with the session of a handshake has one built on its prekey.
LEMMA BuiltByHandshake ==
  ASSUME NEW record, SealedFits(record), NEW i \in Incoming \cup SealedIncoming,
         i.msg.type = "preKeySignal", Has(record, i.msg.sid)
  PROVE  BuiltIn(record, i.msg.ids.preKey)
<1>1. i.msg.sid \in Started
  BY DEF Started
<1>. QED
  BY <1>1 DEF BuiltIn, SealedFits

\* What encrypting, sealed or not, makes of the record.
LEMMA EncryptSealed ==
  ASSUME NEW record \in SessionRecord, NEW pinned, NEW r, r.kind = "encrypt", SealedFits(record),
         EncryptOp(record, pinned, LocalIdentity).err = None
  PROVE  LET answer == EncryptOp(record, pinned, LocalIdentity)
         IN  /\ answer.session \in SessionRecord /\ SealedFits(answer.session)
             /\ answer.consumed = None /\ Computed(answer, r, record)
<1> DEFINE old == Current(record)
           st == [ident |-> old.ident, pending |-> old.pending, ids |-> old.ids,
                  sent |-> old.sent + 1, rcvd |-> old.rcvd]
           answer == EncryptOp(record, pinned, LocalIdentity)
<1>1. answer.session \in SessionRecord /\ Computed(answer, r, record)
  BY EncryptComputes
<1>2. record.current \in Sids /\ old \in SessionState /\ Has(record, record.current)
  BY NoneAssumption DEF SessionRecord, Has, Current
<1>3. st \in SessionState /\ st.ids = old.ids
  BY <1>2 DEF SessionState
<1>4. answer.session = Install(record, record.current, st) /\ answer.consumed = None
  BY ErrorAssumption DEF EncryptOp, Failure, Errors, AdvanceSending, Returned
<1>5. \A i \in Incoming \cup SealedIncoming : i.msg.type = "preKeySignal" /\ i.msg.sid = record.current =>
        st.ids = i.msg.ids
  BY <1>2, <1>3 DEF SealedFits, Current
<1>. HIDE DEF st, old
<1>6. SealedFits(Install(record, record.current, st))
  BY <1>2, <1>3, <1>5, InstallSealedFits
<1>. QED
  BY <1>1, <1>4, <1>6

\* What a call is to store: a record that keeps the handshakes as they were built, and
\* that has a session built on the prekey to be removed.
Answers(t, answer) ==
  /\ answer.session \in SessionRecord /\ SealedFits(answer.session)
  /\ answer.consumed # None => BuiltIn(answer.session, answer.consumed)
  /\ Kind(t) # "sealedDecrypt" => Computed(answer, AsPlain(t), existingSession[t])
  /\ Kind(t) = "sealedDecrypt" =>
       /\ Arg(t).msg.ids.preKey \in preKeys \cup {None}
       /\ \A s \in Sids : Has(answer.session, s) => s = Arg(t).msg.sid

\* The plain operations extend the record that the call has read.
LEMMA PlainOpAnswers ==
  ASSUME SealedTableInv, UnsealedInv, NEW t \in Calls, At(t, "runOp"), ~IsSealed(t), Op(t).err = None
  PROVE  Answers(t, Op(t))
<1> DEFINE record == existingSession[t]
           pinned == remoteIdentity[t]
<1>1. Running(t) /\ pc[t] = "runOp" /\ phase[t] # "idle" /\ phase[t] = "running"
  BY DEF At, Running
<1>2. Kind(t) \notin SealedKinds /\ RequestInv(t) /\ LabelInv(t)
  BY <1>1, CallKinds
<1>3. /\ Kind(t) \in {"processPreKeyBundle", "encrypt", "decryptPreKeySignal", "decryptSignal"}
      /\ Peer(t) \in Peers
      /\ Kind(t) = "processPreKeyBundle" => Arg(t) \in Bundles
      /\ Kind(t) \in Decrypts => Arg(t) \in CiphertextMessage
      /\ Kind(t) = "decryptPreKeySignal" =>
           Arg(t).ids \in BundleIds /\ Arg(t).ident \in Identities
  BY <1>1, <1>2, RequestTypes DEF LabelInv
<1>4. record = session[Peer(t)] /\ (Kind(t) = "encrypt" => record # None)
  BY <1>1, <1>2 DEF SealedTableInv, ReadInv, Sender
<1>5. record \in SessionRecord \cup {None} /\ SealedFits(record)
  BY <1>3, <1>4 DEF SealedTableInv, RecordInv
<1>6. AsPlain(t) = request[t] /\ request[t].kind = Kind(t) /\ request[t].arg = Arg(t)
  BY <1>2 DEF AsPlain, Kind, Arg
<1>. HIDE DEF record, pinned
<1>7. CASE Kind(t) = "processPreKeyBundle"
  <2> DEFINE st == NewState(Arg(t).ident, TRUE, Arg(t).ids)
  <2>1. Op(t) = ProcessPreKeyBundleOp(Arg(t), record, pinned)
    BY <1>7 DEF Op, record, pinned
  <2>2. ~Has(record, Arg(t).sid)
    <3>1. Unstored(t)
      BY <1>1 DEF Unstored
    <3>2. ToStart(Arg(t))
      BY <1>7, <3>1 DEF ToStart
    <3>. QED
      BY <1>3, <1>4, <1>7, <3>2 DEF SealedTableInv, StartInv
  <2>3. Op(t).session \in SessionRecord /\ Computed(Op(t), request[t], record)
    BY <1>3, <1>5, <1>6, <1>7, <2>1, <2>2, ProcessComputes
  <2>4. Arg(t).sid \in Sids /\ st \in SessionState
    BY <1>3, <1>7, ClientAssumption DEF NewState, SessionState
  <2>5. \A i \in Incoming \cup SealedIncoming : i.msg.type = "preKeySignal" => i.msg.sid # Arg(t).sid
    BY <1>3, <1>7, ClientAssumption, SealedAssumption
  <2>6. Op(t).session = Install(record, Arg(t).sid, st) /\ Op(t).consumed = None
    <3>1. Failure("UntrustedIdentity").err # None
      BY ErrorAssumption DEF Failure, Errors
    <3>2. Op(t) = Returned(Install(record, Arg(t).sid, st), None, None, None, Arg(t).ident)
      BY <2>1, <3>1 DEF ProcessPreKeyBundleOp
    <3>. HIDE DEF st
    <3>. QED
      BY <3>2 DEF Returned
  <2>. HIDE DEF st
  <2>7. SealedFits(Op(t).session)
    BY <1>5, <2>4, <2>5, <2>6, InstallSealedFits
  <2>. QED
    BY <1>6, <1>7, <2>3, <2>6, <2>7 DEF Answers, record
<1>8. CASE Kind(t) = "encrypt"
  <2>1. Op(t) = EncryptOp(record, pinned, LocalIdentity)
    BY <1>8 DEF Op, record, pinned
  <2>2. record \in SessionRecord
    BY <1>4, <1>5, <1>8
  <2>3. /\ Op(t).session \in SessionRecord /\ SealedFits(Op(t).session)
        /\ Op(t).consumed = None /\ Computed(Op(t), request[t], record)
    BY <1>5, <1>6, <1>8, <2>1, <2>2, EncryptSealed
  <2>. QED
    BY <1>6, <1>8, <2>3 DEF Answers, record
<1>9. CASE Kind(t) = "decryptPreKeySignal"
  <2> DEFINE m == Arg(t)
             i == [from |-> Peer(t), msg |-> m]
  <2>1. Op(t) = DecryptPreKeySignalOp(m, record, pinned, preKey[t], signedPreKey[t], kyberBlob[t]) /\ m \in CiphertextMessage
    BY <1>3, <1>9 DEF Op, record, pinned
  <2>2. Op(t).session \in SessionRecord /\ Computed(Op(t), request[t], record)
    BY <1>3, <1>5, <1>6, <1>9, <2>1, DecryptPreKeyComputes
  <2>3. i \in Incoming /\ m.type = "preKeySignal" /\ m.sid \in Sids
    <3>1. i \in Incoming /\ m.type # "signal"
      BY <1>1, <1>2, <1>9 DEF RequestInv
    <3>. QED
      BY <2>1, <3>1 DEF CiphertextMessage
  <2>4. \A j \in Incoming \cup SealedIncoming : j.msg.type = "preKeySignal" /\ j.msg.sid = m.sid =>
          m.ids = j.msg.ids
    <3>1. i \in Incoming \cup SealedIncoming /\ i.msg = m
      BY <2>3
    <3>. QED
      BY <2>3, <3>1, SealedAssumption
  <2>5. \A e \in {"InvalidKey", "InvalidMessage", "UntrustedIdentity"} : Failure(e).err # None
    BY ErrorAssumption DEF Failure, Errors
  <2>6. SealedFits(Op(t).session) /\ Op(t).consumed = m.ids.preKey
    <3>1. CASE Has(record, m.sid)
      <4>1. record \in SessionRecord
        BY <1>5, <3>1 DEF Has
      <4>2. Op(t) = DecryptWith(record, m, m.ids.preKey, None)
        BY <2>1, <2>5, <3>1 DEF DecryptPreKeySignalOp
      <4>. QED
        BY <1>5, <2>1, <3>1, <4>1, <4>2, DecryptWithSealedFits
    <3>2. CASE ~Has(record, m.sid)
      <4> DEFINE st == NewState(m.ident, FALSE, m.ids)
                 base == Install(record, m.sid, st)
      <4>1. st \in SessionState /\ st.ids = m.ids
        BY <1>3, <1>9 DEF NewState, SessionState
      <4>2. Op(t) = DecryptWith(base, m, m.ids.preKey, m.ids.kyber)
        BY <2>1, <2>5, <3>2 DEF DecryptPreKeySignalOp
      <4>. HIDE DEF st
      <4>3. SealedFits(base)
        BY <1>5, <2>3, <2>4, <4>1, InstallSealedFits
      <4>4. base \in SessionRecord /\ base.states[m.sid] = st
        BY <1>5, <2>3, <4>1, InstallType
      <4>5. Has(base, m.sid)
        BY <4>1, <4>4, NoneAssumption DEF Has
      <4>. HIDE DEF base
      <4>. QED
        BY <2>1, <4>2, <4>3, <4>4, <4>5, DecryptWithSealedFits
    <3>. QED  BY <3>1, <3>2
  <2>7. BuiltIn(Op(t).session, m.ids.preKey)
    <3>1. Has(Op(t).session, m.sid)
      BY <1>6, <1>9, <2>2 DEF Computed
    <3>2. i \in Incoming \cup SealedIncoming /\ i.msg = m
      BY <2>3
    <3>. HIDE DEF i
    <3>. QED
      BY <2>3, <2>6, <3>1, <3>2, BuiltByHandshake
  <2>. QED
    BY <1>6, <1>9, <2>2, <2>6, <2>7 DEF Answers, record
<1>10. CASE Kind(t) = "decryptSignal"
  <2> DEFINE m == Arg(t)
  <2>1. Op(t) = DecryptSignalOp(m, record, pinned) /\ m \in CiphertextMessage
    BY <1>3, <1>10 DEF Op, record, pinned
  <2>2. Op(t).session \in SessionRecord /\ Computed(Op(t), request[t], record)
    BY <1>5, <1>6, <1>10, <2>1, DecryptSignalComputes
  <2>3. Has(record, m.sid) /\ Op(t) = DecryptWith(record, m, None, None)
    BY <2>1, ErrorAssumption DEF DecryptSignalOp, Failure, Errors
  <2>4. record \in SessionRecord
    BY <1>5, <2>3 DEF Has
  <2>5. SealedFits(Op(t).session) /\ Op(t).consumed = None
    BY <1>5, <2>1, <2>3, <2>4, DecryptWithSealedFits
  <2>. QED
    BY <1>6, <1>10, <2>2, <2>5 DEF Answers, record
<1>. QED
  BY <1>3, <1>7, <1>8, <1>9, <1>10

\* Sealing extends the record that the call has read; unsealing makes one of its own, with
\* a prekey the call still holds.
LEMMA SealedOpAnswers ==
  ASSUME SealedTableInv, UnsealedInv, NEW t \in Calls, At(t, "runOp"), IsSealed(t), SealedOp(t).err = None
  PROVE  Answers(t, SealedOp(t))
<1>1. Running(t) /\ pc[t] = "runOp" /\ phase[t] # "idle"
  BY DEF At, Running
<1>2. /\ Kind(t) \in SealedKinds /\ Peer(t) \in Peers
      /\ Kind(t) = "sealedDecrypt" => Arg(t) \in SealedIncoming
  BY <1>1, CallKinds
<1>3. CASE Kind(t) = "sealedEncrypt"
  <2> DEFINE record == existingSession[t]
             pinned == remoteIdentity[t]
  <2>1. SealedOp(t) = EncryptOp(record, pinned, LocalIdentity)
    BY <1>3 DEF SealedOp
  <2>2. record = session[Peer(t)] /\ record # None
    BY <1>1, <1>3 DEF SealedTableInv, ReadInv, Sender
  <2>3. record \in SessionRecord /\ SealedFits(record)
    BY <1>2, <2>2 DEF SealedTableInv, RecordInv
  <2>4. AsPlain(t).kind = "encrypt"
    BY <1>1, <1>3, PlainKinds
  <2>. HIDE DEF pinned
  <2>5. /\ SealedOp(t).session \in SessionRecord /\ SealedFits(SealedOp(t).session)
        /\ SealedOp(t).consumed = None /\ Computed(SealedOp(t), AsPlain(t), record)
    BY <2>1, <2>3, <2>4, EncryptSealed
  <2>. QED
    BY <1>3, <2>5 DEF Answers
<1>4. CASE Kind(t) = "sealedDecrypt"
  <2> DEFINE m == Arg(t).msg
             st == NewState(m.ident, FALSE, m.ids)
             base == Install(None, m.sid, st)
             consumed == IF ReportsPreKey THEN m.ids.preKey ELSE None
             answer == SealedOp(t)
  <2>1. preKeysBlob[t] = preKeys
    BY <1>1, <1>4 DEF UnsealedInv, UnsealInv, Unseals
  <2>2. Failure("rejected").err # None
    BY SealedAssumption DEF Failure
  <2>3. /\ CanBuild(m, preKeys, signedPreKeysBlob[t], kyberBlob[t])
        /\ answer = DecryptWith(base, m, consumed, m.ids.kyber)
    BY <1>4, <2>1, <2>2 DEF SealedOp, SealedDecryptOp
  <2>4. m.type = "preKeySignal" /\ m.ids.preKey \in preKeys \cup {None}
    BY <2>3 DEF CanBuild
  <2>5. /\ m \in CiphertextMessage /\ m.sid \in Sids
        /\ m.ids \in BundleIds /\ m.ident \in Identities
    BY <1>2, <1>4, <2>4, SealedAssumption DEF CiphertextMessage
  <2>6. st \in SessionState /\ st.ids = m.ids
    BY <2>5 DEF NewState, SessionState
  <2>7. consumed \in PreKeys \cup {None} /\ m.ids.kyber \in Kybers \cup {None}
    BY <2>5 DEF BundleIds
  <2>8. \A j \in Incoming \cup SealedIncoming : j.msg.type = "preKeySignal" /\ j.msg.sid = m.sid =>
          m.ids = j.msg.ids
    BY <1>2, <1>4, <2>4, SealedAssumption
  <2>9. SealedFits(None)
    BY DEF SealedFits, Has
  <2>. HIDE DEF st
  <2>10. /\ base \in SessionRecord /\ base.states[m.sid] = st
         /\ \A s \in Sids : s # m.sid => base.states[s] = None
    <3>1. None \in SessionRecord \cup {None} /\ m.sid \in Sids /\ st \in SessionState
      BY <2>5, <2>6
    <3> DEFINE sid == m.sid
    <3>. HIDE DEF sid
    <3>2. /\ Install(None, sid, st) \in SessionRecord /\ Install(None, sid, st).states[sid] = st
          /\ \A s \in Sids : s # sid => Install(None, sid, st).states[s] = IF None = None THEN None ELSE None.states[s]
      BY <3>1, InstallType DEF sid
    <3>. QED
      BY <3>2 DEF sid
  <2>11. SealedFits(base)
    BY <2>5, <2>6, <2>8, <2>9, InstallSealedFits
  <2>12. Has(base, m.sid)
    BY <2>6, <2>10, NoneAssumption DEF Has
  <2>. HIDE DEF base, consumed, answer
  <2>13. /\ answer.session \in SessionRecord
         /\ Has(answer.session, m.sid)
    BY <2>3, <2>5, <2>7, <2>10, <2>12, DecryptWithComputes DEF answer
  <2>14. /\ SealedFits(answer.session) /\ answer.consumed = consumed
         /\ \A s \in Sids : s # m.sid => answer.session.states[s] = base.states[s]
    BY <2>3, <2>5, <2>10, <2>11, <2>12, DecryptWithSealedFits DEF answer
  <2>15. \A s \in Sids : Has(answer.session, s) => s = m.sid
    BY <2>10, <2>14 DEF Has
  <2>16. BuiltIn(answer.session, m.ids.preKey)
    BY <1>2, <1>4, <2>4, <2>13, <2>14, BuiltByHandshake
  <2>17. answer.consumed # None => BuiltIn(answer.session, answer.consumed)
    BY <2>14, <2>16 DEF consumed
  <2>. QED
    BY <1>4, <2>4, <2>13, <2>14, <2>15, <2>17 DEF Answers, answer
<1>. QED
  BY <1>2, <1>3, <1>4

\* The native operation answers with what the call is to store.
LEMMA RunOpSealed ==
  ASSUME SealedTableInv, UnsealedInv, QueueTypeOK, MutualExclusion, NEW t \in Calls,
         \/ ~IsSealed(t) /\ RunOp(t)
         \/ IsSealed(t) /\ RunSealedOp(t)
  PROVE  SealedTableInv'
<1>1. PICK answer :
        \/ Throw(t, answer.err)
        \/ /\ At(t, "runOp") /\ Answers(t, answer)
           /\ result' = [result EXCEPT ![t] = answer]
           /\ pc' = [pc EXCEPT ![t] = "storeSession"]
           /\ UNCHANGED <<phase, request, session, preKeys, existingSession>>
  <2>1. CASE ~IsSealed(t) /\ RunOp(t)
    <3>1. CASE Op(t).err # None
      BY <2>1, <3>1 DEF RunOp
    <3>2. CASE Op(t).err = None
      <4>1. /\ At(t, "runOp")
            /\ result' = [result EXCEPT ![t] = Op(t)] /\ pc' = [pc EXCEPT ![t] = "storeSession"]
            /\ UNCHANGED <<phase, request, session, preKeys, existingSession>>
        BY <2>1, <3>2 DEF RunOp, Goto, queueVars, tables
      <4>2. Answers(t, Op(t))
        BY <2>1, <3>2, <4>1, PlainOpAnswers
      <4>. QED
        BY <4>1, <4>2
    <3>. QED  BY <3>1, <3>2
  <2>2. CASE IsSealed(t) /\ RunSealedOp(t)
    <3>1. CASE SealedOp(t).err # None
      BY <2>2, <3>1 DEF RunSealedOp
    <3>2. CASE SealedOp(t).err = None
      <4>1. /\ At(t, "runOp")
            /\ result' = [result EXCEPT ![t] = SealedOp(t)] /\ pc' = [pc EXCEPT ![t] = "storeSession"]
            /\ UNCHANGED <<phase, request, session, preKeys, existingSession>>
        BY <2>2, <3>2 DEF RunSealedOp, Goto, queueVars, tables
      <4>2. Answers(t, SealedOp(t))
        BY <2>2, <3>2, <4>1, SealedOpAnswers
      <4>. QED
        BY <4>1, <4>2
    <3>. QED  BY <3>1, <3>2
  <2>. QED  BY <2>1, <2>2
<1>2. CASE Throw(t, answer.err)
  BY <1>2, ThrowSealed
<1>3. CASE ~Throw(t, answer.err)
  <2>1. /\ At(t, "runOp") /\ Answers(t, answer)
        /\ result' = [result EXCEPT ![t] = answer]
        /\ pc' = [pc EXCEPT ![t] = "storeSession"]
        /\ UNCHANGED <<phase, request, session, preKeys, existingSession>>
    BY <1>1, <1>3
  <2>2. Running(t) /\ pc[t] = "runOp" /\ ~Done(t) /\ Unstored(t) /\ result'[t] = answer
    BY <2>1 DEF At, Running, Done, Unstored, UnsealedInv
  <2>3. /\ Kind(t) \notin SealedKinds => LabelInv(t)
        /\ ReadInv(t) /\ Kind(t) # "publishOneTimePreKey"
    BY <2>2, CallKinds DEF LabelInv, SealedTableInv
  <2>4. Kind(t) # "sealedDecrypt" =>
          existingSession[t] = session[Peer(t)] /\ (Sender(t) => existingSession[t] # None)
    BY <2>2, <2>3 DEF ReadInv
  <2>5. /\ existingSession' = existingSession /\ preKeys' = preKeys /\ existingSession'[t] = existingSession[t]
        /\ result' = result \/ \E a : result' = [result EXCEPT ![t] = a]
    BY <2>1
  <2>6. /\ answer.session \in SessionRecord /\ SealedFits(answer.session)
        /\ answer.consumed # None => BuiltIn(answer.session, answer.consumed)
        /\ Kind(t) # "sealedDecrypt" => Computed(answer, AsPlain(t), existingSession[t])
        /\ Kind(t) = "sealedDecrypt" =>
             /\ Arg(t).msg.ids.preKey \in preKeys \cup {None}
             /\ \A s \in Sids : Has(answer.session, s) => s = Arg(t).msg.sid
    BY <2>1 DEF Answers
  <2>. QED
    BY <2>1, <2>2, <2>3, <2>4, <2>5, <2>6, InnerSealed
<1>. QED  BY <1>2, <1>3

\* The writes but the one of the session: a prekey is removed when the session built on it
\* is stored, and stays where it was published until then.
LEMMA WriteSealed ==
  ASSUME SealedTableInv, UnsealedInv, QueueTypeOK, MutualExclusion, NEW t \in Calls, Write(t), ~StoreSession(t)
  PROVE  SealedTableInv'
<1>1. /\ Running(t) /\ pc[t] \in Writes /\ UNCHANGED <<phase, request, session, result, existingSession>>
      /\ pc[t] # "storeSession"
  BY DEF Write, RemovePreKey, MarkKyberPreKeyUsed, SaveIdentity, StorePreKey,
         StoreSignedPreKey, StoreKyberPreKey, At, Running, queueVars, locals
<1>2. /\ AfterKyber(t) \in {"saveIdentity", "return"}
      /\ AfterPreKey(t) \in {"markKyberPreKeyUsed", "saveIdentity", "return"}
  BY DEF AfterKyber, AfterPreKey
<1>3. KindInv(t) /\ ReadInv(t) /\ AnswerInv(t)
  BY DEF SealedTableInv
<1>4. /\ Kind(t) \notin SealedKinds => LabelInv(t)
      /\ Kind(t) = "sealedDecrypt" => pc[t] \in Unsealing
      /\ Kind(t) = "sealedEncrypt" => pc[t] \in {"return"} \cup Cleanup
  <2>1. phase[t] # "idle"
    BY <1>1 DEF Running
  <2>. QED
    BY <1>1, <1>3, <2>1, CallKinds DEF KindInv
<1>5. /\ result' = result /\ existingSession' = existingSession
      /\ UNCHANGED <<phase, request, session>>
  BY <1>1
<1>6. ASSUME NEW label \in {"markKyberPreKeyUsed", "saveIdentity", "return"}, pc' = [pc EXCEPT ![t] = label],
             pc[t] \in Cleanup,
             \A k \in PreKeys : Id[k] \notin Ids(preKeys)' => Id[k] \notin Ids(preKeys) \/ BuiltAs(Id[k])
      PROVE  SealedTableInv'
  <2>1. Kind(t) # "publishOneTimePreKey" /\ Done(t)
    BY <1>1, <1>4, <1>6 DEF LabelInv, Done
  <2>. QED
    BY <1>1, <1>5, <1>6, <2>1, InnerSealed
<1>7. CASE RemovePreKey(t)
  <2>1. /\ pc[t] = "removePreKey" /\ pc' = [pc EXCEPT ![t] = AfterPreKey(t)]
        /\ preKeys' = {k \in preKeys : Id[k] # Id[result[t].consumed]}
    BY <1>7 DEF RemovePreKey, DeleteRow, At, Goto
  <2>2. BuiltAs(Id[result[t].consumed])
    BY <1>1, <1>3, <2>1 DEF AnswerInv, BuiltAs
  <2>3. \A k \in PreKeys : Id[k] \notin Ids(preKeys)' => Id[k] \notin Ids(preKeys) \/ BuiltAs(Id[k])
    BY <2>1, <2>2 DEF Ids
  <2>. QED
    BY <1>2, <1>6, <2>1, <2>3
<1>8. CASE MarkKyberPreKeyUsed(t) \/ SaveIdentity(t)
  <2>1. /\ pc[t] \in {"markKyberPreKeyUsed", "saveIdentity"} /\ preKeys' = preKeys
        /\ pc' = [pc EXCEPT ![t] = AfterKyber(t)] \/ pc' = [pc EXCEPT ![t] = "return"]
    BY <1>8 DEF MarkKyberPreKeyUsed, SaveIdentity, At, Goto
  <2>. QED
    BY <1>2, <1>6, <2>1 DEF Ids
<1>9. ASSUME NEW label \in {"storeSignedPreKey", "storeKyberPreKey", "return"},
             pc' = [pc EXCEPT ![t] = label], Ids(preKeys) \subseteq Ids(preKeys)', Arg(t).preKey \in preKeys',
             pc[t] \in Publishing, label = "return" <=> pc[t] = "storeKyberPreKey"
      PROVE  SealedTableInv'
  <2>1. Kind(t) = "publishOneTimePreKey"
    BY <1>1, <1>4, <1>9 DEF LabelInv, Unsealing
  <2>2. ~Done(t)
    BY <1>9, <1>1 DEF Done, Running
  <2>. QED
    BY <1>1, <1>5, <1>9, <2>1, <2>2, InnerSealed
<1>10. CASE StorePreKey(t)
  <2>1. /\ pc[t] = "storePreKey" /\ pc' = [pc EXCEPT ![t] = "storeSignedPreKey"]
        /\ preKeys' = {k \in preKeys : Id[k] # Id[Arg(t).preKey]} \cup {Arg(t).preKey}
    BY <1>10 DEF StorePreKey, Upsert, DeleteRow, At, Goto
  <2>2. Ids(preKeys) \subseteq Ids(preKeys)'
    BY <2>1 DEF Ids
  <2>. QED
    BY <1>9, <2>1, <2>2
<1>11. CASE StoreSignedPreKey(t) \/ StoreKyberPreKey(t)
  <2>1. /\ \/ pc[t] = "storeSignedPreKey" /\ pc' = [pc EXCEPT ![t] = "storeKyberPreKey"]
           \/ pc[t] = "storeKyberPreKey" /\ pc' = [pc EXCEPT ![t] = "return"]
        /\ preKeys' = preKeys
    BY <1>11 DEF StoreSignedPreKey, StoreKyberPreKey, At, Goto
  <2>2. Kind(t) = "publishOneTimePreKey"
    BY <1>1, <1>4, <2>1 DEF LabelInv, Unsealing
  <2>3. Arg(t).preKey \in preKeys'
    BY <1>1, <1>3, <2>1, <2>2 DEF ReadInv
  <2>. QED
    BY <1>9, <2>1, <2>3 DEF Ids
<1>. QED
  BY <1>7, <1>8, <1>10, <1>11 DEF Write

\* A call that returns has stored what it had to; a bundle that leaves has its prekey.
LEMMA ReturnSealed ==
  ASSUME SealedTableInv, UnsealedInv, QueueTypeOK, MutualExclusion, NEW t \in Calls, Return(t)
  PROVE  SealedTableInv'
<1>1. /\ Running(t) /\ pc[t] = "return" /\ phase[t] = "running"
      /\ phase' = [phase EXCEPT ![t] = "fulfilled"]
      /\ UNCHANGED <<request, pc, result, session, preKeys, existingSession>>
  BY DEF Return, At, SettleFn, Running, tables, volatile, locals
<1>2. Apart(t) /\ phase'[t] = "fulfilled"
  BY <1>1 DEF Apart, QueueTypeOK
<1>3. /\ ~Running(t)' /\ ~Unstored(t)' /\ Done(t) /\ Kind(t)' = Kind(t)
      /\ phase[t] # "idle" /\ phase'[t] # "idle"
  BY <1>1, <1>2 DEF Running, Unstored, Done, Kind
<1>4. KindInv(t)' /\ ReadInv(t)' /\ AnswerInv(t)'
  <2>1. KindInv(t)
    BY DEF SealedTableInv
  <2>2. ReadInv(t)' /\ AnswerInv(t)'
    BY <1>2, <1>3 DEF ReadInv, AnswerInv
  <2>. QED
    BY <1>1, <1>3, <2>1, <2>2 DEF KindInv, RequestInv, LabelInv, Peer, Arg, Kind
<1>5. \A b \in Offered' \ Offered : b.preKey \in preKeys'
  <2>. SUFFICES ASSUME NEW b \in Offered', b \notin Offered PROVE b.preKey \in preKeys
    BY <1>1
  <2>1. PICK u \in Calls : Fulfilled(u, "publishOneTimePreKey")' /\ b = request[u].arg /\ b \notin Published
    BY <1>1 DEF Offered
  <2>2. u = t
    BY <1>2, <2>1 DEF Offered, Fulfilled, Apart
  <2>3. Kind(t) = "publishOneTimePreKey" /\ b = Arg(t)
    BY <1>1, <2>1, <2>2 DEF Fulfilled, Kind, Arg
  <2>4. ReadInv(t)
    BY DEF SealedTableInv
  <2>. QED
    BY <1>1, <2>3, <2>4 DEF ReadInv
<1>6. (\A id : BuiltAs(id)' = BuiltAs(id)) /\ Ids(preKeys)' = Ids(preKeys)
  BY <1>1 DEF BuiltAs, Built, Ids, tables
<1>7. PreKeyOutlivesSealed'
  BY <1>1, <1>2, <1>5, <1>6, GoneStays
<1>8. DOMAIN existingSession' = Calls
  BY <1>1 DEF SealedTableInv
<1>. QED
  BY <1>1, <1>2, <1>3, <1>4, <1>7, <1>8, QuietSealed

\* The write of the session.  A plain call extends the record of its peer; a sealed
\* decryption replaces it, and the sessions this device started are then gone for good.
LEMMA StoreSessionSealed ==
  ASSUME SealedTableInv, UnsealedInv, QueueTypeOK, MutualExclusion, NEW t \in Calls, StoreSession(t)
  PROVE  SealedTableInv'
<1> DEFINE p == Peer(t)
           old == session[p]
           new == result[t].session
           sealed == Kind(t) = "sealedDecrypt"
<1>1. /\ Running(t) /\ pc[t] = "storeSession" /\ phase[t] = "running"
      /\ session' = [session EXCEPT ![p] = new]
      /\ pc' = [pc EXCEPT ![t] = AfterSession(t)]
      /\ UNCHANGED <<phase, preKeys, request, result, existingSession>>
  BY DEF StoreSession, At, Goto, Running, queueVars, locals
<1>2. /\ AfterSession(t) \in {"return"} \cup Cleanup
      /\ AfterSession(t) = "removePreKey" => result[t].consumed # None
  BY DEF AfterSession, AfterPreKey, AfterKyber
<1>3. /\ Apart(t) /\ pc'[t] = AfterSession(t) /\ phase[t] # "idle" /\ ~Done(t) /\ Done(t)'
      /\ ~Unstored(t)' /\ Unstored(t) /\ Running(t)'
  <2>1. Apart(t) /\ pc'[t] = AfterSession(t)
    BY <1>1 DEF Apart, UnsealedInv
  <2>. QED
    BY <1>1, <1>2, <2>1 DEF Done, Unstored, Running
<1>4. \A u \in Calls : /\ Kind(u)' = Kind(u) /\ Arg(u)' = Arg(u) /\ Peer(u)' = Peer(u)
                       /\ Sender(u)' = Sender(u) /\ result'[u] = result[u] /\ phase'[u] = phase[u]
  BY <1>1 DEF Kind, Arg, Peer, Sender
<1>5. /\ KindInv(t) /\ ReadInv(t) /\ AnswerInv(t) /\ RecordInv /\ StartInv
      /\ \A u \in Calls : SentInv(u)
  BY DEF SealedTableInv
<1>6. /\ Kind(t) \notin SealedKinds => RequestInv(t) /\ LabelInv(t)
      /\ Kind(t) # "publishOneTimePreKey" /\ p \in Peers
      /\ sealed => Arg(t) \in SealedIncoming
      /\ request[t] # None /\ (IsSealed(t) <=> Kind(t) \in SealedKinds)
  <2>1. Kind(t) # "publishOneTimePreKey"
    BY <1>1, CallKinds DEF LabelInv
  <2>. QED
    BY <1>1, <2>1, CallKinds
<1>7. /\ new \in SessionRecord /\ SealedFits(new)
      /\ result[t].consumed # None => BuiltIn(new, result[t].consumed)
      /\ ~sealed => Computed(result[t], AsPlain(t), old)
      /\ sealed => /\ Arg(t).msg.ids.preKey \in preKeys \cup {None}
                   /\ \A s \in Sids : Has(new, s) => s = Arg(t).msg.sid
  BY <1>1, <1>5 DEF AnswerInv, ReadInv
<1>8. sealed => Arg(t).msg.sid \in Started /\ Arg(t).msg.type = "preKeySignal"
  <2>1. sealed => Arg(t).msg.type = "preKeySignal"
    BY <1>1, <1>3 DEF UnsealedInv, UnsealInv, Unseals, Opened
  <2>. QED
    BY <1>6, <2>1 DEF Started
<1>9. DOMAIN session = Peers /\ old \in SessionRecord \cup {None} /\ SealedFits(old) /\ session'[p] = new
      /\ \A q \in Peers : q # p => session'[q] = session[q]
  BY <1>1, <1>5, <1>6 DEF RecordInv
\* Where the sessions of the new record come from.
<1>10. \A s \in Sids : Has(new, s) =>
         \/ s \in Started
         \/ ~sealed /\ Has(old, s)
         \/ Kind(t) = "processPreKeyBundle" /\ s = Arg(t).sid
  <2>. SUFFICES ASSUME NEW s \in Sids, Has(new, s), s \notin Started, ~sealed, ~Has(old, s)
                PROVE  Kind(t) = "processPreKeyBundle" /\ s = Arg(t).sid
    BY <1>7, <1>8
  <2>1. AsPlain(t).kind \in {"processPreKeyBundle", "decryptPreKeySignal"} /\ s = AsPlain(t).arg.sid
    BY <1>7 DEF Computed
  <2>2. Kind(t) # "sealedEncrypt"
    BY <1>1, <2>1, PlainKinds
  <2>3. AsPlain(t) = request[t]
    BY <1>1, <2>2, PlainKinds
  <2>4. Kind(t) \in {"processPreKeyBundle", "decryptPreKeySignal"} /\ s = Arg(t).sid
    BY <2>1, <2>3 DEF Kind, Arg
  <2>5. ASSUME Kind(t) = "decryptPreKeySignal" PROVE FALSE
    <3>1. [from |-> Peer(t), msg |-> Arg(t)] \in Incoming /\ Arg(t).type # "signal"
      BY <1>3, <1>6, <2>5 DEF RequestInv
    <3>2. Arg(t).type = "preKeySignal"
      BY <3>1, ClientAssumption DEF CiphertextMessage
    <3>. QED
      BY <2>4, <3>1, <3>2 DEF Started
  <2>. QED
    BY <2>4, <2>5
\* The session a bundle starts.
<1>11. Kind(t) = "processPreKeyBundle" => /\ Arg(t) \in Bundles /\ Arg(t).peer = p
                                          /\ ToStart(Arg(t))
  <2>. SUFFICES ASSUME Kind(t) = "processPreKeyBundle"
                PROVE  Arg(t) \in Bundles /\ Arg(t).peer = p /\ ToStart(Arg(t))
    OBVIOUS
  <2>1. RequestInv(t)
    BY <1>6
  <2>2. Arg(t) \in Bundles /\ Arg(t).peer = p
    BY <1>3, <2>1, RequestTypes DEF RequestInv
  <2>. QED
    BY <1>3, <2>2 DEF ToStart
\* What an encryption took its key from.
<1>12. Sender(t) => /\ ~sealed /\ result[t].msg \in CiphertextMessage
                    /\ result[t].msg.sid \in Sids
                    /\ Has(old, result[t].msg.sid)
                    /\ old.states[result[t].msg.sid].sent = result[t].msg.ctr
                    /\ result[t].msg.ctr < new.states[result[t].msg.sid].sent
  <2>. SUFFICES ASSUME Sender(t)
                PROVE  /\ ~sealed /\ result[t].msg \in CiphertextMessage
                       /\ Has(old, result[t].msg.sid)
                       /\ old.states[result[t].msg.sid].sent = result[t].msg.ctr
                       /\ result[t].msg.ctr < new.states[result[t].msg.sid].sent
    BY DEF CiphertextMessage
  <2>1. Kind(t) \in {"encrypt", "sealedEncrypt"}
    BY DEF Sender
  <2>2. AsPlain(t).kind = "encrypt"
    BY <1>1, <2>1, PlainKinds
  <2>. QED
    BY <1>7, <2>1, <2>2 DEF Computed
<1>. HIDE DEF p, old, new, sealed
<1>13. RecordInv'
  <2>1. SealedFits(session'[p])
    BY <1>7, <1>9
  <2>2. \A s \in Sids : Has(session'[p], s) => s \in Started \/ Own(p, s)
    <3>. SUFFICES ASSUME NEW s \in Sids, Has(new, s), s \notin Started PROVE Own(p, s)
      BY <1>9
    <3>1. CASE Has(old, s)
      BY <1>5, <1>6, <3>1 DEF RecordInv, old
    <3>2. CASE Kind(t) = "processPreKeyBundle" /\ s = Arg(t).sid
      BY <1>11, <3>2 DEF Own
    <3>. QED
      BY <1>10, <3>1, <3>2
  <2>3. session' \in [Peers -> SessionRecord \cup {None}]
    BY <1>1, <1>5, <1>7 DEF RecordInv
  <2>. QED
    BY <1>5, <1>9, <2>1, <2>2, <2>3 DEF RecordInv
<1>14. KindInv(t)' /\ ReadInv(t)' /\ AnswerInv(t)'
  <2>1. KindInv(t)'
    <3>1. CASE Kind(t) \in SealedKinds
      BY <1>1, <1>2, <1>3, <1>4, <1>5, <3>1 DEF KindInv
    <3>2. CASE Kind(t) \notin SealedKinds
      <4>1. RequestInv(t)'
        BY <1>1, <1>3, <1>4, <1>6, <3>2 DEF RequestInv
      <4>2. LabelInv(t)'
        BY <1>2, <1>3, <1>4, <1>6 DEF LabelInv
      <4>. QED
        BY <1>3, <1>4, <3>2, <4>1, <4>2 DEF KindInv
    <3>. QED  BY <3>1, <3>2
  <2>2. ReadInv(t)'
    BY <1>1, <1>2, <1>3, <1>4, <1>6 DEF ReadInv
  <2>3. ASSUME pc'[t] = "removePreKey"
        PROVE  result[t].consumed \in PreKeys /\ Built(result[t].consumed)'
    <3>1. result[t].consumed # None /\ BuiltIn(new, result[t].consumed)
      BY <1>2, <1>3, <1>7, <2>3
    <3>2. Built(result[t].consumed)'
      BY <1>1, <1>6, <1>9, <3>1 DEF Built
    <3>3. PICK s \in Started : Has(new, s) /\ new.states[s].ids.preKey = result[t].consumed
      BY <3>1 DEF BuiltIn
    <3>4. new.states[s] \in SessionState
      BY <1>7, <3>3, StartedIsSid DEF SessionRecord, Has
    <3>. QED
      BY <3>1, <3>2, <3>3, <3>4 DEF SessionState, BundleIds
  <2>4. AnswerInv(t)'
    BY <1>1, <1>2, <1>3, <1>4, <2>3 DEF AnswerInv
  <2>. QED  BY <2>1, <2>2, <2>4
<1>15. \A u \in Calls : u # t =>
         /\ KindInv(u)' /\ ReadInv(u)' /\ AnswerInv(u)'
         /\ Done(u)' = Done(u) /\ Unstored(u)' = Unstored(u)
  BY <1>1, <1>3, OthersStaySealed
<1>16. PreKeyOutlivesSealed'
  <2>1. Offered' = Offered
    BY <1>1 DEF Offered, Fulfilled
  <2>2. ASSUME NEW b \in OwnIds, NEW k \in PreKeys, Id[k] = Id[b.preKey],
               Id[b.preKey] \notin Ids(preKeys), Built(k)
        PROVE  Built(k)' \/ Overwritten(b.preKey)'
    <3>1. PICK q \in Peers : BuiltIn(session[q], k)
      BY <2>2 DEF Built
    <3>2. CASE q # p
      BY <1>9, <3>1, <3>2 DEF Built
    <3>3. CASE q = p /\ ~sealed
      <4>1. PICK s \in Started : Has(old, s) /\ old.states[s].ids.preKey = k
        BY <3>1, <3>3 DEF BuiltIn, old
      <4>2. PICK i \in Incoming \cup SealedIncoming : i.msg.type = "preKeySignal" /\ i.msg.sid = s
        BY DEF Started
      <4>3. s \in Sids
        BY <4>2, ClientAssumption, SealedAssumption DEF CiphertextMessage
      <4>4. Has(new, s)
        BY <1>7, <3>3, <4>1, <4>3 DEF Computed, Extends, Has, new
      <4>5. new.states[s].ids = i.msg.ids /\ old.states[s].ids = i.msg.ids
        BY <1>7, <1>9, <4>1, <4>2, <4>4 DEF SealedFits
      <4>6. BuiltIn(new, k)
        BY <4>1, <4>4, <4>5 DEF BuiltIn
      <4>. QED
        BY <1>6, <1>9, <4>6 DEF Built
    <3>4. CASE sealed
      <4>1. Arg(t).msg.ids.preKey # b.preKey
        BY <1>7, <2>2, <3>4, ClientAssumption DEF Ids
      <4>2. IsSealed(t)' /\ Kind(t)' = "sealedDecrypt" /\ pc'[t] \in Cleanup \cup {"return"}
        BY <1>1, <1>2, <1>3, <1>4, <1>6, <3>4 DEF IsSealed, sealed
      <4>. QED
        BY <1>4, <4>1, <4>2 DEF Overwritten
    <3>. QED  BY <3>2, <3>3, <3>4
  <2>3. pc[t] \in Cleanup \cup {"return"} => pc'[t] \in Cleanup \cup {"return"}
    BY <1>1
  <2>4. \A b \in OwnIds : Id[b.preKey] \notin Ids(preKeys) /\ BuiltAs(Id[b.preKey]) =>
          BuiltAs(Id[b.preKey])' \/ Overwritten(b.preKey)'
    BY <2>2 DEF BuiltAs
  <2>5. Ids(preKeys)' = Ids(preKeys)
    BY <1>1 DEF Ids
  <2>. QED
    BY <1>1, <1>3, <2>1, <2>3, <2>4, <2>5, GoneStays
<1>17. \A u \in Calls : SentInv(u)'
  <2>1. ASSUME NEW u \in Calls, Done(u)', Sender(u), result[u].msg.sid \notin Started
        PROVE  /\ result[u].msg \in CiphertextMessage
               /\ Own(Peer(u), result[u].msg.sid)
               /\ Has(session'[Peer(u)], result[u].msg.sid) =>
                    result[u].msg.ctr < session'[Peer(u)].states[result[u].msg.sid].sent
    <3>1. CASE u = t
      <4>1. Own(p, result[t].msg.sid)
        BY <1>5, <1>6, <1>12, <2>1, <3>1 DEF RecordInv, old
      <4>. QED
        BY <1>9, <1>12, <2>1, <3>1, <4>1 DEF p
    <3>2. CASE u # t
      <4> DEFINE s == result[u].msg.sid
                 c == result[u].msg.ctr
      <4>1. /\ Done(u) /\ result[u].msg \in CiphertextMessage /\ Own(Peer(u), s)
            /\ Has(session[Peer(u)], s) => c < session[Peer(u)].states[s].sent
        BY <1>5, <1>15, <2>1, <3>2 DEF SentInv
      <4>2. s \in Sids /\ c \in Nat /\ Peer(u) \in Peers
        BY <4>1, ClientAssumption DEF CiphertextMessage, Own
      <4>3. CASE Peer(u) # p
        BY <1>9, <4>1, <4>2, <4>3
      <4>4. CASE Peer(u) = p
        <5>. SUFFICES ASSUME Has(new, s) PROVE c < new.states[s].sent
          BY <1>9, <4>1, <4>4
        <5>1. ~(Kind(t) = "processPreKeyBundle" /\ s = Arg(t).sid)
          BY <1>5, <1>11, <2>1, <4>1 DEF StartInv
        <5>2. ~sealed /\ Has(old, s)
          BY <1>10, <2>1, <4>2, <5>1
        <5>3. c < old.states[s].sent
          BY <4>1, <4>4, <5>2 DEF old
        <5>4. old.states[s].sent \in Nat /\ new.states[s].sent \in Nat
          BY <1>7, <1>9, <4>2, <5>2 DEF Has, SessionRecord, SessionState
        <5>5. new.states[s].sent >= old.states[s].sent
          BY <1>7, <4>2, <5>2 DEF Computed, Extends, Has, new
        <5>. QED
          BY <4>2, <5>3, <5>4, <5>5
      <4>. QED  BY <4>1, <4>3, <4>4
    <3>. QED  BY <3>1, <3>2
  <2>. QED
    BY <1>4, <2>1 DEF SentInv
<1>18. StartInv'
  <2>1. ASSUME NEW b \in Bundles, ToStart(b)'
        PROVE  ToStart(b) /\ ~(Kind(t) = "processPreKeyBundle" /\ Arg(t) = b)
    <3>1. CASE FreshBundle(b)'
      BY <1>1, <1>6, <3>1 DEF FreshBundle, ToStart, Arg
    <3>2. CASE ~FreshBundle(b)'
      <4>1. PICK u \in Calls : Unstored(u)' /\ Kind(u) = "processPreKeyBundle" /\ Arg(u) = b
        BY <1>4, <2>1, <3>2 DEF ToStart
      <4>2. u # t /\ Unstored(u)
        BY <1>3, <1>15, <4>1
      <4>3. phase[u] # "idle"
        BY <4>2 DEF Unstored, Running
      <4>. QED
        BY <1>3, <1>5, <4>1, <4>2, <4>3 DEF StartInv, ToStart
    <3>. QED  BY <3>1, <3>2
  <2>2. ASSUME NEW b \in Bundles, ToStart(b)', NEW q \in Peers PROVE ~Has(session'[q], b.sid)
    <3>1. ToStart(b) /\ ~Has(session[q], b.sid)
      BY <1>5, <2>1, <2>2 DEF StartInv
    <3>2. CASE q # p
      BY <1>9, <3>1, <3>2
    <3>3. CASE q = p
      <4>1. b.sid \in Sids /\ b.sid \notin Started
        BY ClientAssumption, SealedAssumption DEF Started
      <4>2. ASSUME Has(new, b.sid) PROVE FALSE
        <5>1. Kind(t) = "processPreKeyBundle" /\ b.sid = Arg(t).sid
          BY <1>10, <3>1, <3>3, <4>1, <4>2 DEF old
        <5>2. Arg(t) = b
          BY <1>11, <5>1, ClientAssumption
        <5>. QED
          BY <2>1, <2>2, <5>1, <5>2
      <4>. QED
        BY <1>9, <3>3, <4>2
    <3>. QED  BY <3>2, <3>3
  <2>3. ASSUME NEW b \in Bundles, ToStart(b)', NEW u \in Calls, Done(u)', Sender(u)
        PROVE  result[u].msg.sid # b.sid
    <3>1. ToStart(b) /\ ~Has(old, b.sid)
      BY <1>5, <1>6, <2>1, <2>3 DEF StartInv, old
    <3>2. CASE u = t
      BY <1>12, <2>3, <3>1, <3>2
    <3>3. CASE u # t
      BY <1>5, <1>15, <2>3, <3>1, <3>3 DEF StartInv
    <3>. QED  BY <3>2, <3>3
  <2>. QED
    BY <1>4, <1>5, <2>2, <2>3 DEF StartInv
<1>19. SentOnce'
  <2>1. ASSUME NEW u \in Calls, u # t, Done(u), Sender(u), Sender(t), SameKey(t, u),
               result[t].msg.sid \notin Started
        PROVE  FALSE
    <3> DEFINE s == result[t].msg.sid
    <3>1. s = result[u].msg.sid /\ result[t].msg.ctr = result[u].msg.ctr
      BY <2>1 DEF SameKey
    <3>2. /\ Own(Peer(u), s)
          /\ Has(session[Peer(u)], s) => result[u].msg.ctr < session[Peer(u)].states[s].sent
          /\ result[u].msg.ctr \in Nat
      BY <1>5, <2>1, <3>1 DEF SentInv, CiphertextMessage
    <3>3. Own(p, s)
      BY <1>5, <1>6, <1>12, <2>1 DEF RecordInv, old
    <3>4. Peer(u) = p
      BY <3>2, <3>3, ClientAssumption DEF Own
    <3>5. result[u].msg.ctr < result[t].msg.ctr
      BY <1>12, <2>1, <3>2, <3>4 DEF old
    <3>. QED
      BY <3>1, <3>2, <3>5
  <2>2. ASSUME NEW v \in Calls, NEW u \in Calls, v # u, Done(v)', Sender(v), Done(u)', Sender(u), SameKey(v, u)
        PROVE  result[v].msg.sid \in Started
    <3>1. CASE v = t
      BY <1>15, <2>1, <2>2, <3>1
    <3>2. CASE u = t
      <4>1. SameKey(u, v) /\ result[u].msg.sid = result[v].msg.sid
        BY <2>2 DEF SameKey
      <4>. QED
        BY <1>15, <2>1, <2>2, <3>2, <4>1
    <3>3. CASE v # t /\ u # t
      BY <1>15, <2>2, <3>3 DEF SealedTableInv, SentOnce
    <3>. QED  BY <3>1, <3>2, <3>3
  <2>3. \A v, u \in Calls : SameKey(v, u)' = SameKey(v, u)
    BY <1>1 DEF SameKey
  <2>. QED
    BY <1>1, <1>4, <2>2, <2>3 DEF SentOnce
<1>20. DOMAIN existingSession' = Calls
  BY <1>1 DEF SealedTableInv
<1>. QED
  BY <1>13, <1>14, <1>15, <1>16, <1>17, <1>18, <1>19, <1>20 DEF SealedTableInv

-----------------------------------------------------------------------------
(* The steps of the environment, for the tables *)

\* A step that only stops calls, or none, leaves what is said of the tables.
LEMMA StopSealed ==
  ASSUME SealedTableInv, UNCHANGED <<session, preKeys, request, pc, result, existingSession>>,
         \A u \in Calls : \/ phase'[u] = phase[u]
                          \/ phase[u] \in {"queued", "running"} /\ phase'[u] = "lost"
  PROVE  SealedTableInv'
<1>1. \A u \in Calls :
        /\ Kind(u)' = Kind(u) /\ Arg(u)' = Arg(u) /\ Peer(u)' = Peer(u) /\ AsPlain(u)' = AsPlain(u)
        /\ (Running(u)' => Running(u)) /\ (Done(u)' => Done(u)) /\ (Unstored(u)' => Unstored(u))
        /\ (phase'[u] = "idle" <=> phase[u] = "idle")
        /\ (phase'[u] = "fulfilled" <=> phase[u] = "fulfilled")
        /\ (phase'[u] \in {"idle", "queued"} => phase[u] \in {"idle", "queued"})
  BY DEF Kind, Arg, Peer, AsPlain, Running, Done, Unstored
<1>2. \A u \in Calls : Sender(u)' = Sender(u) /\ IsSealed(u)' = IsSealed(u)
  BY <1>1 DEF Sender, IsSealed
<1>3. \A k : Built(k)' = Built(k)
  BY DEF Built
<1>4. ASSUME NEW u \in Calls PROVE KindInv(u)' /\ ReadInv(u)' /\ AnswerInv(u)' /\ SentInv(u)'
  <2>1. KindInv(u) /\ ReadInv(u) /\ AnswerInv(u) /\ SentInv(u)
    BY DEF SealedTableInv
  <2>2. KindInv(u)'
    BY <1>1, <2>1 DEF KindInv, RequestInv, LabelInv
  <2>3. ReadInv(u)'
    BY <1>1, <1>2, <2>1 DEF ReadInv
  <2>4. AnswerInv(u)'
    BY <1>1, <1>3, <2>1 DEF AnswerInv
  <2>5. SentInv(u)'
    BY <1>1, <1>2, <2>1 DEF SentInv
  <2>. QED  BY <2>2, <2>3, <2>4, <2>5
<1>5. RecordInv' /\ DOMAIN existingSession' = Calls
  BY DEF SealedTableInv, RecordInv
<1>6. \A b \in Bundles : ToStart(b)' => ToStart(b)
  BY <1>1 DEF ToStart, FreshBundle
<1>7. StartInv'
  BY <1>1, <1>2, <1>6 DEF SealedTableInv, StartInv
<1>8. SentOnce'
  BY <1>1, <1>2 DEF SealedTableInv, SentOnce, SameKey
<1>9. Offered' = Offered
  BY <1>1 DEF Offered, Fulfilled
<1>10. PreKeyOutlivesSealed'
  BY <1>1, <1>2, <1>3, <1>9 DEF SealedTableInv, PreKeyOutlivesSealed, BuiltAs
<1>. QED
  BY <1>4, <1>5, <1>7, <1>8, <1>10 DEF SealedTableInv

\* A new call reads and writes nothing yet, and a bundle is used by one.
LEMMA InvokeSealedTables ==
  ASSUME SealedTableInv, UnsealedInv, QueueTypeOK, MutualExclusion, NEW t \in Calls,
         Invoke(t) \/ InvokeSealed(t)
  PROVE  SealedTableInv'
<1>1. PICK r \in Requests \cup SealedRequests :
        /\ request' = [request EXCEPT ![t] = r]
        /\ r \in SealedRequests \/ (r \in Requests /\ Arrives(r))
  BY DEF Invoke, InvokeSealed
<1>2. /\ phase[t] = "idle" /\ phase' = [phase EXCEPT ![t] = "queued"]
      /\ UNCHANGED <<session, preKeys, pc, result, existingSession>>
  BY DEF Invoke, InvokeSealed, RunExclusive, tables, locals
<1>3. /\ phase'[t] = "queued" /\ request'[t] = r /\ r # None /\ request[t] = None
      /\ pc[t] = "start"
  <2>1. phase'[t] = "queued" /\ request'[t] = r /\ r # None
    BY <1>1, <1>2, RequestAssumption, SealedRequestAssumption DEF QueueTypeOK, UnsealedInv
  <2>2. request[t] = None /\ pc[t] = "start"
    BY <1>2 DEF UnsealedInv, UnsealInv, SealedTableInv, ReadInv
  <2>. QED  BY <2>1, <2>2
<1>4. Apart(t)
  BY <1>1, <1>2 DEF Apart, UnsealedInv
<1>5. /\ ~Running(t)' /\ ~Done(t)' /\ ~Done(t) /\ Kind(t)' = r.kind /\ Arg(t)' = r.arg /\ Peer(t)' = r.peer
  BY <1>2, <1>3 DEF Running, Done, Kind, Arg, Peer
<1>6. \A u \in Calls : u # t =>
        /\ KindInv(u)' /\ ReadInv(u)' /\ AnswerInv(u)'
        /\ Done(u)' = Done(u) /\ Sender(u)' = Sender(u) /\ Unstored(u)' = Unstored(u)
        /\ Kind(u)' = Kind(u) /\ Arg(u)' = Arg(u) /\ Peer(u)' = Peer(u)
        /\ phase'[u] = phase[u] /\ result'[u] = result[u] /\ request'[u] = request[u] /\ pc'[u] = pc[u]
  BY <1>2, <1>4, OthersStaySealed DEF Apart
<1>7. KindInv(t)' /\ ReadInv(t)' /\ AnswerInv(t)'
  <2>1. CASE r \in SealedRequests
    <3>1. r.kind \in SealedKinds
      BY <2>1 DEF SealedRequests
    <3>. QED
      BY <1>2, <1>3, <1>5, <2>1, <3>1 DEF KindInv, ReadInv, AnswerInv
  <2>2. CASE r \in Requests /\ Arrives(r)
    <3>1. r.kind \notin SealedKinds
      BY <2>2 DEF Requests
    <3>2. /\ r.kind = "processPreKeyBundle" => r.arg.peer = r.peer
          /\ r.kind \in Decrypts => /\ [from |-> r.peer, msg |-> r.arg] \in Incoming
                                    /\ r.kind = "decryptSignal" <=> r.arg.type = "signal"
      BY <2>2 DEF Arrives
    <3>3. RequestInv(t)' /\ LabelInv(t)'
      BY <1>3, <1>5, <2>2, <3>2 DEF RequestInv, LabelInv
    <3>. QED
      BY <1>2, <1>3, <1>5, <3>1, <3>3 DEF KindInv, ReadInv, AnswerInv
  <2>. QED  BY <1>1, <2>1, <2>2
<1>8. \A u \in Calls : Done(u)' => u # t
  BY <1>5
<1>9. \A u \in Calls : SentInv(u)'
  BY <1>2, <1>6, <1>8 DEF SealedTableInv, SentInv
<1>10. RecordInv' /\ DOMAIN existingSession' = Calls
  BY <1>2 DEF SealedTableInv, RecordInv
<1>11. r.kind = "processPreKeyBundle" => FreshBundle(r.arg)
  <2>1. r \in SealedRequests => r.kind # "processPreKeyBundle"
    BY DEF SealedRequests
  <2>. QED
    BY <1>1, <2>1 DEF Arrives
<1>12. ASSUME NEW b \in Bundles, ToStart(b)' PROVE ToStart(b)
  <2>1. CASE FreshBundle(b)'
    BY <1>3, <1>6, <2>1 DEF FreshBundle, ToStart
  <2>2. CASE ~FreshBundle(b)'
    <3>1. PICK u \in Calls : Unstored(u)' /\ Kind(u)' = "processPreKeyBundle" /\ Arg(u)' = b
      BY <1>12, <2>2 DEF ToStart
    <3>2. CASE u = t
      BY <1>5, <1>11, <3>1, <3>2 DEF ToStart
    <3>3. CASE u # t
      BY <1>6, <3>1, <3>3 DEF ToStart
    <3>. QED  BY <3>2, <3>3
  <2>. QED  BY <2>1, <2>2
<1>13. StartInv'
  <2>1. ASSUME NEW b \in Bundles, ToStart(b)'
        PROVE  /\ \A p \in Peers : ~Has(session'[p], b.sid)
               /\ \A u \in Calls : Done(u)' /\ Sender(u)' => result'[u].msg.sid # b.sid
    BY <1>2, <1>6, <1>8, <1>12, <2>1 DEF SealedTableInv, StartInv
  <2>2. ASSUME NEW u \in Calls, u # t, phase[u] # "idle", Kind(u) = "processPreKeyBundle",
               Kind(t)' = "processPreKeyBundle"
        PROVE  Arg(u) # Arg(t)'
    <3>1. request[u] # None
      BY <2>2 DEF UnsealedInv, UnsealInv
    <3>. QED
      BY <1>5, <1>11, <2>2, <3>1 DEF FreshBundle, Arg
  <2>3. ASSUME NEW u \in Calls, NEW v \in Calls,
               phase'[u] # "idle", Kind(u)' = "processPreKeyBundle",
               phase'[v] # "idle", Kind(v)' = "processPreKeyBundle", Arg(u)' = Arg(v)'
        PROVE  u = v
    <3>1. CASE u = t
      BY <1>6, <2>2, <2>3, <3>1
    <3>2. CASE v = t
      BY <1>6, <2>2, <2>3, <3>2
    <3>3. CASE u # t /\ v # t
      BY <1>6, <2>3, <3>3 DEF SealedTableInv, StartInv
    <3>. QED  BY <3>1, <3>2, <3>3
  <2>. QED
    BY <2>1, <2>3 DEF StartInv
<1>14. SentOnce'
  BY <1>2, <1>6, <1>8 DEF SealedTableInv, SentOnce, SameKey
<1>15. PreKeyOutlivesSealed'
  <2>1. Offered' = Offered
    <3>1. \A u \in Calls : Fulfilled(u, "publishOneTimePreKey")' <=> Fulfilled(u, "publishOneTimePreKey")
      BY <1>2, <1>3, <1>6 DEF Fulfilled
    <3>2. \A u \in Calls : Fulfilled(u, "publishOneTimePreKey") => request'[u] = request[u]
      BY <1>2, <1>6 DEF Fulfilled
    <3>. QED
      BY <3>1, <3>2 DEF Offered
  <2>2. \A k : Built(k)' = Built(k)
    BY <1>2 DEF Built
  <2>3. \A u \in Calls : IsSealed(u) => u # t /\ IsSealed(u)'
    BY <1>3, <1>6 DEF IsSealed
  <2>. QED
    BY <1>2, <1>6, <2>1, <2>2, <2>3 DEF SealedTableInv, PreKeyOutlivesSealed, BuiltAs
<1>. QED
  BY <1>6, <1>7, <1>9, <1>10, <1>13, <1>14, <1>15 DEF SealedTableInv

\* Every step of the device keeps the invariant of the tables.
LEMMA SealedTablesNext ==
  ASSUME SealedTableInv, UnsealedInv, QueueTypeOK, MutualExclusion, [SealedNext]_sealedVars
  PROVE  SealedTableInv'
<1>1. ASSUME NEW t \in Calls, Write(t) PROVE SealedTableInv'
  BY <1>1, WriteSealed, StoreSessionSealed
<1>2. ASSUME NEW t \in Calls, IsSealed(t), SealedStep(t) PROVE SealedTableInv'
  <2>1. CASE SealedStoreFails(t)
    BY <2>1, ThrowSealed DEF SealedStoreFails
  <2>2. CASE LoadSessionToSeal(t) \/ LoadPreKeys(t) \/ LoadSignedPreKeys(t) \/ GetIdentity(t) \/ LoadKyberPreKeys(t)
    BY <1>2, <2>2, ReadSealed DEF ReadsEither
  <2>. QED
    BY <1>1, <1>2, <2>1, <2>2, BeginSealedTables, RunOpSealed, ReturnSealed DEF SealedStep
<1>3. ASSUME NEW t \in Calls, ~IsSealed(t), Invoke(t) \/ Step(t) \/ StoreFails(t), UNCHANGED blobs
      PROVE  SealedTableInv'
  <2>1. CASE Read(t)
    BY <1>3, <2>1, ReadSealed DEF ReadsEither
  <2>. QED
    BY <1>1, <1>3, <2>1, BeginSealedTables, RunOpSealed, ReturnSealed, InvokeSealedTables, ThrowSealed
       DEF Step, StoreFails
<1>4. ASSUME NEW t \in Calls, InvokeSealed(t) PROVE SealedTableInv'
  BY <1>4, InvokeSealedTables
<1>5. CASE Kill
  <2>1. /\ phase' = [u \in Calls |-> IF phase[u] \in {"queued", "running"} THEN "lost" ELSE phase[u]]
        /\ UNCHANGED <<session, preKeys, request, pc, result, existingSession>>
    BY <1>5 DEF Kill, Restart, tables, volatile, locals
  <2>. QED
    BY <2>1, StopSealed
<1>6. CASE UNCHANGED sealedVars
  <2>1. UNCHANGED <<phase, session, preKeys, request, pc, result, existingSession>>
    BY <1>6 DEF sealedVars, vars, queueVars, tables, volatile, locals
  <2>. QED
    BY <2>1, StopSealed
<1>. QED
  BY <1>2, <1>3, <1>4, <1>5, <1>6 DEF SealedNext

\* A device that has done nothing has stored nothing.
LEMMA SealedTablesInit == SealedInit => SealedTableInv
<1>. SUFFICES ASSUME SealedInit PROVE SealedTableInv
  OBVIOUS
<1>1. /\ session = [p \in Peers |-> None] /\ pc = [t \in Calls |-> "start"]
      /\ existingSession = [t \in Calls |-> None] /\ request = [t \in Calls |-> None]
  BY DEF SealedInit, Init
<1>2. ASSUME NEW t \in Calls
      PROVE  /\ phase[t] = "idle" /\ ~Running(t) /\ ~Done(t) /\ ~Unstored(t)
             /\ ~Fulfilled(t, "publishOneTimePreKey")
  <2>1. phase = [u \in Calls |-> "idle"]
    BY DEF SealedInit, Init, QueueInit
  <2>2. phase[t] = "idle"
    BY <2>1
  <2>. QED
    BY <2>2 DEF Running, Done, Unstored, Fulfilled
<1>3. RecordInv
  BY <1>1 DEF RecordInv, SealedFits, Has
<1>4. ASSUME NEW t \in Calls PROVE KindInv(t) /\ ReadInv(t) /\ AnswerInv(t) /\ SentInv(t)
  <2>1. phase[t] = "idle" /\ ~Running(t) /\ ~Done(t) /\ request[t] = None /\ pc[t] = "start"
    BY <1>1, <1>2
  <2>2. KindInv(t)
    BY <2>1 DEF KindInv, RequestInv, LabelInv
  <2>3. ReadInv(t)
    BY <2>1 DEF ReadInv
  <2>4. AnswerInv(t) /\ SentInv(t)
    BY <2>1 DEF AnswerInv, SentInv
  <2>. QED
    BY <2>2, <2>3, <2>4
<1>5. StartInv /\ SentOnce
  BY <1>1, <1>2 DEF StartInv, SentOnce, Has
<1>6. PreKeyOutlivesSealed
  <2>1. Offered = Published
    BY <1>2 DEF Offered
  <2>. QED
    BY <2>1, ClientAssumption DEF PreKeyOutlivesSealed, Ids, SealedInit, Init
<1>. QED
  BY <1>1, <1>3, <1>4, <1>5, <1>6 DEF SealedTableInv

-----------------------------------------------------------------------------
(* The theorems about the tables *)

\* The inductive invariant of the tables holds in every reachable state.
THEOREM SealedTables == SealedSpec => []SealedTableInv
<1>1. SealedSpec => []ChainInv
  BY SealedImplementsQueue, ChainInvariant, PTL
<1>2. ChainInv => QueueTypeOK
  BY DEF ChainInv
<1>3. SealedTableInv /\ UnsealedInv /\ QueueTypeOK /\ MutualExclusion /\ [SealedNext]_sealedVars =>
        SealedTableInv'
  BY SealedTablesNext
<1>. QED
  BY <1>1, <1>2, <1>3, SealedExcludes, SealedInvariant, SealedTablesInit, PTL DEF SealedSpec

\* In a session this device started, two messages, sealed or plain, never have one key
\* (encrypt and SealedSender.encrypt advance the one record of the peer).
THEOREM SealedNoKeyReuse == SealedSpec => []NoKeyReuseSealed
<1>1. ASSUME SealedTableInv PROVE NoKeyReuseSealed
  <2>1. \A t \in Calls : Sends(t) => Done(t) /\ Sender(t)
    BY DEF Sends, Fulfilled, Done, Sender, Kind
  <2>. QED
    BY <1>1, <2>1 DEF NoKeyReuseSealed, SealedTableInv, SentOnce
<1>. QED
  BY <1>1, SealedTables, PTL

\* decryptMessage deletes a one-time prekey only after the session built on it is stored.
THEOREM SealedPreKeyOutlives == SealedSpec => []PreKeyOutlivesSealed
<1>1. SealedTableInv => PreKeyOutlivesSealed
  BY DEF SealedTableInv
<1>. QED
  BY <1>1, SealedTables, PTL

-----------------------------------------------------------------------------
(* The framing *)

\* The blobs of prekeys that a sealed decryption hands over are read as they were written,
\* and every other blob is read alike by the decoders of the two sides.
THEOREM SealedFramingAgrees == SealedSpec => []FramingAgrees
<1>1. FramingAgrees
  BY AllDecodersAgree, RoundTrips DEF FramingAgrees
<1>. QED
  BY <1>1, PTL
=============================================================================
