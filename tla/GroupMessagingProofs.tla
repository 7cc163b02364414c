------------------------ MODULE GroupMessagingProofs ------------------------
(***************************************************************************)
(* Proofs about GroupMessaging, for any number of devices and calls: the   *)
(* invariant of the rows of sender_keys and of the calls that read and     *)
(* write them, and what follows from it for the messages of the group.     *)
(***************************************************************************)
EXTENDS GroupMessaging, TLAPS

-----------------------------------------------------------------------------
(* The native operations on sender keys *)

\* What a new record must not lose: a chain of the old one, and that an iteration
\* which was passed without being kept stays so.
Keeps(old, new) ==
  \A c \in Chains : HasChain(old, c) =>
    /\ HasChain(new, c)
    /\ new.states[c].next >= old.states[c].next
    /\ \A i \in Nat : i < old.states[c].next /\ i \notin old.states[c].skipped =>
                        i \notin new.states[c].skipped

\* AddChain of SenderKeyOps makes a record that names the chain of the point as
\* current, leaves the states of a record as they are and begins a new chain there.
LEMMA AddChainAdds ==
  ASSUME NEW record \in SenderKeyRecord \cup {None}, WellFormed(record),
         NEW point \in ChainPoint
  PROVE  LET new == AddChain(record, point)
         IN  /\ new \in SenderKeyRecord /\ WellFormed(new) /\ new # None
             /\ new.current = point.chain /\ HasChain(new, point.chain)
             /\ \A c \in Chains : HasChain(record, c) =>
                  HasChain(new, c) /\ new.states[c] = record.states[c]
             /\ \A c \in Chains : HasChain(new, c) /\ ~HasChain(record, c) =>
                  c = point.chain /\ new.states[c] = [next |-> point.iter, skipped |-> {}]
<1>. DEFINE old == IF record = None THEN [c \in Chains |-> None] ELSE record.states
           begun == [next |-> point.iter, skipped |-> {}]
           states == IF old[point.chain] # None THEN old
                     ELSE [old EXCEPT ![point.chain] = begun]
           new == AddChain(record, point)
<1>1. /\ old \in [Chains -> SenderKeyState \cup {None}]
      /\ begun \in SenderKeyState /\ begun # None
      /\ point.chain \in Chains
  BY SenderKeyAssumption DEF SenderKeyRecord, SenderKeyState, ChainPoint
<1>2. new = [current |-> point.chain, states |-> states]
  BY DEF AddChain
<1>3. /\ states \in [Chains -> SenderKeyState \cup {None}]
      /\ states[point.chain] # None
      /\ \A c \in Chains : old[c] # None => states[c] = old[c]
      /\ \A c \in Chains : old[c] = None /\ states[c] # None => c = point.chain /\ states[c] = begun
  BY <1>1
<1>4. \A c \in Chains : HasChain(record, c) <=> old[c] # None
  BY DEF HasChain
<1>. HIDE DEF old, states
<1>5. new \in SenderKeyRecord /\ new # None
  BY SenderKeyAssumption, <1>1, <1>2, <1>3 DEF SenderKeyRecord
<1>6. \A c \in Chains : HasChain(new, c) <=> states[c] # None
  BY <1>2, <1>5 DEF HasChain
<1>7. \A c \in Chains : HasChain(record, c) => old[c] = record.states[c]
  BY DEF HasChain, old
<1>8. WellFormed(new)
  <2>1. ASSUME NEW c \in Chains, HasChain(new, c), NEW i \in new.states[c].skipped
        PROVE  i < new.states[c].next
    <3>1. CASE HasChain(record, c)
      <4>1. new.states[c] = record.states[c] /\ record # None
        BY <1>2, <1>3, <1>4, <1>7, <2>1, <3>1 DEF HasChain
      <4>. QED
        BY <2>1, <3>1, <4>1 DEF WellFormed
    <3>2. CASE ~HasChain(record, c)
      BY <1>2, <1>3, <1>4, <1>6, <2>1, <3>2
    <3>. QED
      BY <3>1, <3>2
  <2>. QED
    BY <1>1, <1>2, <1>3, <1>6, <2>1 DEF WellFormed
<1>. QED
  BY <1>1, <1>2, <1>3, <1>4, <1>5, <1>6, <1>7, <1>8

\* Advance replaces the state of one chain the record has.
LEMMA AdvanceReplaces ==
  ASSUME NEW record \in SenderKeyRecord, WellFormed(record), NEW chain \in Chains,
         HasChain(record, chain), NEW state \in SenderKeyState,
         \A i \in state.skipped : i < state.next
  PROVE  LET new == Advance(record, chain, state)
         IN  /\ new \in SenderKeyRecord /\ WellFormed(new) /\ new # None
             /\ new.current = record.current
             /\ \A c \in Chains : HasChain(new, c) <=> HasChain(record, c)
             /\ \A c \in Chains \ {chain} : new.states[c] = record.states[c]
             /\ new.states[chain] = state
<1>. DEFINE new == Advance(record, chain, state)
           states == [record.states EXCEPT ![chain] = state]
<1>1. new = [current |-> record.current, states |-> states]
  BY DEF Advance
<1>2. /\ record.states \in [Chains -> SenderKeyState \cup {None}]
      /\ record.current \in Chains /\ state # None /\ record # None
  BY SenderKeyAssumption DEF SenderKeyRecord
<1>3. /\ states \in [Chains -> SenderKeyState \cup {None}]
      /\ states[chain] = state
      /\ \A c \in Chains \ {chain} : states[c] = record.states[c]
  BY <1>2
<1>. HIDE DEF states
<1>4. new \in SenderKeyRecord /\ new # None
  BY SenderKeyAssumption, <1>1, <1>2, <1>3 DEF SenderKeyRecord
<1>5. ASSUME NEW c \in Chains
      PROVE  HasChain(new, c) <=> HasChain(record, c)
  <2>1. new.states[c] = states[c]
    BY <1>1
  <2>. QED
    BY <1>2, <1>3, <1>4, <2>1 DEF HasChain
<1>6. WellFormed(new)
  BY <1>1, <1>2, <1>3, <1>4, <1>5 DEF WellFormed
<1>. QED
  BY <1>1, <1>2, <1>3, <1>4, <1>5, <1>6

\* createDistributionMessage answers the record there is, or one with a fresh chain, and
\* the point its current chain is at.
LEMMA CreateAnswers ==
  ASSUME NEW record \in SenderKeyRecord \cup {None}, WellFormed(record), NEW fresh \in Chains
  PROVE  LET answer == CreateDistributionOp(record, fresh)
         IN  /\ answer \in Result /\ answer.err = None
             /\ answer.record \in SenderKeyRecord /\ WellFormed(answer.record)
             /\ Keeps(record, answer.record)
             /\ record # None => answer.record = record
             /\ answer.value \in ChainPoint /\ answer.value.chain = answer.record.current
<1>. DEFINE point == [chain |-> fresh, iter |-> 0]
            new == IF record = None THEN AddChain(None, point) ELSE record
            value == [chain |-> new.current, iter |-> new.states[new.current].next]
<1>1. point \in ChainPoint /\ WellFormed(None)
  BY DEF ChainPoint, WellFormed
<1>2. new \in SenderKeyRecord /\ WellFormed(new) /\ new # None
  BY <1>1, AddChainAdds
<1>3. Keeps(record, new)
  BY DEF Keeps, HasChain, SenderKeyRecord, SenderKeyState
<1>. HIDE DEF new, point
<1>4. value \in ChainPoint
  BY <1>2 DEF WellFormed, HasChain, ChainPoint, SenderKeyRecord, SenderKeyState
<1>5. CreateDistributionOp(record, fresh) = [err |-> None, record |-> new, value |-> value]
  BY DEF CreateDistributionOp, Returned, new, point
<1>6. record # None => new = record
  BY DEF new
<1>. QED
  BY <1>2, <1>3, <1>4, <1>5, <1>6 DEF Result

\* processDistributionMessage keeps every state there is and adds a chain that is new.
LEMMA ProcessAnswers ==
  ASSUME NEW record \in SenderKeyRecord \cup {None}, WellFormed(record),
         NEW point \in ChainPoint
  PROVE  LET answer == ProcessDistributionOp(record, point)
         IN  /\ answer \in Result /\ answer.err = None
             /\ answer.record \in SenderKeyRecord /\ WellFormed(answer.record)
             /\ Keeps(record, answer.record)
             /\ HasChain(answer.record, point.chain)
             /\ \A c \in Chains : HasChain(record, c) =>
                  HasChain(answer.record, c) /\ answer.record.states[c] = record.states[c]
             /\ \A c \in Chains : HasChain(answer.record, c) /\ ~HasChain(record, c) =>
                  /\ c = point.chain
                  /\ answer.record.states[c] = [next |-> point.iter, skipped |-> {}]
<1>. DEFINE new == AddChain(record, point)
<1>1. /\ new \in SenderKeyRecord /\ WellFormed(new) /\ new # None
      /\ HasChain(new, point.chain)
      /\ \A c \in Chains : HasChain(record, c) =>
           HasChain(new, c) /\ new.states[c] = record.states[c]
      /\ \A c \in Chains : HasChain(new, c) /\ ~HasChain(record, c) =>
           c = point.chain /\ new.states[c] = [next |-> point.iter, skipped |-> {}]
  BY AddChainAdds
<1>. HIDE DEF new
<1>2. \A c \in Chains : HasChain(record, c) => record.states[c] \in SenderKeyState
  BY DEF HasChain, SenderKeyRecord
<1>3. Keeps(record, new)
  BY <1>1, <1>2 DEF Keeps, SenderKeyState
<1>4. ProcessDistributionOp(record, point) = [err |-> None, record |-> new, value |-> None]
  BY DEF ProcessDistributionOp, Returned, new
<1>. QED
  BY <1>1, <1>3, <1>4 DEF Result

\* encryptMessage answers the iteration the current chain is at, and a record that is
\* past it.
LEMMA EncryptAnswers ==
  ASSUME NEW record \in SenderKeyRecord, WellFormed(record)
  PROVE  LET answer == GroupEncryptOp(record)
         IN  /\ answer \in Result /\ answer.err = None
             /\ answer.record \in SenderKeyRecord /\ WellFormed(answer.record)
             /\ Keeps(record, answer.record)
             /\ answer.record.current = record.current
             /\ answer.value \in ChainPoint /\ answer.value.chain = record.current
             /\ answer.value.iter = record.states[record.current].next
             /\ HasChain(answer.record, record.current)
             /\ answer.record.states[record.current].next = answer.value.iter + 1
<1>. DEFINE c == record.current
            s == record.states[c]
            state == [next |-> s.next + 1, skipped |-> s.skipped]
            new == Advance(record, c, state)
            value == [chain |-> c, iter |-> s.next]
<1>1. /\ c \in Chains /\ record # None /\ HasChain(record, c) /\ s \in SenderKeyState
      /\ \A i \in s.skipped : i < s.next
  BY SenderKeyAssumption DEF WellFormed, HasChain, SenderKeyRecord
<1>2. s.next \in Nat /\ s.skipped \in SUBSET Nat
  BY <1>1 DEF SenderKeyState
<1>. HIDE DEF s
<1>3. /\ state \in SenderKeyState /\ value \in ChainPoint
      /\ \A i \in state.skipped : i < state.next
  BY <1>1, <1>2 DEF SenderKeyState, ChainPoint
<1>4. /\ new \in SenderKeyRecord /\ WellFormed(new) /\ new # None
      /\ new.current = record.current
      /\ \A x \in Chains : HasChain(new, x) <=> HasChain(record, x)
      /\ \A x \in Chains \ {c} : new.states[x] = record.states[x]
      /\ new.states[c] = state
  BY <1>1, <1>3, AdvanceReplaces
<1>5. GroupEncryptOp(record) = [err |-> None, record |-> new, value |-> value]
  BY DEF GroupEncryptOp, Returned, s
<1>. HIDE DEF new, c
<1>6. Keeps(record, new)
  <2>1. ASSUME NEW x \in Chains, HasChain(record, x)
        PROVE  /\ HasChain(new, x)
               /\ new.states[x].next >= record.states[x].next
               /\ \A i \in Nat : i < record.states[x].next /\ i \notin record.states[x].skipped =>
                                    i \notin new.states[x].skipped
    <3>1. record.states[x] \in SenderKeyState
      BY <2>1 DEF HasChain, SenderKeyRecord
    <3>2. CASE x # c
      BY <1>4, <2>1, <3>1, <3>2 DEF SenderKeyState
    <3>3. CASE x = c
      BY <1>1, <1>2, <1>4, <2>1, <3>3 DEF s
    <3>. QED
      BY <3>2, <3>3
  <2>. QED
    BY <2>1 DEF Keeps
<1>. QED
  BY <1>1, <1>2, <1>3, <1>4, <1>5, <1>6 DEF Result, c, s

\* Whether a record with a state of the chain can open a message of it.
LEMMA OpensIs ==
  ASSUME NEW record, NEW point \in ChainPoint, HasChain(record, point.chain)
  PROVE  Opens(record, point) <=>
           \/ point.iter >= record.states[point.chain].next
           \/ point.iter \in record.states[point.chain].skipped
BY DEF Opens

\* groupDecrypt opens a message once: the record it answers opens all that the old one
\* did but that message.
LEMMA DecryptAnswers ==
  ASSUME NEW record \in SenderKeyRecord, WellFormed(record), NEW m \in ChainPoint
  PROVE  LET answer == GroupDecryptOp(record, m)
         IN  /\ answer \in Result
             /\ answer.err = None =>
                  /\ answer.record \in SenderKeyRecord /\ WellFormed(answer.record)
                  /\ Keeps(record, answer.record)
                  /\ Opens(record, m)
                  /\ HasChain(answer.record, m.chain) /\ ~Opens(answer.record, m)
                  /\ \A c \in Chains : HasChain(answer.record, c) <=> HasChain(record, c)
                  /\ \A p \in ChainPoint \ {m} : Opens(record, p) => Opens(answer.record, p)
<1>. DEFINE answer == GroupDecryptOp(record, m)
            c == m.chain
            s == record.states[c]
            state == IF m.iter >= s.next
                     THEN [next |-> m.iter + 1, skipped |-> s.skipped \cup s.next .. (m.iter - 1)]
                     ELSE [next |-> s.next, skipped |-> s.skipped \ {m.iter}]
            new == Advance(record, c, state)
<1>1. CASE ~Opens(record, m)
  <2>1. \E err \in SenderKeyErrors : answer = [err |-> err, record |-> None, value |-> None]
    BY <1>1 DEF GroupDecryptOp, Failed, SenderKeyErrors, Opens
  <2>. QED
    BY <2>1, SenderKeyAssumption DEF Result
<1>2. CASE Opens(record, m)
  <2>1. /\ c \in Chains /\ m.iter \in Nat /\ HasChain(record, c)
        /\ m.iter >= s.next \/ m.iter \in s.skipped
        /\ record # None /\ s \in SenderKeyState
        /\ \A i \in s.skipped : i < s.next
    BY <1>2, SenderKeyAssumption DEF Opens, WellFormed, HasChain, SenderKeyRecord, ChainPoint
  <2>2. s.next \in Nat /\ s.skipped \in SUBSET Nat
    BY <2>1 DEF SenderKeyState
  <2>3. answer = [err |-> None, record |-> new, value |-> None]
    BY <1>2, <2>1 DEF GroupDecryptOp, Returned
  <2>. HIDE DEF s
  <2>4. /\ state.next \in Nat /\ state.skipped \in SUBSET Nat
        /\ state = [next |-> state.next, skipped |-> state.skipped]
        /\ state.next >= s.next
        /\ \A i \in state.skipped : i < state.next
        /\ m.iter < state.next /\ m.iter \notin state.skipped
        /\ \A i \in Nat \ {m.iter} : (i >= s.next \/ i \in s.skipped) <=>
                                       (i >= state.next \/ i \in state.skipped)
    <3>1. CASE m.iter >= s.next
      BY <2>1, <2>2, <3>1
    <3>2. CASE ~(m.iter >= s.next)
      BY <2>1, <2>2, <3>2
    <3>. QED
      BY <3>1, <3>2
  <2>. HIDE DEF state
  <2>5. state \in SenderKeyState
    BY <2>4 DEF SenderKeyState
  <2>6. /\ new \in SenderKeyRecord /\ WellFormed(new) /\ new # None
        /\ \A x \in Chains : HasChain(new, x) <=> HasChain(record, x)
        /\ \A x \in Chains \ {c} : new.states[x] = record.states[x]
        /\ new.states[c] = state
    BY <2>1, <2>4, <2>5, AdvanceReplaces
  <2>. HIDE DEF new
  <2>7. Keeps(record, new)
    <3>1. ASSUME NEW x \in Chains, HasChain(record, x)
          PROVE  /\ HasChain(new, x)
                 /\ new.states[x].next >= record.states[x].next
                 /\ \A i \in Nat : i < record.states[x].next /\ i \notin record.states[x].skipped =>
                                      i \notin new.states[x].skipped
      <4>1. record.states[x] \in SenderKeyState
        BY <3>1 DEF HasChain, SenderKeyRecord
      <4>2. CASE x # c
        BY <2>6, <3>1, <4>1, <4>2 DEF SenderKeyState
      <4>3. CASE x = c
        <5>1. record.states[x] = s /\ new.states[x] = state
          BY <2>6, <4>3 DEF s
        <5>2. ASSUME NEW i \in Nat, i < s.next, i \notin s.skipped
              PROVE  i \notin state.skipped
          BY <2>1, <2>2, <2>4, <5>2
        <5>. QED
          BY <2>4, <2>6, <3>1, <5>1, <5>2
      <4>. QED
        BY <4>2, <4>3
    <3>. QED
      BY <3>1 DEF Keeps
  <2>8. ~Opens(new, m)
    BY <2>1, <2>4, <2>6 DEF Opens
  <2>9. ASSUME NEW p \in ChainPoint \ {m}, Opens(record, p)
        PROVE  Opens(new, p)
    <3>1. p.chain \in Chains /\ p.iter \in Nat /\ HasChain(record, p.chain) /\ HasChain(new, p.chain)
      BY <2>6, <2>9 DEF ChainPoint, Opens
    <3>2. CASE p.chain # c
      BY <2>6, <2>9, <3>1, <3>2 DEF Opens
    <3>3. CASE p.chain = c
      <4>1. p.iter # m.iter
        BY <2>9, <3>3 DEF ChainPoint
      <4>2. p.iter >= s.next \/ p.iter \in s.skipped
        BY <2>9, <3>3 DEF Opens, s
      <4>. QED
        BY <2>4, <2>6, <3>1, <3>3, <4>1, <4>2 DEF Opens
    <3>. QED
      BY <3>2, <3>3
  <2>10. answer \in Result /\ answer.record = new /\ HasChain(new, c)
    BY <2>1, <2>3, <2>6 DEF Result
  <2>. QED
    BY <1>2, <2>6, <2>7, <2>8, <2>9, <2>10
<1>. QED
  BY <1>1, <1>2

-----------------------------------------------------------------------------
(* What a step leaves alone *)

USE DEF Sections, Running, Outcomes, At, Goto, Active

Act(t) == Invoke(t) \/ Step(t) \/ UnwrapFails(t) \/ Fails(t)

\* The step is one of call t.
OnlyCall(t) ==
  \A u \in Tasks \ {t} :
    /\ request'[u] = request[u] /\ section'[u] = section[u] /\ pc'[u] = pc[u]
    /\ existing'[u] = existing[u] /\ result'[u] = result[u]
    /\ todo'[u] = todo[u] /\ out'[u] = out[u]

\* A call in progress changes its own locals, and neither its request nor, once it has
\* settled, anything.
LEMMA ActFrame ==
  ASSUME GroupTypeOK, NEW t \in Tasks, Act(t)
  PROVE  /\ OnlyCall(t) /\ pc[t] \notin Outcomes
         /\ pc[t] # "idle" => request'[t] = request[t]
         /\ pc[t] = "idle" <=> Invoke(t)
         /\ StoreSenderKey(t) \/ senderKeys' = senderKeys
         /\ StoreSenderKey(t) \/ Wrap(t) \/ out' = out
<1>. USE DEF GroupTypeOK, OnlyCall, vars, calls, locals
<1>1. CASE Invoke(t)
  BY <1>1 DEF Invoke, SenderKeyErrors
<1>2. CASE Resume(t)
  BY <1>2 DEF Resume, SenderKeyErrors, Invoke
<1>3. CASE Enter(t)
  BY <1>3 DEF Enter, SenderKeyErrors, Invoke
<1>4. CASE LoadSenderKey(t)
  BY <1>4 DEF LoadSenderKey, Throw, SenderKeyErrors, Invoke
<1>5. CASE RunOp(t)
  BY <1>5 DEF RunOp, Throw, SenderKeyErrors, Invoke
<1>6. CASE StoreSenderKey(t)
  BY <1>6 DEF StoreSenderKey, EndSection, SenderKeyErrors, Invoke
<1>7. CASE Wrap(t)
  BY <1>7 DEF Wrap, EndSection, SenderKeyErrors, Invoke
<1>8. CASE Unwrap(t)
  BY <1>8 DEF Unwrap, Throw, EndSection, SenderKeyErrors, Invoke
<1>9. CASE UnwrapFails(t)
  BY <1>9 DEF UnwrapFails, Throw, SenderKeyErrors, Invoke
<1>10. CASE Fails(t)
  BY <1>10 DEF Fails, Throw, SenderKeyErrors, Invoke
<1>. QED
  BY <1>1, <1>2, <1>3, <1>4, <1>5, <1>6, <1>7, <1>8, <1>9, <1>10 DEF Act, Step

\* A kill changes nothing of the calls but where they are.
LEMMA KillFrame ==
  ASSUME GroupTypeOK, NEW d \in Devices, Kill(d)
  PROVE  /\ UNCHANGED <<senderKeys, spent, request, section, locals>>
         /\ \A t \in Tasks : pc'[t] = pc[t] \/ (Active(t) /\ pc'[t] = "lost" /\ Dev(t) = d)
         /\ \A t \in Tasks : Active(t) /\ pc'[t] = pc[t] => Dev(t) # d
BY DEF Kill, GroupTypeOK, SenderKeyErrors

-----------------------------------------------------------------------------
(* The sections on sender keys *)

\* The device, the row and the point of a request are ones there are.
LEMMA RequestTypes ==
  ASSUME NEW t \in Tasks, request[t] \in Requests
  PROVE  /\ Dev(t) \in Devices /\ Sender(t) \in Devices /\ request[t] # None
         /\ request[t].kind \in {"welcome", "send", "receive"}
         /\ request[t].kind = "receive" =>
              request[t].envelope \in Envelopes /\ Point(t) \in ChainPoint
         /\ request[t].kind # "receive" => Sender(t) = Dev(t)
BY GroupAssumption, EnvelopeAssumption DEF Requests, Envelopes, Dev, Sender, Point

\* A section on sender keys is one of four, each of a kind of call.
LEMMA SectionKinds ==
  ASSUME GroupTypeOK, NEW t \in Tasks, CallInv(t), pc[t] \in {"load", "op", "store"}
  PROVE  /\ request[t] \in Requests
         /\ \/ section[t] = "create" /\ request[t].kind = "welcome"
            \/ section[t] = "encrypt" /\ request[t].kind = "send"
            \/ /\ section[t] = "decrypt" /\ request[t].kind = "receive"
               /\ request[t].envelope.type = "group"
            \/ /\ section[t] = "process" /\ request[t].kind = "receive"
               /\ request[t].envelope.type = "sender-key-distribution"
<1>1. request[t] \in Requests /\ section[t] \in SectionsOf(request[t])
  BY DEF CallInv
<1>2. section[t] \notin {"wrap", "unwrap"}
  BY DEF CallInv
<1>3. request[t].kind = "receive" =>
        request[t].envelope.type \in {"group", "sender-key-distribution"}
  BY <1>1, RequestTypes DEF Envelopes
<1>. QED
  BY <1>1, <1>2, <1>3, RequestTypes DEF SectionsOf

\* What the native operation answers has the type of an answer.
LEMMA OpTypes ==
  ASSUME GroupTypeOK, NEW t \in Tasks, CallInv(t), pc[t] \in {"op", "store"},
         existing[t] = senderKeys[Dev(t)][Sender(t)],
         section[t] \in {"encrypt", "decrypt"} => existing[t] # None,
         \A d, s \in Devices : WellFormed(senderKeys[d][s])
  PROVE  /\ Op(t) \in Result
         /\ Op(t).err = None => /\ Op(t).record \in SenderKeyRecord
                               /\ WellFormed(Op(t).record)
                               /\ Keeps(existing[t], Op(t).record)
<1>1. /\ existing[t] \in SenderKeyRecord \cup {None} /\ WellFormed(existing[t])
      /\ request[t] \in Requests
  BY SectionKinds, RequestTypes DEF GroupTypeOK
<1>2. CASE section[t] = "create"
  BY <1>1, <1>2, CreateAnswers, GroupAssumption DEF Op
<1>3. CASE section[t] = "process"
  BY <1>1, <1>3, ProcessAnswers, SectionKinds, RequestTypes DEF Op
<1>4. CASE section[t] = "encrypt"
  BY <1>1, <1>4, EncryptAnswers DEF Op
<1>5. CASE section[t] = "decrypt"
  BY <1>1, <1>5, DecryptAnswers, SectionKinds, RequestTypes DEF Op
<1>. QED
  BY <1>2, <1>3, <1>4, <1>5, SectionKinds

\* storeSenderKey replaces one row of one device by a record that keeps what it had.
LEMMA StoreFacts ==
  ASSUME GroupInv, NEW t \in Tasks, StoreSenderKey(t)
  PROVE  LET old == senderKeys[Dev(t)][Sender(t)]
             new == Op(t).record
         IN  /\ request[t] \in Requests /\ existing[t] = old
             /\ result[t] = Op(t) /\ Op(t).err = None /\ Op(t) \in Result
             /\ section[t] \in {"encrypt", "decrypt"} => old # None
             /\ old \in SenderKeyRecord \cup {None} /\ WellFormed(old)
             /\ new \in SenderKeyRecord /\ WellFormed(new) /\ new # None /\ Keeps(old, new)
             /\ request[t].kind = "receive" <=> Dev(t) # Sender(t)
             /\ Dev(t) = Sender(t) /\ old # None => new.current = old.current
             /\ \A d, s \in Devices :
                  senderKeys'[d][s] = IF d = Dev(t) /\ s = Sender(t) THEN new ELSE senderKeys[d][s]
<1>. DEFINE old == senderKeys[Dev(t)][Sender(t)]
            new == Op(t).record
<1>1. /\ GroupTypeOK /\ CallInv(t) /\ HeldInv(t) /\ pc[t] = "store"
      /\ \A d, s \in Devices : WellFormed(senderKeys[d][s])
  BY DEF GroupInv, StoreSenderKey
<1>2. request[t] \in Requests /\ Dev(t) \in Devices /\ Sender(t) \in Devices
  BY <1>1, SectionKinds, RequestTypes
<1>3. /\ existing[t] = old /\ result[t] = Op(t) /\ Op(t).err = None
      /\ section[t] \in {"encrypt", "decrypt"} => old # None
  BY <1>1 DEF HeldInv
<1>4. /\ Op(t) \in Result /\ new \in SenderKeyRecord /\ WellFormed(new) /\ Keeps(old, new)
  BY <1>1, <1>3, OpTypes
<1>5. /\ old \in SenderKeyRecord \cup {None} /\ WellFormed(old)
      /\ new # None
  BY <1>1, <1>2, <1>4, SenderKeyAssumption DEF GroupTypeOK
<1>6. request[t].kind = "receive" <=> Dev(t) # Sender(t)
  BY <1>1, <1>2, RequestTypes DEF CallInv, Sender
<1>7. \A d, s \in Devices :
        senderKeys'[d][s] = IF d = Dev(t) /\ s = Sender(t) THEN new ELSE senderKeys[d][s]
  BY <1>1, <1>2, <1>3 DEF StoreSenderKey, GroupTypeOK
<1>8. ASSUME Dev(t) = Sender(t), old # None
      PROVE  new.current = old.current
  <2>1. section[t] \in {"create", "encrypt"}
    BY <1>1, <1>6, <1>8, SectionKinds
  <2>2. CASE section[t] = "create"
    BY <1>3, <1>5, <1>8, <2>2, CreateAnswers, GroupAssumption DEF Op
  <2>3. CASE section[t] = "encrypt"
    BY <1>3, <1>5, <1>8, <2>3, EncryptAnswers DEF Op
  <2>. QED
    BY <2>1, <2>2, <2>3
<1>. QED
  BY <1>2, <1>3, <1>4, <1>5, <1>6, <1>7, <1>8

-----------------------------------------------------------------------------
(* The invariant: types *)

\* What has been emitted are envelopes, so a request to receive one is a request.
LEMMA AskedArrived ==
  ASSUME GroupTypeOK, NEW r \in Asked \cup Arrived
  PROVE  /\ r \in Requests
         /\ r.kind = "receive" => /\ r.envelope.from # r.dev
                                 /\ \E t \in Tasks : r.envelope \in out[t]
<1>1. Emitted \subseteq Envelopes /\ \A e \in Emitted : \E t \in Tasks : e \in out[t]
  BY DEF Emitted, GroupTypeOK
<1>. QED
  BY <1>1 DEF Asked, Arrived, Requests

\* The variables of GroupMessaging keep their types over every step.
LEMMA TypesStep == GroupInv /\ [Next]_vars => GroupTypeOK'
<1>. SUFFICES ASSUME GroupInv, [Next]_vars
              PROVE  GroupTypeOK'
  OBVIOUS
<1>. USE DEF GroupTypeOK, calls, locals
<1>0. GroupTypeOK /\ \A t \in Tasks : CallInv(t)
  BY DEF GroupInv
<1>1. ASSUME NEW t \in Tasks, Invoke(t)
      PROVE  GroupTypeOK'
  <2>1. PICK r \in Asked \cup Arrived :
          /\ request' = [request EXCEPT ![t] = r]
          /\ section' = [section EXCEPT ![t] = FirstSection(r)]
          /\ todo' = [todo EXCEPT ![t] = IF r.kind = "welcome" THEN Members(r.dev) ELSE {}]
    BY <1>1 DEF Invoke
  <2>2. r \in Requests
    BY <1>0, AskedArrived
  <2>3. FirstSection(r) \in Sections
    <3>1. r.kind \in {"welcome", "send", "receive"}
      BY <2>2 DEF Requests
    <3>. QED
      BY <3>1 DEF FirstSection
  <2>4. Members(r.dev) \in SUBSET Devices
    BY DEF Members
  <2>. QED
    BY <1>0, <1>1, <2>1, <2>2, <2>3, <2>4 DEF Invoke
<1>2. ASSUME NEW t \in Tasks, Resume(t)
      PROVE  GroupTypeOK'
  <2>1. request[t] \in Requests /\ Dev(t) \in Devices
    BY <1>0, <1>2, RequestTypes DEF CallInv, Resume
  <2>2. Append(queue[Dev(t)], t) \in Seq(Tasks)
    BY <1>0, <2>1
  <2>. QED
    BY <1>0, <1>2, <2>1, <2>2 DEF Resume
<1>3. ASSUME NEW t \in Tasks, Enter(t)
      PROVE  GroupTypeOK'
  BY <1>0, <1>3 DEF Enter
<1>4. ASSUME NEW t \in Tasks, pc[t] \in Running
      PROVE  /\ request[t] \in Requests /\ Dev(t) \in Devices /\ Sender(t) \in Devices
             /\ Leave(t) => queue' \in [Devices -> Seq(Tasks)]
  <2>1. request[t] \in Requests /\ Dev(t) \in Devices /\ Sender(t) \in Devices
    BY <1>0, <1>4, RequestTypes DEF CallInv
  <2>2. queue[Dev(t)] # << >>
    BY <1>4 DEF GroupInv, TurnInv
  <2>3. Tail(queue[Dev(t)]) \in Seq(Tasks)
    BY <1>0, <2>1, <2>2
  <2>. QED
    BY <1>0, <2>1, <2>3 DEF Leave
<1>5. ASSUME NEW t \in Tasks, LoadSenderKey(t)
      PROVE  GroupTypeOK'
  <2>1. senderKeys[Dev(t)][Sender(t)] \in SenderKeyRecord \cup {None}
    BY <1>0, <1>4, <1>5 DEF LoadSenderKey
  <2>. QED
    BY <1>0, <1>4, <1>5, <2>1 DEF LoadSenderKey, Throw
<1>6. ASSUME NEW t \in Tasks, RunOp(t)
      PROVE  GroupTypeOK'
  <2>1. Op(t) \in Result
    BY <1>6, OpTypes DEF RunOp, GroupInv, HeldInv
  <2>2. Op(t).err \in SenderKeyErrors \cup {None}
    BY <2>1 DEF Result
  <2>3. pc[t] \in Running
    BY <1>6 DEF RunOp
  <2>4. CASE Op(t).err = None
    BY <1>0, <1>6, <2>1, <2>4 DEF RunOp
  <2>5. CASE Op(t).err # None
    BY <1>0, <1>4, <1>6, <2>2, <2>3, <2>5 DEF RunOp, Throw
  <2>. QED
    BY <2>4, <2>5
<1>7. ASSUME NEW t \in Tasks, StoreSenderKey(t)
      PROVE  GroupTypeOK'
  <2>. DEFINE d == Dev(t)
              envelope == [type |-> "group", from |-> d, to |-> None, point |-> result[t].value,
                           by |-> None]
  <2>1. result[t].record \in SenderKeyRecord /\ d \in Devices /\ Sender(t) \in Devices
    BY <1>4, <1>7, StoreFacts DEF StoreSenderKey
  <2>2. section[t] = "encrypt" => envelope \in Envelopes
    <3>1. ASSUME section[t] = "encrypt"
          PROVE  result[t].value \in ChainPoint
      BY <1>7, <3>1, StoreFacts, EncryptAnswers DEF Op
    <3>. QED
      BY <2>1, <3>1 DEF Envelopes
  <2>3. senderKeys' \in [Devices -> [Devices -> SenderKeyRecord \cup {None}]]
    BY <1>0, <1>7, <2>1 DEF StoreSenderKey
  <2>4. out' \in [Tasks -> SUBSET Envelopes]
    BY <1>0, <1>7, <2>2 DEF StoreSenderKey
  <2>. QED
    BY <1>0, <1>4, <1>7, <2>3, <2>4 DEF StoreSenderKey, EndSection
<1>8. ASSUME NEW t \in Tasks, Wrap(t)
      PROVE  GroupTypeOK'
  <2>1. PICK m \in todo[t] :
          LET envelope == [type |-> "sender-key-distribution", from |-> Dev(t), to |-> m,
                           point |-> result[t].value, by |-> t]
          IN  /\ out' = [out EXCEPT ![t] = out[t] \cup {envelope}]
              /\ todo' = [todo EXCEPT ![t] = todo[t] \ {m}]
              /\ EndSection(t, IF todo[t] = {m} THEN None ELSE "wrap")
    BY <1>8 DEF Wrap
  <2>2. OfChain(Dev(t), result[t].value)
    BY <1>8 DEF Wrap, GroupInv, OfChainInv
  <2>3. result[t].value \in ChainPoint
    BY <1>0, <2>2 DEF OfChain, Result
  <2>4. [type |-> "sender-key-distribution", from |-> Dev(t), to |-> m,
         point |-> result[t].value, by |-> t] \in Envelopes
    BY <1>0, <1>4, <1>8, <2>1, <2>3 DEF Envelopes, Wrap
  <2>. QED
    BY <1>0, <1>4, <1>8, <2>1, <2>4 DEF Wrap, EndSection
<1>9. ASSUME NEW t \in Tasks, Unwrap(t) \/ UnwrapFails(t)
      PROVE  GroupTypeOK'
  <2>1. request[t].kind = "receive" /\ pc[t] \in Running
    <3>1. pc[t] = "oneToOne" /\ section[t] = "unwrap" /\ section[t] \in SectionsOf(request[t])
      BY <1>0, <1>9 DEF Unwrap, UnwrapFails, CallInv
    <3>2. request[t].kind \in {"welcome", "send", "receive"}
      BY <1>4, <3>1, RequestTypes
    <3>. QED
      BY <3>1, <3>2 DEF SectionsOf
  <2>2. request[t].envelope \in Envelopes
    BY <1>4, <2>1, RequestTypes
  <2>3. queue' \in [Devices -> Seq(Tasks)]
    BY <1>4, <1>9, <2>1 DEF Unwrap, UnwrapFails, Throw, EndSection
  <2>4. spent' \in [Devices -> SUBSET Envelopes]
    <3>1. \/ spent' = spent
          \/ spent' = [spent EXCEPT ![Dev(t)] = spent[Dev(t)] \cup {request[t].envelope}]
      BY <1>9 DEF Unwrap, UnwrapFails
    <3>2. spent[Dev(t)] \cup {request[t].envelope} \in SUBSET Envelopes
      BY <1>0, <1>4, <2>1, <2>2
    <3>. QED
      BY <1>0, <3>1, <3>2
  <2>5. /\ section' \in [Tasks -> Sections \cup {None}]
        /\ pc' \in [Tasks -> {"idle", "resume", "queued"} \cup Running \cup Outcomes]
    BY <1>0, <1>9 DEF Unwrap, UnwrapFails, Throw, EndSection, SenderKeyErrors
  <2>. QED
    BY <1>0, <1>9, <2>3, <2>4, <2>5 DEF Unwrap, UnwrapFails
<1>10. ASSUME NEW t \in Tasks, Fails(t)
       PROVE  GroupTypeOK'
  BY <1>0, <1>4, <1>10 DEF Fails, Throw, SenderKeyErrors
<1>11. ASSUME NEW d \in Devices, Kill(d)
       PROVE  GroupTypeOK'
  BY <1>0, <1>11 DEF Kill
<1>12. CASE UNCHANGED vars
  BY <1>0, <1>12 DEF vars
<1>. QED
  BY <1>1, <1>2, <1>3, <1>5, <1>6, <1>7, <1>8, <1>9, <1>10, <1>11, <1>12 DEF Next, Step

-----------------------------------------------------------------------------
(* The invariant: calls and their turns *)

\* A call keeps to the sections of its kind.
LEMMA CallsStep == GroupInv /\ [Next]_vars => \A t \in Tasks : CallInv(t)'
<1>. SUFFICES ASSUME GroupInv, [Next]_vars
              PROVE  \A t \in Tasks : CallInv(t)'
  OBVIOUS
<1>0. GroupTypeOK /\ \A t \in Tasks : CallInv(t)
  BY DEF GroupInv
<1>. USE DEF GroupTypeOK, CallInv, Dev
<1>1. ASSUME NEW t \in Tasks, Act(t), CallInv(t)'
      PROVE  \A u \in Tasks : CallInv(u)'
  BY <1>0, <1>1, ActFrame DEF OnlyCall
<1>2. ASSUME NEW t \in Tasks, Invoke(t)
      PROVE  CallInv(t)'
  <2>1. PICK r \in Asked \cup Arrived :
          /\ request' = [request EXCEPT ![t] = r]
          /\ section' = [section EXCEPT ![t] = FirstSection(r)]
    BY <1>2 DEF Invoke
  <2>2. r \in Requests /\ (r.kind = "receive" => r.envelope.from # r.dev)
    BY <1>0, AskedArrived
  <2>3. FirstSection(r) \in SectionsOf(r)
    <3>1. r.kind \in {"welcome", "send", "receive"}
      BY <2>2 DEF Requests
    <3>. QED
      BY <3>1 DEF FirstSection, SectionsOf
  <2>4. request'[t] = r /\ section'[t] = FirstSection(r) /\ pc'[t] = "resume"
    BY <1>0, <1>2, <2>1 DEF Invoke
  <2>. QED
    BY <2>2, <2>3, <2>4
<1>3. ASSUME NEW t \in Tasks, Resume(t)
      PROVE  CallInv(t)'
  BY <1>0, <1>3 DEF Resume
<1>4. ASSUME NEW t \in Tasks, Enter(t)
      PROVE  CallInv(t)'
  BY <1>0, <1>4 DEF Enter
<1>5. ASSUME NEW t \in Tasks, LoadSenderKey(t)
      PROVE  CallInv(t)'
  BY <1>0, <1>5 DEF LoadSenderKey, Throw
<1>6. ASSUME NEW t \in Tasks, RunOp(t)
      PROVE  CallInv(t)'
  <2>1. Op(t).err \in SenderKeyErrors \cup {None}
    BY <1>6, OpTypes DEF RunOp, GroupInv, HeldInv, Result
  <2>2. CASE Op(t).err = None
    BY <1>0, <1>6, <2>2 DEF RunOp
  <2>3. CASE Op(t).err # None
    BY <1>0, <1>6, <2>1, <2>3 DEF RunOp, Throw, SenderKeyErrors
  <2>. QED
    BY <2>2, <2>3
<1>7. ASSUME NEW t \in Tasks, StoreSenderKey(t)
      PROVE  CallInv(t)'
  <2>1. request' = request /\ pc[t] = "store"
        /\ \/ pc'[t] = "returned"
           \/ section[t] = "create" /\ section'[t] = "wrap" /\ pc'[t] = "resume"
    BY <1>0, <1>7 DEF StoreSenderKey, EndSection
  <2>2. section[t] = "create" => SectionsOf(request[t]) = {"create", "wrap"}
    BY <1>0, <2>1, SectionKinds DEF SectionsOf
  <2>. QED
    BY <1>0, <2>1, <2>2
<1>8. ASSUME NEW t \in Tasks, Wrap(t)
      PROVE  CallInv(t)'
  <2>1. request' = request /\ pc[t] = "oneToOne" /\ section[t] = "wrap"
        /\ \/ pc'[t] = "returned"
           \/ section'[t] = "wrap" /\ pc'[t] = "resume"
    BY <1>0, <1>8 DEF Wrap, EndSection
  <2>. QED
    BY <1>0, <2>1
<1>9. ASSUME NEW t \in Tasks, Unwrap(t) \/ UnwrapFails(t)
      PROVE  CallInv(t)'
  <2>1. /\ request' = request /\ pc[t] = "oneToOne" /\ section[t] = "unwrap"
        /\ \/ pc'[t] = "rejected"
           \/ section'[t] = "process" /\ pc'[t] = "resume"
    <3>1. CASE UnwrapFails(t)
      BY <1>0, <3>1 DEF UnwrapFails, Throw
    <3>2. CASE Unwrap(t)
      <4>1. CASE request[t].envelope \in spent[Dev(t)]
        BY <1>0, <3>2, <4>1 DEF Unwrap, Throw
      <4>2. CASE request[t].envelope \notin spent[Dev(t)]
        BY <1>0, <3>2, <4>2, EnvelopeAssumption DEF Unwrap, EndSection
      <4>. QED
        BY <4>1, <4>2
    <3>. QED
      BY <1>9, <3>1, <3>2
  <2>2. SectionsOf(request[t]) = {"unwrap", "process"}
    <3>1. section[t] \in SectionsOf(request[t]) /\ request[t].kind \in {"welcome", "send", "receive"}
      BY <1>0, <2>1, RequestTypes
    <3>. QED
      BY <2>1, <3>1 DEF SectionsOf
  <2>. QED
    BY <1>0, <2>1, <2>2
<1>10. ASSUME NEW t \in Tasks, Fails(t)
       PROVE  CallInv(t)'
  BY <1>0, <1>10 DEF Fails, Throw
<1>11. ASSUME NEW d \in Devices, Kill(d)
       PROVE  \A u \in Tasks : CallInv(u)'
  BY <1>0, <1>11, KillFrame
<1>12. CASE UNCHANGED vars
  BY <1>0, <1>12 DEF vars, calls
<1>. QED
  BY <1>1, <1>2, <1>3, <1>4, <1>5, <1>6, <1>7, <1>8, <1>9, <1>10, <1>11, <1>12
  DEF Next, Step, Act

\* The sections of one device exclude each other.
LEMMA OneSection ==
  ASSUME GroupInv, NEW t \in Tasks, NEW u \in Tasks, pc[t] \in Running, pc[u] \in Running,
         Dev(t) = Dev(u)
  PROVE  t = u
BY DEF GroupInv, TurnInv

\* A call that does not move has its turn as long as its queue stays.
LEMMA TurnStays ==
  ASSUME NEW u \in Tasks, TurnInv(u), request'[u] = request[u], pc'[u] = pc[u],
         queue'[Dev(u)] = queue[Dev(u)]
  PROVE  TurnInv(u)'
BY DEF TurnInv, Dev

\* When the section in progress leaves, the ones behind it move up.
LEMMA LeaveTurn ==
  ASSUME GroupInv, NEW t \in Tasks, pc[t] \in Running, Leave(t), OnlyCall(t),
         pc'[t] \notin {"queued"} \cup Running
  PROVE  \A u \in Tasks : TurnInv(u)'
<1>. SUFFICES ASSUME NEW u \in Tasks, u # t
              PROVE  TurnInv(u)'
  BY DEF TurnInv
<1>. USE DEF Dev
<1>1. /\ GroupTypeOK /\ TurnInv(u) /\ TurnInv(t)
      /\ pc'[u] = pc[u] /\ request'[u] = request[u]
      /\ pc[u] \in Running => Dev(u) # Dev(t)
  BY OneSection DEF GroupInv, OnlyCall
<1>2. Dev(t) \in Devices /\ (pc[u] # "idle" => Dev(u) \in Devices)
  BY RequestTypes DEF GroupInv, CallInv
<1>3. CASE pc[u] \notin {"queued"} \cup Running
  BY <1>1, <1>3 DEF TurnInv
<1>4. CASE pc[u] \in {"queued"} \cup Running /\ Dev(u) # Dev(t)
  <2>1. queue'[Dev(u)] = queue[Dev(u)]
    BY <1>1, <1>2, <1>4 DEF Leave, GroupTypeOK
  <2>. QED
    BY <1>1, <2>1, TurnStays
<1>5. CASE pc[u] = "queued" /\ Dev(u) = Dev(t)
  <2>. DEFINE q == queue[Dev(t)]
  <2>1. q \in Seq(Tasks) /\ queue'[Dev(u)] = Tail(q)
    BY <1>1, <1>2, <1>5 DEF Leave, GroupTypeOK
  <2>2. PICK i \in 1 .. Len(q) : q[i] = u
    BY <1>1, <1>5 DEF TurnInv
  <2>3. Head(q) = t
    BY <1>1 DEF TurnInv
  <2>4. i # 1
    BY <2>1, <2>2, <2>3
  <2>5. i - 1 \in 1 .. Len(Tail(q)) /\ Tail(q)[i - 1] = u
    BY <2>1, <2>2, <2>4
  <2>. QED
    BY <1>1, <1>5, <2>1, <2>5 DEF TurnInv
<1>. QED
  BY <1>1, <1>3, <1>4, <1>5

\* A section is in its queue from when it is submitted until it settles, and only the
\* first of a queue is in progress.
LEMMA TurnsStep == GroupInv /\ [Next]_vars => \A t \in Tasks : TurnInv(t)'
<1>. SUFFICES ASSUME GroupInv, [Next]_vars
              PROVE  \A t \in Tasks : TurnInv(t)'
  OBVIOUS
<1>. USE DEF Dev
<1>0. GroupTypeOK /\ \A t \in Tasks : TurnInv(t) /\ CallInv(t)
  BY DEF GroupInv
<1>1. ASSUME NEW t \in Tasks, Act(t), queue' = queue, TurnInv(t)'
      PROVE  \A u \in Tasks : TurnInv(u)'
  BY <1>0, <1>1, ActFrame, TurnStays DEF OnlyCall
<1>2. ASSUME NEW t \in Tasks, Act(t), pc[t] \in Running, Leave(t),
             pc'[t] \notin {"queued"} \cup Running
      PROVE  \A u \in Tasks : TurnInv(u)'
  BY <1>0, <1>2, ActFrame, LeaveTurn
<1>3. ASSUME NEW t \in Tasks, Invoke(t)
      PROVE  \A u \in Tasks : TurnInv(u)'
  <2>1. TurnInv(t)' /\ queue' = queue
    BY <1>0, <1>3 DEF Invoke, TurnInv, GroupTypeOK
  <2>. QED
    BY <1>1, <1>3, <2>1 DEF Act
<1>4. ASSUME NEW t \in Tasks, Resume(t)
      PROVE  \A u \in Tasks : TurnInv(u)'
  <2>. DEFINE q == queue[Dev(t)]
  <2>1. Dev(t) \in Devices /\ q \in Seq(Tasks)
    BY <1>0, <1>4, RequestTypes DEF Resume, CallInv, GroupTypeOK
  <2>2. /\ Append(q, t) \in Seq(Tasks) /\ Len(Append(q, t)) = Len(q) + 1
        /\ \A i \in 1 .. Len(q) : Append(q, t)[i] = q[i]
        /\ Append(q, t)[Len(q) + 1] = t
        /\ Len(q) # 0 => Head(Append(q, t)) = Head(q)
    BY <2>1
  <2>3. queue' = [queue EXCEPT ![Dev(t)] = Append(q, t)]
        /\ pc' = [pc EXCEPT ![t] = "queued"] /\ request' = request
    BY <1>4 DEF Resume
  <2>4. TurnInv(t)'
    <3>1. pc'[t] = "queued" /\ queue'[Dev(t)] = Append(q, t)
      BY <1>0, <2>1, <2>3 DEF GroupTypeOK
    <3>2. Len(q) + 1 \in 1 .. Len(queue'[Dev(t)]) /\ queue'[Dev(t)][Len(q) + 1] = t
      BY <2>1, <2>2, <3>1
    <3>. QED
      BY <2>3, <3>1, <3>2 DEF TurnInv
  <2>5. ASSUME NEW u \in Tasks, u # t
        PROVE  TurnInv(u)'
    <3>1. pc'[u] = pc[u] /\ TurnInv(u)
      BY <1>0, <2>3, <2>5 DEF GroupTypeOK
    <3>2. CASE pc[u] \notin {"queued"} \cup Running
      BY <3>1, <3>2 DEF TurnInv
    <3>3. CASE pc[u] \in {"queued"} \cup Running /\ Dev(u) = Dev(t)
      <4>1. PICK i \in 1 .. Len(q) : q[i] = u
        BY <3>1, <3>3 DEF TurnInv
      <4>2. queue'[Dev(u)] = Append(q, t) /\ i \in 1 .. Len(Append(q, t)) /\ Append(q, t)[i] = u
        BY <1>0, <2>1, <2>2, <2>3, <3>3, <4>1 DEF GroupTypeOK
      <4>3. pc[u] \in Running => Head(Append(q, t)) = u
        BY <2>1, <2>2, <3>1, <3>3, <4>1 DEF TurnInv
      <4>. QED
        BY <2>3, <3>1, <4>2, <4>3 DEF TurnInv
    <3>4. CASE pc[u] \in {"queued"} \cup Running /\ Dev(u) # Dev(t)
      <4>1. Dev(u) \in Devices
        BY <1>0, <3>4, RequestTypes DEF CallInv
      <4>2. queue'[Dev(u)] = queue[Dev(u)]
        BY <1>0, <2>1, <2>3, <3>4, <4>1 DEF GroupTypeOK
      <4>. QED
        BY <2>3, <3>1, <4>2, TurnStays
    <3>. QED
      BY <3>2, <3>3, <3>4
  <2>. QED
    BY <2>4, <2>5
<1>5. ASSUME NEW t \in Tasks, Enter(t)
      PROVE  \A u \in Tasks : TurnInv(u)'
  <2>1. TurnInv(t) /\ pc[t] = "queued" /\ Head(queue[Dev(t)]) = t
    BY <1>0, <1>5 DEF Enter, MayEnter
  <2>2. TurnInv(t)' /\ queue' = queue
    BY <2>1, <1>5 DEF Enter, TurnInv
  <2>. QED
    BY <1>1, <1>5, <2>2 DEF Act, Step
<1>6. ASSUME NEW t \in Tasks, LoadSenderKey(t)
      PROVE  \A u \in Tasks : TurnInv(u)'
  <2>1. pc[t] = "load" /\ Act(t)
    BY <1>6 DEF LoadSenderKey, Act, Step
  <2>2. CASE queue' = queue /\ pc' = [pc EXCEPT ![t] = "op"]
    <3>1. TurnInv(t)'
      BY <1>0, <1>6, <2>1, <2>2 DEF LoadSenderKey, TurnInv, GroupTypeOK
    <3>. QED
      BY <1>1, <2>1, <2>2, <3>1
  <2>3. CASE Leave(t) /\ pc' = [pc EXCEPT ![t] = "SenderKeyNotFoundError"]
    BY <1>0, <1>2, <2>1, <2>3 DEF GroupTypeOK
  <2>. QED
    BY <1>6, <2>2, <2>3 DEF LoadSenderKey, Throw
<1>7. ASSUME NEW t \in Tasks, RunOp(t)
      PROVE  \A u \in Tasks : TurnInv(u)'
  <2>1. pc[t] = "op" /\ Act(t)
    BY <1>7 DEF RunOp, Act, Step
  <2>2. CASE Op(t).err = None
    <3>1. TurnInv(t)' /\ queue' = queue
      BY <1>0, <1>7, <2>1, <2>2 DEF RunOp, TurnInv, GroupTypeOK
    <3>. QED
      BY <1>1, <2>1, <3>1
  <2>3. CASE Op(t).err # None
    <3>1. Op(t).err \in SenderKeyErrors
      BY <1>7, <2>3, OpTypes DEF RunOp, GroupInv, HeldInv, Result
    <3>. QED
      BY <1>0, <1>2, <1>7, <2>1, <2>3, <3>1 DEF RunOp, Throw, GroupTypeOK, SenderKeyErrors
  <2>. QED
    BY <2>2, <2>3
<1>8. ASSUME NEW t \in Tasks, StoreSenderKey(t) \/ Wrap(t)
      PROVE  \A u \in Tasks : TurnInv(u)'
  <2>1. /\ pc[t] \in Running /\ Act(t) /\ Leave(t)
        /\ pc'[t] \in {"returned", "resume"}
    BY <1>0, <1>8 DEF StoreSenderKey, Wrap, EndSection, Act, Step, GroupTypeOK
  <2>. QED
    BY <1>2, <2>1
<1>9. ASSUME NEW t \in Tasks, Unwrap(t) \/ UnwrapFails(t)
      PROVE  \A u \in Tasks : TurnInv(u)'
  <2>1. /\ pc[t] \in Running /\ Act(t) /\ Leave(t)
        /\ pc'[t] \in {"returned", "resume", "rejected"}
    BY <1>0, <1>9 DEF Unwrap, UnwrapFails, Throw, EndSection, Act, Step, GroupTypeOK
  <2>. QED
    BY <1>2, <2>1
<1>10. ASSUME NEW t \in Tasks, Fails(t)
       PROVE  \A u \in Tasks : TurnInv(u)'
  <2>1. Act(t) /\ pc'[t] = "rejected"
    BY <1>0, <1>10 DEF Fails, Throw, Act, GroupTypeOK
  <2>2. CASE pc[t] \in Running /\ Leave(t)
    BY <1>2, <2>1, <2>2
  <2>3. CASE queue' = queue
    BY <1>1, <2>1, <2>3 DEF TurnInv
  <2>. QED
    BY <1>10, <2>2, <2>3 DEF Fails, Throw
<1>11. ASSUME NEW d \in Devices, Kill(d)
       PROVE  \A u \in Tasks : TurnInv(u)'
  <2>1. ASSUME NEW u \in Tasks, pc'[u] \in {"queued"} \cup Running
        PROVE  TurnInv(u)'
    <3>1. pc'[u] = pc[u] /\ request'[u] = request[u] /\ Dev(u) # d /\ TurnInv(u)
      BY <1>0, <1>11, <2>1, KillFrame
    <3>2. Dev(u) \in Devices
      BY <1>0, <2>1, <3>1, RequestTypes DEF CallInv
    <3>3. queue'[Dev(u)] = queue[Dev(u)]
      BY <1>0, <1>11, <3>1, <3>2 DEF Kill, GroupTypeOK
    <3>. QED
      BY <3>1, <3>3, TurnStays
  <2>. QED
    BY <2>1 DEF TurnInv
<1>12. CASE UNCHANGED vars
  BY <1>0, <1>12 DEF vars, calls, TurnInv
<1>. QED
  BY <1>3, <1>4, <1>5, <1>6, <1>7, <1>8, <1>9, <1>10, <1>11, <1>12 DEF Next, Step

-----------------------------------------------------------------------------
(* The invariant: rows and what calls hold of them *)

\* Every step keeps what a row has; the row of a device's own chain keeps its chain.
LEMMA RowsStep ==
  ASSUME GroupInv, [Next]_vars, NEW d \in Devices, NEW s \in Devices
  PROVE  /\ WellFormed(senderKeys'[d][s])
         /\ senderKeys[d][s] \in SenderKeyRecord \cup {None}
         /\ senderKeys'[d][s] \in SenderKeyRecord \cup {None}
         /\ Keeps(senderKeys[d][s], senderKeys'[d][s])
         /\ senderKeys[d][d] # None =>
              senderKeys'[d][d] # None /\ senderKeys'[d][d].current = senderKeys[d][d].current
<1>0. GroupTypeOK /\ \A x, y \in Devices : WellFormed(senderKeys[x][y])
  BY DEF GroupInv
<1>1. CASE senderKeys' = senderKeys
  <2>1. senderKeys[d][s] \in SenderKeyRecord \cup {None}
    BY <1>0 DEF GroupTypeOK
  <2>2. \A c \in Chains : HasChain(senderKeys[d][s], c) =>
          senderKeys[d][s].states[c].next \in Nat
    BY <2>1 DEF HasChain, SenderKeyRecord, SenderKeyState
  <2>. QED
    BY <1>0, <1>1, <2>1, <2>2 DEF Keeps
<1>2. ASSUME NEW t \in Tasks, StoreSenderKey(t)
      PROVE  /\ WellFormed(senderKeys'[d][s])
             /\ senderKeys[d][s] \in SenderKeyRecord \cup {None}
             /\ senderKeys'[d][s] \in SenderKeyRecord \cup {None}
             /\ Keeps(senderKeys[d][s], senderKeys'[d][s])
             /\ senderKeys[d][d] # None =>
                  senderKeys'[d][d] # None /\ senderKeys'[d][d].current = senderKeys[d][d].current
  <2>1. senderKeys[d][s] \in SenderKeyRecord \cup {None}
    BY <1>0 DEF GroupTypeOK
  <2>2. \A c \in Chains : HasChain(senderKeys[d][s], c) =>
          senderKeys[d][s].states[c].next \in Nat
    BY <2>1 DEF HasChain, SenderKeyRecord, SenderKeyState
  <2>3. Keeps(senderKeys[d][s], senderKeys[d][s])
    BY <2>2 DEF Keeps
  <2>4. CASE d = Dev(t) /\ s = Sender(t)
    BY <1>2, <2>4, StoreFacts
  <2>5. CASE ~(d = Dev(t) /\ s = Sender(t))
    BY <1>0, <1>2, <2>1, <2>3, <2>5, StoreFacts
  <2>6. senderKeys[d][d] # None =>
          senderKeys'[d][d] # None /\ senderKeys'[d][d].current = senderKeys[d][d].current
    BY <1>2, StoreFacts
  <2>. QED
    BY <2>1, <2>4, <2>5, <2>6
<1>3. (\E t \in Tasks : StoreSenderKey(t)) \/ senderKeys' = senderKeys
  BY <1>0, ActFrame, KillFrame DEF Next, Act, vars
<1>. QED
  BY <1>1, <1>2, <1>3

\* What a call has read stays true until it stores what it made of it.
LEMMA HeldStep == GroupInv /\ [Next]_vars => \A t \in Tasks : HeldInv(t)'
<1>. SUFFICES ASSUME GroupInv, [Next]_vars
              PROVE  \A t \in Tasks : HeldInv(t)'
  OBVIOUS
<1>. USE DEF HeldInv
<1>0. GroupTypeOK /\ \A t \in Tasks : HeldInv(t) /\ CallInv(t)
  BY DEF GroupInv
<1>1. ASSUME NEW u \in Tasks, pc[u] \in {"op", "store"}, pc'[u] = pc[u],
             request'[u] = request[u], section'[u] = section[u], existing'[u] = existing[u],
             result'[u] = result[u],
             senderKeys'[Dev(u)][Sender(u)] = senderKeys[Dev(u)][Sender(u)]
      PROVE  HeldInv(u)'
  BY <1>0, <1>1 DEF Op, Dev, Sender, Point
<1>2. ASSUME NEW t \in Tasks, Act(t), HeldInv(t)'
      PROVE  \A u \in Tasks : HeldInv(u)'
  <2>1. ASSUME NEW u \in Tasks \ {t}, pc'[u] \in {"op", "store"}
        PROVE  HeldInv(u)'
    <3>1. /\ pc'[u] = pc[u] /\ request'[u] = request[u] /\ section'[u] = section[u]
          /\ existing'[u] = existing[u] /\ result'[u] = result[u]
      BY <1>0, <1>2, ActFrame DEF OnlyCall
    <3>2. Dev(u) \in Devices /\ Sender(u) \in Devices
      BY <1>0, <2>1, <3>1, RequestTypes DEF CallInv
    <3>3. CASE senderKeys' = senderKeys
      BY <1>1, <2>1, <3>1, <3>3
    <3>4. CASE StoreSenderKey(t)
      <4>1. Dev(u) # Dev(t)
        BY <2>1, <3>1, <3>4, OneSection DEF StoreSenderKey
      <4>2. senderKeys'[Dev(u)][Sender(u)] = senderKeys[Dev(u)][Sender(u)]
        BY <3>2, <3>4, <4>1, StoreFacts
      <4>. QED
        BY <1>1, <2>1, <3>1, <4>2
    <3>. QED
      BY <1>0, <1>2, <3>3, <3>4, ActFrame
  <2>. QED
    BY <1>2, <2>1
<1>3. ASSUME NEW t \in Tasks, Act(t), pc'[t] \notin {"op", "store"}
      PROVE  \A u \in Tasks : HeldInv(u)'
  BY <1>2, <1>3
<1>4. ASSUME NEW t \in Tasks, LoadSenderKey(t), pc'[t] = "op"
      PROVE  HeldInv(t)'
  <2>1. /\ existing' = [existing EXCEPT ![t] = senderKeys[Dev(t)][Sender(t)]]
        /\ ~(senderKeys[Dev(t)][Sender(t)] = None /\ section[t] \in {"encrypt", "decrypt"})
        /\ section' = section /\ request' = request /\ senderKeys' = senderKeys
    BY <1>0, <1>4 DEF LoadSenderKey, Throw, GroupTypeOK
  <2>. QED
    BY <1>0, <1>4, <2>1 DEF GroupTypeOK, Dev, Sender
<1>5. ASSUME NEW t \in Tasks, RunOp(t), pc'[t] = "store"
      PROVE  HeldInv(t)'
  <2>1. Op(t).err \in SenderKeyErrors \cup {None}
    BY <1>5, OpTypes DEF RunOp, GroupInv, Result
  <2>2. Op(t).err = None
    BY <1>0, <1>5, <2>1 DEF RunOp, Throw, GroupTypeOK, SenderKeyErrors
  <2>3. /\ result'[t] = Op(t) /\ section' = section /\ request' = request
        /\ existing' = existing /\ senderKeys' = senderKeys /\ pc[t] = "op"
    BY <1>0, <1>5, <2>2 DEF RunOp, GroupTypeOK
  <2>4. Op(t)' = Op(t)
    BY <2>3 DEF Op, Point
  <2>. QED
    BY <1>0, <1>5, <2>2, <2>3, <2>4 DEF Dev, Sender
<1>6. ASSUME NEW t \in Tasks, Act(t)
      PROVE  \/ pc'[t] \notin {"op", "store"}
             \/ LoadSenderKey(t) /\ pc'[t] = "op"
             \/ RunOp(t) /\ pc'[t] = "store"
  <2>1. CASE Invoke(t) \/ Resume(t) \/ Enter(t)
    BY <1>0, <2>1 DEF Invoke, Resume, Enter, GroupTypeOK
  <2>2. CASE LoadSenderKey(t)
    BY <1>0, <2>2 DEF LoadSenderKey, Throw, GroupTypeOK
  <2>3. CASE RunOp(t)
    <3>1. Op(t).err \in SenderKeyErrors \cup {None}
      BY <2>3, OpTypes DEF RunOp, GroupInv, Result
    <3>. QED
      BY <1>0, <2>3, <3>1 DEF RunOp, Throw, GroupTypeOK, SenderKeyErrors
  <2>4. CASE StoreSenderKey(t) \/ Wrap(t)
    BY <1>0, <2>4 DEF StoreSenderKey, Wrap, EndSection, GroupTypeOK
  <2>5. CASE Unwrap(t) \/ UnwrapFails(t) \/ Fails(t)
    BY <1>0, <2>5 DEF Unwrap, UnwrapFails, Fails, Throw, EndSection, GroupTypeOK
  <2>. QED
    BY <1>6, <2>1, <2>2, <2>3, <2>4, <2>5 DEF Act, Step
<1>7. ASSUME NEW d \in Devices, Kill(d)
      PROVE  \A u \in Tasks : HeldInv(u)'
  BY <1>0, <1>1, <1>7, KillFrame DEF locals
<1>8. CASE UNCHANGED vars
  BY <1>0, <1>8 DEF vars, calls, locals, Op, Dev, Sender, Point
<1>. QED
  BY <1>2, <1>3, <1>4, <1>5, <1>6, <1>7, <1>8 DEF Next, Act

-----------------------------------------------------------------------------
(* The invariant: what was sent, received and opened *)

\* A call that has settled stays as it is.
LEMMA SettledStays ==
  ASSUME GroupTypeOK, [Next]_vars, NEW u \in Tasks, pc[u] \in Outcomes
  PROVE  pc'[u] = pc[u] /\ request'[u] = request[u] /\ out'[u] = out[u]
<1>1. ASSUME NEW t \in Tasks, Act(t)
      PROVE  pc'[u] = pc[u] /\ request'[u] = request[u] /\ out'[u] = out[u]
  BY <1>1, ActFrame DEF OnlyCall
<1>2. ASSUME NEW d \in Devices, Kill(d)
      PROVE  pc'[u] = pc[u] /\ request'[u] = request[u] /\ out'[u] = out[u]
  BY <1>2, KillFrame DEF locals, SenderKeyErrors
<1>3. CASE UNCHANGED vars
  BY <1>3 DEF vars, calls, locals
<1>. QED
  BY <1>1, <1>2, <1>3 DEF Next, Act

\* A call returns when its record is stored or its last member is written to.
LEMMA NewlyReturned ==
  ASSUME GroupInv, [Next]_vars, NEW t \in Tasks, pc'[t] = "returned", pc[t] # "returned"
  PROVE  StoreSenderKey(t) \/ Wrap(t)
<1>0. GroupTypeOK
  BY DEF GroupInv
<1>1. ASSUME NEW u \in Tasks, Act(u)
      PROVE  StoreSenderKey(t) \/ Wrap(t)
  <2>1. u = t
    BY <1>0, <1>1, ActFrame DEF OnlyCall
  <2>2. CASE Invoke(t) \/ Resume(t) \/ Enter(t) \/ LoadSenderKey(t)
    BY <1>0, <2>2 DEF Invoke, Resume, Enter, LoadSenderKey, Throw, GroupTypeOK
  <2>3. CASE RunOp(t)
    <3>1. Op(t).err \in SenderKeyErrors \cup {None}
      BY <2>3, OpTypes DEF RunOp, GroupInv, HeldInv, Result
    <3>. QED
      BY <1>0, <2>3, <3>1 DEF RunOp, Throw, GroupTypeOK, SenderKeyErrors
  <2>4. CASE Unwrap(t) \/ UnwrapFails(t) \/ Fails(t)
    BY <1>0, <2>4, EnvelopeAssumption
    DEF Unwrap, UnwrapFails, Fails, Throw, EndSection, GroupTypeOK
  <2>. QED
    BY <1>1, <2>1, <2>2, <2>3, <2>4 DEF Act, Step
<1>2. ASSUME NEW d \in Devices, Kill(d)
      PROVE  FALSE
  BY <1>0, <1>2, KillFrame
<1>3. CASE UNCHANGED vars
  BY <1>3 DEF vars, calls
<1>. QED
  BY <1>1, <1>2, <1>3 DEF Next, Act

\* What an encrypt returns, and what a create has made for its members, is of the
\* device's chain.
LEMMA StoreOfChain ==
  ASSUME GroupInv, NEW t \in Tasks, StoreSenderKey(t), section[t] \in {"create", "encrypt"}
  PROVE  OfChain(Dev(t), result[t].value)' /\ Dev(t) = Sender(t) /\ Dev(t) \in Devices
<1>0. GroupTypeOK /\ CallInv(t) /\ pc[t] = "store"
  BY DEF GroupInv, StoreSenderKey
<1>1. Dev(t) = Sender(t) /\ Dev(t) \in Devices
  <2>1. request[t] \in Requests /\ request[t].kind # "receive"
    BY <1>0, SectionKinds
  <2>. QED
    BY <2>1, RequestTypes
<1>2. /\ senderKeys'[Dev(t)][Dev(t)] = Op(t).record /\ Op(t).record # None
      /\ result' = result /\ request' = request /\ result[t] = Op(t)
  <2>1. /\ Op(t).record # None /\ result[t] = Op(t)
        /\ \A d, s \in Devices :
             senderKeys'[d][s] = IF d = Dev(t) /\ s = Sender(t) THEN Op(t).record
                                 ELSE senderKeys[d][s]
    BY StoreFacts
  <2>. QED
    BY <1>1, <2>1 DEF StoreSenderKey
<1>3. Op(t).value \in ChainPoint /\ Op(t).value.chain = Op(t).record.current
  <2>1. CASE section[t] = "create"
    BY <2>1, StoreFacts, CreateAnswers, GroupAssumption DEF Op
  <2>2. CASE section[t] = "encrypt"
    BY <2>2, StoreFacts, EncryptAnswers DEF Op
  <2>. QED
    BY <2>1, <2>2
<1>. QED
  BY <1>1, <1>2, <1>3, SenderKeyAssumption DEF OfChain, Dev

\* Everything a device has sent, and everything that arrives from it, is of one chain.
LEMMA OfChainStep == GroupInv /\ [Next]_vars => \A t \in Tasks : OfChainInv(t)'
<1>. SUFFICES ASSUME GroupInv, [Next]_vars
              PROVE  \A t \in Tasks : OfChainInv(t)'
  OBVIOUS
<1>. DEFINE Then(d, point) ==
              /\ senderKeys'[d][d] # None /\ point # None
              /\ senderKeys'[d][d].current = point.chain
<1>0. GroupTypeOK /\ \A t \in Tasks : OfChainInv(t) /\ CallInv(t)
  BY DEF GroupInv
<1>1. ASSUME NEW d \in Devices, NEW point, OfChain(d, point)
      PROVE  Then(d, point)
  BY <1>1, RowsStep DEF OfChain
<1>2. ASSUME NEW u \in Tasks,
             \A e \in out'[u] : Then(e.from, e.point),
             request'[u] # None /\ request'[u].kind = "receive" =>
               Then(request'[u].envelope.from, request'[u].envelope.point),
             pc'[u] \in {"resume", "queued"} \cup Running /\ section'[u] = "wrap" =>
               Then(request'[u].dev, result'[u].value)
      PROVE  OfChainInv(u)'
  BY <1>2 DEF OfChainInv, OfChain, Sender, Point, Dev
<1>3. ASSUME NEW u \in Tasks
      PROVE  /\ \A e \in out[u] : Then(e.from, e.point)
             /\ request[u] # None /\ request[u].kind = "receive" =>
                  Then(request[u].envelope.from, request[u].envelope.point)
             /\ Active(u) /\ section[u] = "wrap" => Then(request[u].dev, result[u].value)
  <2>1. \A e \in out[u] : e.from \in Devices
    BY <1>0 DEF GroupTypeOK, Envelopes
  <2>2. request[u] # None => request[u] \in Requests
    BY <1>0 DEF GroupTypeOK
  <2>3. Active(u) => request[u] \in Requests
    BY <1>0 DEF CallInv
  <2>. HIDE DEF Then
  <2>4. \A e \in out[u] : Then(e.from, e.point)
    BY <1>0, <1>1, <2>1 DEF OfChainInv
  <2>5. request[u] # None /\ request[u].kind = "receive" =>
          Then(request[u].envelope.from, request[u].envelope.point)
    BY <1>0, <1>1, <2>2, RequestTypes DEF OfChainInv, Sender, Point
  <2>6. Active(u) /\ section[u] = "wrap" => Then(request[u].dev, result[u].value)
    BY <1>0, <1>1, <2>3, RequestTypes DEF OfChainInv, Dev
  <2>. QED
    BY <2>4, <2>5, <2>6
<1>. HIDE DEF Then
<1>4. ASSUME NEW u \in Tasks, request'[u] = request[u], out'[u] = out[u],
             \/ section'[u] # "wrap"
             \/ pc'[u] \notin {"resume", "queued"} \cup Running
             \/ Active(u) /\ section'[u] = section[u] /\ result'[u] = result[u]
      PROVE  OfChainInv(u)'
  BY <1>2, <1>3, <1>4
<1>5. ASSUME NEW t \in Tasks, Act(t), OfChainInv(t)'
      PROVE  \A u \in Tasks : OfChainInv(u)'
  BY <1>0, <1>4, <1>5, ActFrame DEF OnlyCall
<1>6. ASSUME NEW t \in Tasks, Invoke(t)
      PROVE  OfChainInv(t)'
  <2>1. PICK r \in Asked \cup Arrived :
          /\ request' = [request EXCEPT ![t] = r]
          /\ section' = [section EXCEPT ![t] = FirstSection(r)]
    BY <1>6 DEF Invoke
  <2>2. r \in Requests /\ (r.kind = "receive" => \E v \in Tasks : r.envelope \in out[v])
    BY <1>0, AskedArrived
  <2>3. request'[t] = r /\ section'[t] = FirstSection(r) /\ out'[t] = out[t]
    BY <1>0, <1>6, <2>1 DEF Invoke, GroupTypeOK
  <2>4. FirstSection(r) # "wrap"
    <3>1. r.kind \in {"welcome", "send", "receive"}
      BY <2>2 DEF Requests
    <3>. QED
      BY <3>1 DEF FirstSection
  <2>. QED
    BY <1>2, <1>3, <2>2, <2>3, <2>4
<1>7. ASSUME NEW t \in Tasks, StoreSenderKey(t)
      PROVE  OfChainInv(t)'
  <2>1. /\ request' = request /\ result' = result /\ pc[t] = "store"
        /\ \A e \in out'[t] : section[t] = "encrypt" /\ e.from = Dev(t) /\ e.point = result[t].value
        /\ pc'[t] = "returned" \/ section[t] = "create"
    BY <1>0, <1>7 DEF StoreSenderKey, EndSection, GroupTypeOK
  <2>2. section[t] \in {"create", "encrypt"} => Then(request'[t].dev, result'[t].value)
    BY <1>7, StoreOfChain DEF OfChain, Dev, Then
  <2>. QED
    BY <1>2, <1>3, <2>1, <2>2 DEF Dev
<1>8. ASSUME NEW t \in Tasks, Wrap(t)
      PROVE  OfChainInv(t)'
  <2>1. /\ request' = request /\ result' = result /\ pc[t] = "oneToOne" /\ section[t] = "wrap"
        /\ \A e \in out'[t] \ out[t] : e.from = Dev(t) /\ e.point = result[t].value
    BY <1>0, <1>8 DEF Wrap, EndSection, GroupTypeOK, locals
  <2>. QED
    BY <1>2, <1>3, <2>1 DEF Dev
<1>9. ASSUME NEW t \in Tasks, Act(t), ~Invoke(t), ~StoreSenderKey(t), ~Wrap(t)
      PROVE  OfChainInv(t)'
  <2>1. request'[t] = request[t] /\ out'[t] = out[t]
    BY <1>0, <1>9, ActFrame
  <2>2. CASE Resume(t) \/ Enter(t)
    BY <1>0, <1>4, <2>1, <2>2 DEF Resume, Enter, locals, GroupTypeOK
  <2>3. CASE LoadSenderKey(t) \/ RunOp(t)
    <3>1. section[t] # "wrap" /\ section' = section
      BY <1>0, <2>3, SectionKinds DEF LoadSenderKey, RunOp, Throw
    <3>. QED
      BY <1>4, <2>1, <3>1
  <2>4. CASE Unwrap(t) \/ UnwrapFails(t)
    BY <1>0, <1>4, <2>1, <2>4 DEF Unwrap, UnwrapFails, Throw, EndSection, GroupTypeOK
  <2>5. CASE Fails(t)
    BY <1>0, <1>4, <2>1, <2>5 DEF Fails, Throw, GroupTypeOK
  <2>. QED
    BY <1>9, <2>2, <2>3, <2>4, <2>5 DEF Act, Step
<1>10. ASSUME NEW d \in Devices, Kill(d)
       PROVE  \A u \in Tasks : OfChainInv(u)'
  BY <1>0, <1>4, <1>10, KillFrame DEF locals
<1>11. CASE UNCHANGED vars
  BY <1>0, <1>4, <1>11 DEF vars, calls, locals
<1>. QED
  BY <1>5, <1>6, <1>7, <1>8, <1>9, <1>10, <1>11 DEF Next, Act, Step
\* What a call returns when it has stored its record: of an encrypt, the message of the
\* iteration that the row was at before.
LEMMA StoreReturns ==
  ASSUME GroupInv, NEW t \in Tasks, StoreSenderKey(t), NEW e \in out'[t]
  PROVE  LET d == Dev(t)
             old == senderKeys[d][d]
             new == senderKeys'[d][d]
         IN  /\ d \in Devices /\ request[t].kind = "send" /\ pc'[t] = "returned"
             /\ e.type = "group" /\ e.from = d
             /\ e.point \in ChainPoint
             /\ HasChain(old, e.point.chain) /\ e.point.iter = old.states[e.point.chain].next
             /\ HasChain(new, e.point.chain) /\ e.point.iter < new.states[e.point.chain].next
<1>0. GroupTypeOK /\ CallInv(t) /\ pc[t] = "store"
  BY DEF GroupInv, StoreSenderKey
<1>1. /\ section[t] = "encrypt" /\ e.type = "group" /\ e.from = Dev(t)
      /\ e.point = result[t].value /\ pc'[t] = "returned"
  BY <1>0 DEF StoreSenderKey, EndSection, GroupTypeOK
<1>2. request[t].kind = "send" /\ request[t] \in Requests
  BY <1>0, <1>1, SectionKinds
<1>3. Dev(t) \in Devices /\ Sender(t) = Dev(t)
  BY <1>2, RequestTypes
<1>. DEFINE old == senderKeys[Dev(t)][Dev(t)]
            new == senderKeys'[Dev(t)][Dev(t)]
<1>4. /\ existing[t] = old /\ result[t] = Op(t) /\ old # None
      /\ old \in SenderKeyRecord /\ WellFormed(old)
  BY <1>1, <1>3, StoreFacts
<1>5. new = Op(t).record
  <2>1. \A d, s \in Devices :
          senderKeys'[d][s] = IF d = Dev(t) /\ s = Sender(t) THEN Op(t).record
                              ELSE senderKeys[d][s]
    BY StoreFacts
  <2>. QED
    BY <1>3, <2>1
<1>6. Op(t) = GroupEncryptOp(old)
  BY <1>1, <1>4 DEF Op
<1>. HIDE DEF old, new
<1>7. /\ e.point \in ChainPoint /\ e.point.chain = old.current
      /\ e.point.iter = old.states[old.current].next
      /\ HasChain(new, old.current)
      /\ new.states[old.current].next = e.point.iter + 1
  BY <1>1, <1>4, <1>5, <1>6, EncryptAnswers
<1>8. HasChain(old, old.current) /\ e.point.iter \in Nat
  BY <1>4, <1>7 DEF WellFormed, ChainPoint
<1>. QED
  BY <1>1, <1>2, <1>3, <1>7, <1>8 DEF old, new

\* A message that has been sent stays behind the row of its sender.
LEMMA SentStep == GroupInv /\ [Next]_vars => \A t \in Tasks : SentInv(t)'
<1>. SUFFICES ASSUME GroupInv, [Next]_vars
              PROVE  \A t \in Tasks : SentInv(t)'
  OBVIOUS
<1>0. GroupTypeOK /\ \A t \in Tasks : SentInv(t) /\ CallInv(t) /\ OfChainInv(t)
  BY DEF GroupInv
<1>. DEFINE Said(u, e) ==
              /\ e.from = Dev(u) /\ ~At(u, "idle")
              /\ e.type = "group" =>
                   /\ Finished(u, "send")
                   /\ e.point.iter < senderKeys[Dev(u)][Dev(u)].states[e.point.chain].next
              /\ e.type = "sender-key-distribution" => request[u].kind = "welcome"
<1>1. ASSUME NEW u \in Tasks, NEW e \in out[u], request'[u] = request[u],
             pc'[u] # "idle", pc[u] = "returned" => pc'[u] = "returned"
      PROVE  Said(u, e)'
  <2>1. Said(u, e) /\ Dev(u) \in Devices /\ e \in Envelopes
    BY <1>0, RequestTypes DEF SentInv, CallInv, GroupTypeOK
  <2>2. e.type = "group" =>
          /\ e.point \in ChainPoint
          /\ HasChain(senderKeys[Dev(u)][Dev(u)], e.point.chain)
    <3>1. ASSUME e.type = "group"
          PROVE  e.point \in ChainPoint /\ OfChain(Dev(u), e.point)
      BY <1>0, <2>1 DEF OfChainInv, Envelopes
    <3>2. WellFormed(senderKeys[Dev(u)][Dev(u)])
      BY <2>1 DEF GroupInv
    <3>. QED
      BY <3>1, <3>2 DEF OfChain, WellFormed
  <2>3. e.type = "group" =>
          e.point.iter < senderKeys'[Dev(u)][Dev(u)].states[e.point.chain].next
    <3>. DEFINE old == senderKeys[Dev(u)][Dev(u)]
                new == senderKeys'[Dev(u)][Dev(u)]
    <3>1. /\ old \in SenderKeyRecord \cup {None} /\ new \in SenderKeyRecord \cup {None}
          /\ Keeps(old, new)
      BY <2>1, RowsStep
    <3>. HIDE DEF old, new
    <3>2. ASSUME e.type = "group"
          PROVE  e.point.iter < new.states[e.point.chain].next
      <4>1. /\ e.point.chain \in Chains /\ e.point.iter \in Nat /\ HasChain(old, e.point.chain)
            /\ e.point.iter < old.states[e.point.chain].next
        BY <2>1, <2>2, <3>2 DEF ChainPoint, old
      <4>2. HasChain(new, e.point.chain)
            /\ new.states[e.point.chain].next >= old.states[e.point.chain].next
        BY <3>1, <4>1 DEF Keeps
      <4>3. old.states[e.point.chain].next \in Nat /\ new.states[e.point.chain].next \in Nat
        BY <3>1, <4>1, <4>2 DEF HasChain, SenderKeyRecord, SenderKeyState
      <4>. QED
        BY <4>1, <4>2, <4>3
    <3>. QED
      BY <3>2 DEF new
  <2>. QED
    BY <1>1, <2>1, <2>3 DEF Finished, Dev
<1>2. ASSUME NEW u \in Tasks, out'[u] = out[u], request'[u] = request[u],
             pc'[u] # "idle" \/ pc[u] = "idle", pc[u] = "returned" => pc'[u] = "returned"
      PROVE  SentInv(u)'
  <2>1. ASSUME NEW e \in out'[u]
        PROVE  Said(u, e)'
    <3>1. pc[u] # "idle"
      BY <1>0, <1>2, <2>1 DEF SentInv
    <3>. QED
      BY <1>1, <1>2, <2>1, <3>1
  <2>. QED
    BY <2>1 DEF SentInv
<1>3. ASSUME NEW t \in Tasks, Act(t), SentInv(t)'
      PROVE  \A u \in Tasks : SentInv(u)'
  BY <1>0, <1>2, <1>3, ActFrame DEF OnlyCall
<1>4. ASSUME NEW t \in Tasks, Invoke(t)
      PROVE  SentInv(t)'
  BY <1>0, <1>4 DEF Invoke, SentInv
<1>5. ASSUME NEW t \in Tasks, StoreSenderKey(t)
      PROVE  SentInv(t)'
  <2>1. ASSUME NEW e \in out'[t]
        PROVE  Said(t, e)'
    <3>1. request' = request
      BY <1>5 DEF StoreSenderKey
    <3>2. /\ request[t].kind = "send" /\ pc'[t] = "returned"
          /\ e.type = "group" /\ e.from = Dev(t)
          /\ e.point.iter < senderKeys'[Dev(t)][Dev(t)].states[e.point.chain].next
      BY <1>5, <2>1, StoreReturns
    <3>. QED
      BY <3>1, <3>2 DEF Finished, Dev
  <2>. QED
    BY <2>1 DEF SentInv
<1>6. ASSUME NEW t \in Tasks, Wrap(t)
      PROVE  SentInv(t)'
  <2>1. /\ request' = request /\ pc[t] = "oneToOne" /\ section[t] = "wrap" /\ pc'[t] # "idle"
        /\ \A e \in out'[t] \ out[t] : e.from = Dev(t) /\ e.type = "sender-key-distribution"
    BY <1>0, <1>6 DEF Wrap, EndSection, GroupTypeOK, locals
  <2>2. request[t].kind = "welcome"
    <3>1. request[t].kind \in {"welcome", "send", "receive"} /\ "wrap" \in SectionsOf(request[t])
      BY <1>0, <2>1, RequestTypes DEF CallInv
    <3>. QED
      BY <3>1 DEF SectionsOf
  <2>3. ASSUME NEW e \in out'[t]
        PROVE  Said(t, e)'
    <3>1. CASE e \in out[t]
      BY <1>1, <2>1, <3>1
    <3>2. CASE e \notin out[t]
      BY <2>1, <2>2, <2>3, <3>2 DEF Dev
    <3>. QED
      BY <3>1, <3>2
  <2>. QED
    BY <2>3 DEF SentInv
<1>7. ASSUME NEW t \in Tasks, Act(t), ~Invoke(t), ~StoreSenderKey(t), ~Wrap(t)
      PROVE  SentInv(t)'
  <2>1. /\ request'[t] = request[t] /\ out'[t] = out[t] /\ pc[t] \notin Outcomes
        /\ pc[t] # "idle"
    BY <1>0, <1>7, ActFrame
  <2>2. ASSUME NEW e \in out[t]
        PROVE  e.type # "group" /\ Said(t, e)
    BY <1>0, <2>1 DEF SentInv, Finished
  <2>3. ASSUME NEW e \in out[t], pc'[t] # "idle"
        PROVE  Said(t, e)'
    BY <2>1, <2>2, <2>3 DEF Dev, Finished
  <2>4. pc'[t] # "idle"
    <3>1. CASE RunOp(t)
      <4>1. Op(t).err \in SenderKeyErrors \cup {None}
        BY <3>1, OpTypes DEF RunOp, GroupInv, HeldInv, Result
      <4>. QED
        BY <1>0, <3>1, <4>1 DEF RunOp, Throw, GroupTypeOK, SenderKeyErrors
    <3>2. CASE ~RunOp(t)
      BY <1>0, <1>7, <3>2
      DEF Act, Step, Resume, Enter, LoadSenderKey, Unwrap, UnwrapFails, Fails, Throw, EndSection,
          GroupTypeOK
    <3>. QED
      BY <3>1, <3>2
  <2>. QED
    BY <2>1, <2>3, <2>4 DEF SentInv
<1>8. ASSUME NEW d \in Devices, Kill(d)
      PROVE  \A u \in Tasks : SentInv(u)'
  BY <1>0, <1>2, <1>8, KillFrame DEF locals
<1>9. CASE UNCHANGED vars
  BY <1>0, <1>2, <1>9 DEF vars, calls, locals
<1>. QED
  BY <1>3, <1>4, <1>5, <1>6, <1>7, <1>8, <1>9 DEF Next, Act, Step
\* A send that returns has a message that nothing else has.
LEMMA ReuseStep == GroupInv /\ [Next]_vars => NoIterationReuse'
<1>. SUFFICES ASSUME GroupInv, [Next]_vars
              PROVE  NoIterationReuse'
  OBVIOUS
<1>0. GroupTypeOK /\ \A t \in Tasks : SentInv(t)
  BY DEF GroupInv
<1>1. GroupTypeOK' /\ \A t \in Tasks : SentInv(t)'
  BY TypesStep, SentStep
\* What a call in progress is about to return, no call has returned.
<1>2. ASSUME NEW t \in Tasks, NEW u \in Tasks, t # u, StoreSenderKey(t), pc[u] = "returned",
             NEW e \in out'[t] \cap out[u]
      PROVE  FALSE
  <2>1. /\ Dev(t) \in Devices /\ e.type = "group" /\ e.from = Dev(t)
        /\ e.point \in ChainPoint
        /\ HasChain(senderKeys[Dev(t)][Dev(t)], e.point.chain)
        /\ e.point.iter = senderKeys[Dev(t)][Dev(t)].states[e.point.chain].next
    BY <1>2, StoreReturns
  <2>2. e.from = Dev(u) /\ e.point.iter < senderKeys[Dev(u)][Dev(u)].states[e.point.chain].next
    BY <1>0, <1>2, <2>1 DEF SentInv
  <2>3. e.point.iter \in Nat
    BY <2>1 DEF ChainPoint
  <2>. QED
    BY <2>1, <2>2, <2>3
<1>3. ASSUME NEW t \in Tasks, NEW u \in Tasks, t # u, pc'[t] = "returned", pc'[u] = "returned",
             request'[t].kind = "send", request'[u].kind = "send", NEW e \in out'[t] \cap out'[u]
      PROVE  FALSE
  <2>1. CASE pc[t] = "returned" /\ pc[u] = "returned"
    BY <1>0, <1>3, <2>1, SettledStays DEF GroupInv, NoIterationReuse, Finished
  <2>2. ASSUME NEW x \in Tasks, NEW y \in Tasks, x # y, pc'[x] = "returned",
               pc[x] # "returned", request'[x].kind = "send", e \in out'[x], pc'[y] = "returned",
               e \in out'[y]
        PROVE  FALSE
    <3>1. CASE Wrap(x)
      <4>1. request'[x].kind = "welcome"
        <5>1. request' = request /\ pc[x] = "oneToOne" /\ section[x] = "wrap" /\ CallInv(x)
          BY <3>1 DEF Wrap, GroupInv
        <5>2. /\ request[x].kind \in {"welcome", "send", "receive"}
              /\ "wrap" \in SectionsOf(request[x])
          BY <5>1, RequestTypes DEF CallInv
        <5>. QED
          BY <5>1, <5>2 DEF SectionsOf
      <4>. QED
        BY <2>2, <4>1
    <3>2. CASE StoreSenderKey(x)
      <4>1. pc'[y] = pc[y] /\ out'[y] = out[y]
        <5>1. Act(x)
          BY <3>2 DEF Act, Step
        <5>. QED
          BY <1>0, <2>2, <5>1, ActFrame DEF OnlyCall
      <4>. QED
        BY <1>2, <2>2, <3>2, <4>1
    <3>. QED
      BY <2>2, <3>1, <3>2, NewlyReturned
  <2>. QED
    BY <1>3, <2>1, <2>2
<1>4. ASSUME NEW t \in Tasks, NEW u \in Tasks, t # u, pc'[t] = "returned",
             request'[t].kind = "send", NEW e \in out'[t] \cap out'[u]
      PROVE  FALSE
  <2>1. e.type = "group"
    BY <1>1, <1>4 DEF SentInv, GroupTypeOK, Envelopes
  <2>2. pc'[u] = "returned" /\ request'[u].kind = "send"
    BY <1>1, <1>4, <2>1 DEF SentInv, Finished
  <2>. QED
    BY <1>3, <1>4, <2>2
<1>. QED
  BY <1>4 DEF NoIterationReuse, Finished

\* An iteration that is closed stays so in a record that keeps what it had.
LEMMA ClosedStays ==
  ASSUME NEW old \in SenderKeyRecord \cup {None}, NEW new \in SenderKeyRecord \cup {None},
         Keeps(old, new), NEW point \in ChainPoint, HasChain(old, point.chain),
         ~Opens(old, point)
  PROVE  HasChain(new, point.chain) /\ ~Opens(new, point)
<1>1. point.chain \in Chains /\ point.iter \in Nat
  BY DEF ChainPoint
<1>2. /\ HasChain(new, point.chain)
      /\ new.states[point.chain].next >= old.states[point.chain].next
      /\ point.iter < old.states[point.chain].next /\ point.iter \notin old.states[point.chain].skipped =>
           point.iter \notin new.states[point.chain].skipped
  BY <1>1 DEF Keeps
<1>3. old.states[point.chain].next \in Nat /\ new.states[point.chain].next \in Nat
  BY <1>1, <1>2 DEF HasChain, SenderKeyRecord, SenderKeyState
<1>4. point.iter < old.states[point.chain].next /\ point.iter \notin old.states[point.chain].skipped
  BY <1>1, <1>3 DEF Opens
<1>. QED
  BY <1>1, <1>2, <1>3, <1>4 DEF Opens

\* What receive leaves behind when it stores its record: of a group message, a record
\* that could open it and cannot any more.
LEMMA StoreReceives ==
  ASSUME GroupInv, NEW t \in Tasks, StoreSenderKey(t), request[t].kind = "receive"
  PROVE  LET d == Dev(t)
             s == Sender(t)
             old == senderKeys[d][s]
             new == senderKeys'[d][s]
             m == Point(t)
         IN  /\ d \in Devices /\ s \in Devices /\ d # s /\ pc'[t] = "returned"
             /\ m \in ChainPoint /\ HasChain(new, m.chain)
             /\ old \in SenderKeyRecord \cup {None} /\ new \in SenderKeyRecord
             /\ Keeps(old, new)
             /\ request[t].envelope.type = "group" =>
                  /\ Opens(old, m) /\ ~Opens(new, m)
                  /\ \A c \in Chains : HasChain(new, c) <=> HasChain(old, c)
                  /\ \A p \in ChainPoint \ {m} : Opens(old, p) => Opens(new, p)
             /\ request[t].envelope.type # "group" =>
                  /\ request[t].envelope.type = "sender-key-distribution"
                  /\ \A c \in Chains : HasChain(old, c) =>
                       HasChain(new, c) /\ new.states[c] = old.states[c]
                  /\ \A c \in Chains : HasChain(new, c) /\ ~HasChain(old, c) =>
                       c = m.chain /\ new.states[c] = [next |-> m.iter, skipped |-> {}]
<1>0. GroupTypeOK /\ CallInv(t) /\ pc[t] = "store"
  BY DEF GroupInv, StoreSenderKey
<1>1. /\ request[t] \in Requests
      /\ \/ section[t] = "decrypt" /\ request[t].envelope.type = "group"
         \/ section[t] = "process" /\ request[t].envelope.type = "sender-key-distribution"
  BY <1>0, SectionKinds
<1>2. Dev(t) \in Devices /\ Sender(t) \in Devices /\ Point(t) \in ChainPoint
  BY <1>1, RequestTypes
<1>. DEFINE old == senderKeys[Dev(t)][Sender(t)]
            new == senderKeys'[Dev(t)][Sender(t)]
            m == Point(t)
<1>3. /\ existing[t] = old /\ result[t] = Op(t) /\ Op(t).err = None
      /\ section[t] = "decrypt" => old # None
      /\ old \in SenderKeyRecord \cup {None} /\ WellFormed(old)
      /\ Op(t).record \in SenderKeyRecord /\ Keeps(old, Op(t).record)
      /\ Dev(t) # Sender(t)
  BY StoreFacts
<1>4. new = Op(t).record
  <2>1. \A d, s \in Devices :
          senderKeys'[d][s] = IF d = Dev(t) /\ s = Sender(t) THEN Op(t).record
                              ELSE senderKeys[d][s]
    BY StoreFacts
  <2>. QED
    BY <1>2, <2>1
<1>5. pc'[t] = "returned"
  BY <1>0, <1>1 DEF StoreSenderKey, EndSection, GroupTypeOK
<1>. HIDE DEF old, new, m
<1>6. CASE section[t] = "decrypt"
  <2>1. Op(t) = GroupDecryptOp(old, m) /\ old \in SenderKeyRecord
    BY <1>3, <1>6 DEF Op, m
  <2>2. /\ Opens(old, m) /\ HasChain(new, m.chain) /\ ~Opens(new, m)
        /\ \A c \in Chains : HasChain(new, c) <=> HasChain(old, c)
        /\ \A p \in ChainPoint \ {m} : Opens(old, p) => Opens(new, p)
    BY <1>2, <1>3, <1>4, <2>1, DecryptAnswers DEF m
  <2>. QED
    BY <1>1, <1>2, <1>3, <1>4, <1>5, <1>6, <2>2 DEF old, new, m
<1>7. CASE section[t] = "process"
  <2>1. Op(t) = ProcessDistributionOp(old, m)
    BY <1>3, <1>7 DEF Op, m
  <2>2. /\ HasChain(new, m.chain)
        /\ \A c \in Chains : HasChain(old, c) =>
             HasChain(new, c) /\ new.states[c] = old.states[c]
        /\ \A c \in Chains : HasChain(new, c) /\ ~HasChain(old, c) =>
             c = m.chain /\ new.states[c] = [next |-> m.iter, skipped |-> {}]
    BY <1>2, <1>3, <1>4, <2>1, ProcessAnswers DEF m
  <2>. QED
    BY <1>1, <1>2, <1>3, <1>4, <1>5, <1>7, <2>2 DEF old, new, m
<1>. QED
  BY <1>1, <1>6, <1>7

\* A receive that returns has stored its record.
LEMMA NewlyReceived ==
  ASSUME GroupInv, [Next]_vars, NEW t \in Tasks, pc'[t] = "returned", pc[t] # "returned",
         request'[t].kind = "receive"
  PROVE  StoreSenderKey(t) /\ request' = request
<1>1. ASSUME Wrap(t)
      PROVE  FALSE
  <2>1. request' = request /\ pc[t] = "oneToOne" /\ section[t] = "wrap" /\ CallInv(t)
    BY <1>1 DEF Wrap, GroupInv
  <2>. QED
    BY <2>1 DEF CallInv, SectionsOf
<1>. QED
  BY <1>1, NewlyReturned DEF StoreSenderKey
\* What has been received stays so: a message that was opened is closed, the chain of a
\* welcome is there.
LEMMA ReceivedStep == GroupInv /\ [Next]_vars => \A t \in Tasks : ReceivedInv(t)'
<1>. SUFFICES ASSUME GroupInv, [Next]_vars, NEW t \in Tasks, pc'[t] = "returned",
                     request'[t].kind = "receive"
              PROVE  ReceivedInv(t)'
  BY DEF ReceivedInv, Finished
<1>0. GroupTypeOK /\ ReceivedInv(t) /\ CallInv(t)
  BY DEF GroupInv
<1>1. CASE pc[t] = "returned"
  <2>1. request'[t] = request[t]
    BY <1>0, <1>1, SettledStays
  <2>2. Dev(t) \in Devices /\ Sender(t) \in Devices /\ Point(t) \in ChainPoint
    BY <1>0, <1>1, <2>1, RequestTypes DEF CallInv
  <2>. DEFINE old == senderKeys[Dev(t)][Sender(t)]
              new == senderKeys'[Dev(t)][Sender(t)]
              m == Point(t)
  <2>3. /\ old \in SenderKeyRecord \cup {None} /\ new \in SenderKeyRecord \cup {None}
        /\ Keeps(old, new)
    BY <2>2, RowsStep
  <2>4. HasChain(old, m.chain) /\ (request[t].envelope.type = "group" => ~Opens(old, m))
    BY <1>0, <1>1, <2>1 DEF ReceivedInv, Finished
  <2>5. m \in ChainPoint /\ m.chain \in Chains
    BY <2>2 DEF ChainPoint
  <2>. HIDE DEF old, new, m
  <2>6. HasChain(new, m.chain) /\ (request[t].envelope.type = "group" => ~Opens(new, m))
    BY <2>3, <2>4, <2>5, ClosedStays DEF Keeps
  <2>. QED
    BY <2>1, <2>6 DEF ReceivedInv, Dev, Sender, Point, new, m
<1>2. CASE pc[t] # "returned"
  <2>1. StoreSenderKey(t) /\ request' = request
    BY <1>2, NewlyReceived
  <2>2. /\ HasChain(senderKeys'[Dev(t)][Sender(t)], Point(t).chain)
        /\ request[t].envelope.type = "group" => ~Opens(senderKeys'[Dev(t)][Sender(t)], Point(t))
    BY <2>1, StoreReceives
  <2>. QED
    BY <2>1, <2>2 DEF ReceivedInv, Dev, Sender, Point
<1>. QED
  BY <1>1, <1>2

\* A message that was opened does not open, so no second receive of it returns.
LEMMA OpensOnceStep == GroupInv /\ [Next]_vars => OpensOnce'
<1>. SUFFICES ASSUME GroupInv, [Next]_vars
              PROVE  OpensOnce'
  OBVIOUS
<1>0. GroupTypeOK /\ OpensOnce /\ \A t \in Tasks : ReceivedInv(t)
  BY DEF GroupInv
<1>1. ASSUME NEW x \in Tasks, NEW y \in Tasks, x # y, StoreSenderKey(x), pc[y] = "returned",
             request[x].kind = "receive", request[y].kind = "receive", Dev(x) = Dev(y),
             request[x].envelope = request[y].envelope, request[x].envelope.type = "group"
      PROVE  FALSE
  <2>1. Opens(senderKeys[Dev(x)][Sender(x)], Point(x))
    BY <1>1, StoreReceives
  <2>2. ~Opens(senderKeys[Dev(y)][Sender(y)], Point(y))
    BY <1>0, <1>1 DEF ReceivedInv, Finished
  <2>. QED
    BY <1>1, <2>1, <2>2 DEF Sender, Point
<1>2. ASSUME NEW t \in Tasks, NEW u \in Tasks, t # u, pc'[t] = "returned", pc'[u] = "returned",
             request'[t].kind = "receive", request'[u].kind = "receive",
             request'[t].dev = request'[u].dev,
             request'[t].envelope = request'[u].envelope, request'[t].envelope.type = "group"
      PROVE  FALSE
  <2>1. CASE pc[t] = "returned" /\ pc[u] = "returned"
    BY <1>0, <1>2, <2>1, SettledStays DEF OpensOnce, Finished, Dev
  <2>2. ASSUME NEW x \in {t, u}, NEW y \in {t, u}, x # y, pc[x] # "returned"
        PROVE  FALSE
    <3>1. StoreSenderKey(x) /\ request' = request /\ x \in Tasks /\ y \in Tasks
      BY <1>2, <2>2, NewlyReceived
    <3>2. Act(x)
      BY <3>1 DEF Act, Step
    <3>3. pc[y] = "returned"
      BY <1>0, <1>2, <2>2, <3>1, <3>2, ActFrame DEF OnlyCall
    <3>. QED
      BY <1>1, <1>2, <2>2, <3>1, <3>3 DEF Dev
  <2>. QED
    BY <1>2, <2>1, <2>2
<1>. QED
  BY <1>2 DEF OpensOnce, Finished, Dev

\* What a device has received, it has received for good.
LEMMA ReceivedGrows ==
  ASSUME GroupInv, [Next]_vars, NEW d \in Devices
  PROVE  /\ Welcomes(d) \subseteq Welcomes(d)'
         /\ \A s \in Devices, c \in Chains : OpenedOf(d, s, c) \subseteq OpenedOf(d, s, c)'
<1>1. ASSUME NEW u \in Tasks, pc[u] = "returned"
      PROVE  pc'[u] = "returned" /\ request'[u] = request[u]
  BY <1>1, SettledStays DEF GroupInv
<1>2. Welcomes(d) \subseteq Welcomes(d)'
  <2>1. ASSUME NEW e \in Welcomes(d)
        PROVE  e \in Welcomes(d)'
    <3>1. PICK u \in Tasks : /\ Finished(u, "receive") /\ Dev(u) = d /\ e = request[u].envelope
                             /\ request[u].envelope.type = "sender-key-distribution"
      BY <2>1 DEF Welcomes
    <3>2. (Finished(u, "receive") /\ Dev(u) = d /\ e = request[u].envelope
             /\ request[u].envelope.type = "sender-key-distribution")'
      BY <1>1, <3>1 DEF Finished, Dev
    <3>. QED
      BY <3>2 DEF Welcomes
  <2>. QED
    BY <2>1
<1>3. ASSUME NEW s \in Devices, NEW c \in Chains, NEW i \in OpenedOf(d, s, c)
      PROVE  i \in OpenedOf(d, s, c)'
  <2>1. PICK u \in Tasks : /\ Finished(u, "receive") /\ Dev(u) = d /\ Sender(u) = s
                           /\ request[u].envelope.type = "group" /\ Point(u).chain = c
                           /\ i = Point(u).iter
    BY <1>3 DEF OpenedOf
  <2>2. (/\ Finished(u, "receive") /\ Dev(u) = d /\ Sender(u) = s
         /\ request[u].envelope.type = "group" /\ Point(u).chain = c /\ i = Point(u).iter)'
    BY <1>1, <2>1 DEF Finished, Dev, Sender, Point
  <2>. QED
    BY <2>2 DEF OpenedOf
<1>. QED
  BY <1>2, <1>3
\* Of what follows the welcome a chain began at, a record passes only what it keeps or
\* what is opened.
LEMMA BeganStep == GroupInv /\ [Next]_vars => BeganInv'
<1>. SUFFICES ASSUME GroupInv, [Next]_vars
              PROVE  BeganInv'
  OBVIOUS
<1>. DEFINE Began(d, s, c) ==
              \E w \in Welcomes(d) :
                /\ w.from = s /\ w.point.chain = c
                /\ LET state == senderKeys[d][s].states[c]
                   IN  \A i \in w.point.iter .. (state.next - 1) :
                         i \in state.skipped \cup OpenedOf(d, s, c)
<1>0. GroupTypeOK /\ BeganInv
  BY DEF GroupInv
<1>1. ASSUME NEW d \in Devices, NEW s \in Devices, NEW c \in Chains, d # s,
             HasChain(senderKeys[d][s], c),
             senderKeys'[d][s].states[c] = senderKeys[d][s].states[c]
      PROVE  Began(d, s, c)'
  <2>1. Began(d, s, c)
    BY <1>0, <1>1 DEF BeganInv
  <2>. QED
    BY <1>1, <2>1, ReceivedGrows
<1>2. ASSUME NEW d \in Devices, NEW s \in Devices, NEW c \in Chains, d # s,
             HasChain(senderKeys'[d][s], c), NEW t \in Tasks, StoreSenderKey(t),
             d = Dev(t), s = Sender(t)
      PROVE  Began(d, s, c)'
  <2>. DEFINE old == senderKeys[d][s]
              new == senderKeys'[d][s]
              m == Point(t)
  <2>1. request[t].kind = "receive" /\ request[t] \in Requests
    BY <1>2, StoreFacts
  <2>2. /\ pc'[t] = "returned" /\ m \in ChainPoint
        /\ old \in SenderKeyRecord \cup {None} /\ new \in SenderKeyRecord
        /\ request[t].envelope.type = "group" =>
             /\ ~Opens(new, m)
             /\ \A x \in Chains : HasChain(new, x) <=> HasChain(old, x)
             /\ \A p \in ChainPoint \ {m} : Opens(old, p) => Opens(new, p)
        /\ request[t].envelope.type # "group" =>
             /\ request[t].envelope.type = "sender-key-distribution"
             /\ \A x \in Chains : HasChain(old, x) =>
                  HasChain(new, x) /\ new.states[x] = old.states[x]
             /\ \A x \in Chains : HasChain(new, x) /\ ~HasChain(old, x) =>
                  x = m.chain /\ new.states[x] = [next |-> m.iter, skipped |-> {}]
    BY <1>2, <2>1, StoreReceives
  <2>3. (/\ Finished(t, "receive") /\ Dev(t) = d /\ Sender(t) = s)'
        /\ request'[t] = request[t]
    BY <1>2, <2>1, <2>2 DEF StoreSenderKey, Finished, Dev, Sender
  <2>4. CASE request[t].envelope.type # "group"
    <3>1. CASE HasChain(old, c)
      BY <1>1, <1>2, <2>2, <2>4, <3>1
    <3>2. CASE ~HasChain(old, c)
      <4>1. c = m.chain /\ new.states[c] = [next |-> m.iter, skipped |-> {}] /\ m.iter \in Nat
        BY <1>2, <2>2, <2>4, <3>2 DEF ChainPoint
      <4>. DEFINE w == request[t].envelope
      <4>2. w \in Welcomes(d)'
        BY <2>2, <2>3, <2>4 DEF Welcomes
      <4>3. w.from = s /\ w.point = m
        BY <1>2, <2>1 DEF Sender, Point
      <4>4. w.point.iter .. (new.states[c].next - 1) = {}
        BY <4>1, <4>3
      <4>. QED
        BY <4>1, <4>2, <4>3, <4>4
    <3>. QED
      BY <3>1, <3>2
  <2>5. CASE request[t].envelope.type = "group"
    <3>1. HasChain(old, c)
      BY <1>2, <2>2, <2>5
    <3>2. PICK w \in Welcomes(d) :
            /\ w.from = s /\ w.point.chain = c
            /\ \A i \in w.point.iter .. (old.states[c].next - 1) :
                 i \in old.states[c].skipped \cup OpenedOf(d, s, c)
      BY <1>0, <1>2, <3>1 DEF BeganInv
    <3>3. w.point.iter \in Nat
      <4>1. PICK u \in Tasks : Finished(u, "receive") /\ w = request[u].envelope
        BY <3>2 DEF Welcomes
      <4>2. request[u] \in Requests
        BY <4>1 DEF GroupInv, CallInv, Finished
      <4>. QED
        BY <4>1, <4>2, RequestTypes DEF Finished, Point, ChainPoint
    <3>4. old.states[c] \in SenderKeyState /\ new.states[c] \in SenderKeyState
      BY <1>2, <2>2, <3>1 DEF HasChain, SenderKeyRecord
    <3>5. ASSUME NEW i \in w.point.iter .. (new.states[c].next - 1),
                 i \notin new.states[c].skipped
          PROVE  i \in OpenedOf(d, s, c)'
      <4>. DEFINE p == [chain |-> c, iter |-> i]
      <4>1. i \in Nat /\ p \in ChainPoint
        BY <3>3, <3>4, <3>5 DEF SenderKeyState, ChainPoint
      <4>2. ~Opens(new, p)
        BY <3>4, <3>5, <4>1 DEF Opens, SenderKeyState
      <4>3. CASE p = m
        <5>1. (request[t].envelope.type = "group" /\ Point(t).chain = c /\ i = Point(t).iter)'
          BY <2>3, <2>5, <4>3 DEF Point
        <5>. QED
          BY <2>3, <5>1 DEF OpenedOf
      <4>4. CASE p # m
        <5>1. ~Opens(old, p)
          BY <2>2, <2>5, <4>1, <4>2, <4>4
        <5>2. i < old.states[c].next /\ i \notin old.states[c].skipped
          BY <3>1, <3>4, <4>1, <5>1 DEF Opens, SenderKeyState
        <5>3. i \in w.point.iter .. (old.states[c].next - 1)
          BY <3>3, <3>4, <3>5, <5>2 DEF SenderKeyState
        <5>. QED
          BY <3>2, <5>2, <5>3, ReceivedGrows
      <4>. QED
        BY <4>3, <4>4
    <3>6. w \in Welcomes(d)'
      BY <3>2, ReceivedGrows
    <3>. QED
      BY <3>2, <3>5, <3>6
  <2>. QED
    BY <2>4, <2>5
<1>3. ASSUME NEW d \in Devices, NEW s \in Devices, NEW c \in Chains, d # s,
             HasChain(senderKeys'[d][s], c)
      PROVE  Began(d, s, c)'
  <2>1. CASE senderKeys'[d][s] = senderKeys[d][s]
    BY <1>1, <1>3, <2>1
  <2>2. ASSUME NEW t \in Tasks, StoreSenderKey(t), ~(d = Dev(t) /\ s = Sender(t))
        PROVE  senderKeys'[d][s] = senderKeys[d][s]
    BY <2>2, StoreFacts
  <2>3. (\E t \in Tasks : StoreSenderKey(t)) \/ senderKeys' = senderKeys
    BY <1>0, ActFrame, KillFrame DEF Next, Act, vars
  <2>. QED
    BY <1>2, <1>3, <2>1, <2>2, <2>3
<1>. QED
  BY <1>3 DEF BeganInv

-----------------------------------------------------------------------------
(* The theorems *)

\* The invariant of the groups: sections of a device take turns, what a section has read
\* is still its row, what a device sent is one chain and behind its row, and what a device
\* was welcomed to opens until it is opened.
THEOREM GroupInvariant == Spec => []GroupInv
<1>1. Init => GroupInv
  <2>1. ASSUME Init
        PROVE  GroupTypeOK
    BY <2>1 DEF Init, GroupTypeOK, Result, Failed, calls, locals
  <2>2. ASSUME Init
        PROVE  \A d, s \in Devices : senderKeys[d][s] = None
    BY <2>2 DEF Init
  <2>3. ASSUME Init, NEW t \in Tasks
        PROVE  pc[t] = "idle" /\ request[t] = None /\ out[t] = {}
    BY <2>3 DEF Init
  <2>4. ASSUME Init, NEW t \in Tasks
        PROVE  /\ CallInv(t) /\ TurnInv(t) /\ HeldInv(t) /\ OfChainInv(t)
               /\ SentInv(t) /\ ReceivedInv(t)
    BY <2>3, <2>4 DEF CallInv, TurnInv, HeldInv, OfChainInv, SentInv, ReceivedInv, Finished
  <2>. QED
    BY <2>1, <2>2, <2>3, <2>4
    DEF GroupInv, BeganInv, WellFormed, HasChain, NoIterationReuse, OpensOnce, Finished
<1>2. GroupInv /\ [Next]_vars => GroupInv'
  BY TypesStep, RowsStep, CallsStep, TurnsStep, HeldStep, OfChainStep, SentStep, ReceivedStep,
     BeganStep, ReuseStep, OpensOnceStep
  DEF GroupInv
<1>. QED
  BY <1>1, <1>2, PTL DEF Spec

\* No two group messages are encrypted with one iteration of a sender key.
THEOREM GroupNoIterationReuse == Spec => []NoIterationReuse
<1>1. GroupInv => NoIterationReuse
  BY DEF GroupInv
<1>. QED
  BY <1>1, GroupInvariant, PTL

\* No device opens a group message twice.
THEOREM GroupOpensOnce == Spec => []OpensOnce
<1>1. GroupInv => OpensOnce
  BY DEF GroupInv
<1>. QED
  BY <1>1, GroupInvariant, PTL
\* Two group envelopes of one sender with one point are the same.
LEMMA SameGroupEnvelope ==
  ASSUME NEW e \in Envelopes, NEW f \in Envelopes, e.type = "group", f.type = "group",
         e.from = f.from, e.point = f.point
  PROVE  e = f
BY DEF Envelopes

\* What a member was welcomed to it can open: whichever welcomes a device has processed,
\* every message encrypted after them opens or was opened.
THEOREM GroupWelcomedOpens == Spec => []WelcomedOpens
<1>1. ASSUME GroupInv
      PROVE  WelcomedOpens
  <2>1. ASSUME NEW d \in Devices, NEW e \in Emitted, e.type = "group",
               NEW w \in Welcomes(d), w.from = e.from,
               \A x \in Welcomes(d) : x.from = e.from => e.point.iter >= x.point.iter
        PROVE  Opens(senderKeys[d][e.from], e.point) \/ Opened(d, e)
    <3>. DEFINE s == e.from
                c == e.point.chain
                row == senderKeys[d][s]
    <3>1. PICK v \in Tasks : e \in out[v]
      BY <2>1 DEF Emitted
    <3>2. /\ e \in Envelopes /\ s \in Devices /\ e.point \in ChainPoint
          /\ OfChain(s, e.point)
      BY <1>1, <3>1 DEF GroupInv, GroupTypeOK, OfChainInv, Envelopes
    <3>3. PICK u \in Tasks : Finished(u, "receive") /\ Dev(u) = d /\ w = request[u].envelope
      BY <2>1 DEF Welcomes
    <3>4. /\ d # s /\ Sender(u) = s /\ Point(u).chain = c
          /\ HasChain(senderKeys[d][Sender(u)], Point(u).chain)
      <4>1. request[u] # None /\ CallInv(u) /\ OfChainInv(u) /\ ReceivedInv(u)
        BY <1>1, <3>3, RequestTypes DEF GroupInv, CallInv, Finished
      <4>2. Sender(u) = s /\ d # s
        BY <2>1, <3>3, <4>1 DEF CallInv, Sender, Finished
      <4>3. OfChain(s, Point(u))
        BY <3>3, <4>1, <4>2 DEF OfChainInv, Finished
      <4>. QED
        BY <3>2, <3>3, <4>1, <4>2, <4>3 DEF ReceivedInv, OfChain
    <3>5. c \in Chains /\ e.point.iter \in Nat
      BY <3>2 DEF ChainPoint
    <3>6. PICK x \in Welcomes(d) :
            /\ x.from = s /\ x.point.chain = c
            /\ \A i \in x.point.iter .. (row.states[c].next - 1) :
                 i \in row.states[c].skipped \cup OpenedOf(d, s, c)
      BY <1>1, <3>2, <3>4, <3>5 DEF GroupInv, BeganInv
    <3>7. e.point.iter >= x.point.iter
      BY <2>1, <3>6
    <3>8. x.point.iter \in Nat
      <4>1. PICK y \in Tasks : Finished(y, "receive") /\ x = request[y].envelope
        BY <3>6 DEF Welcomes
      <4>2. request[y] \in Requests
        BY <1>1, <4>1 DEF GroupInv, CallInv, Finished
      <4>. QED
        BY <4>1, <4>2, RequestTypes DEF Finished, Point, ChainPoint
    <3>9. row.states[c] \in SenderKeyState
      BY <1>1, <3>2, <3>4, <3>5 DEF GroupInv, GroupTypeOK, HasChain, SenderKeyRecord
    <3>10. CASE e.point.iter >= row.states[c].next
      BY <3>4, <3>10 DEF Opens
    <3>11. CASE e.point.iter \in row.states[c].skipped
      BY <3>4, <3>11 DEF Opens
    <3>12. CASE e.point.iter \in OpenedOf(d, s, c)
      <4>1. PICK y \in Tasks : /\ Finished(y, "receive") /\ Dev(y) = d /\ Sender(y) = s
                               /\ request[y].envelope.type = "group" /\ Point(y).chain = c
                               /\ e.point.iter = Point(y).iter
        BY <3>12 DEF OpenedOf
      <4>2. request[y].envelope \in Envelopes /\ Point(y) \in ChainPoint
        BY <1>1, <4>1, RequestTypes DEF GroupInv, CallInv, Finished
      <4>3. request[y].envelope.point = e.point /\ request[y].envelope.from = s
        BY <3>2, <4>1, <4>2 DEF Point, Sender, ChainPoint, Finished
      <4>4. request[y].envelope = e
        BY <2>1, <3>2, <4>1, <4>2, <4>3, SameGroupEnvelope
      <4>. QED
        BY <4>1, <4>4 DEF Opened
    <3>. QED
      BY <3>5, <3>6, <3>7, <3>8, <3>9, <3>10, <3>11, <3>12 DEF SenderKeyState
  <2>. QED
    BY <2>1 DEF WelcomedOpens
<1>. QED
  BY <1>1, GroupInvariant, PTL

\* No step takes from a device what it can open, but opening it.
THEOREM GroupStaysOpen == Spec => StaysOpen
<1>1. ASSUME GroupInv, [Next]_vars, NEW d \in Devices, NEW e \in Emitted, e.type = "group",
             e.from # d, Opens(senderKeys[d][e.from], e.point)
      PROVE  Opens(senderKeys'[d][e.from], e.point) \/ Opened(d, e)'
  <2>1. e \in Envelopes /\ e.from \in Devices /\ e.point \in ChainPoint /\ e.point.chain \in Chains
    BY <1>1 DEF Emitted, GroupInv, GroupTypeOK, Envelopes, ChainPoint
  <2>2. CASE senderKeys'[d][e.from] = senderKeys[d][e.from]
    BY <1>1, <2>2
  <2>3. ASSUME NEW t \in Tasks, StoreSenderKey(t), d = Dev(t), e.from = Sender(t)
        PROVE  Opens(senderKeys'[d][e.from], e.point) \/ Opened(d, e)'
    <3>1. request[t].kind = "receive" /\ request[t] \in Requests
      BY <1>1, <2>3, StoreFacts
    <3>. DEFINE old == senderKeys[Dev(t)][Sender(t)]
                new == senderKeys'[Dev(t)][Sender(t)]
    <3>2. /\ pc'[t] = "returned"
          /\ request[t].envelope.type = "group" =>
               \A p \in ChainPoint \ {Point(t)} : Opens(old, p) => Opens(new, p)
          /\ request[t].envelope.type # "group" =>
               \A c \in Chains : HasChain(old, c) =>
                 HasChain(new, c) /\ new.states[c] = old.states[c]
      BY <1>1, <2>3, <3>1, StoreReceives
    <3>3. old = senderKeys[d][e.from] /\ new = senderKeys'[d][e.from]
      BY <2>3
    <3>. HIDE DEF old, new
    <3>4. CASE request[t].envelope.type # "group"
      BY <1>1, <2>1, <3>2, <3>3, <3>4 DEF Opens
    <3>5. CASE request[t].envelope.type = "group" /\ e.point # Point(t)
      BY <1>1, <2>1, <3>2, <3>3, <3>5
    <3>6. CASE request[t].envelope.type = "group" /\ e.point = Point(t)
      <4>1. request[t].envelope \in Envelopes
        BY <3>1, RequestTypes
      <4>2. request[t].envelope = e
        BY <1>1, <2>1, <2>3, <3>1, <3>6, <4>1, SameGroupEnvelope DEF Point, Sender
      <4>3. request' = request
        BY <2>3 DEF StoreSenderKey
      <4>. QED
        BY <2>3, <3>1, <3>2, <4>2, <4>3 DEF Opened, Finished, Dev
    <3>. QED
      BY <3>4, <3>5, <3>6
  <2>4. ASSUME NEW t \in Tasks, StoreSenderKey(t), ~(d = Dev(t) /\ e.from = Sender(t))
        PROVE  senderKeys'[d][e.from] = senderKeys[d][e.from]
    BY <1>1, <2>1, <2>4, StoreFacts
  <2>5. (\E t \in Tasks : StoreSenderKey(t)) \/ senderKeys' = senderKeys
    BY <1>1, ActFrame, KillFrame DEF GroupInv, Next, Act, vars
  <2>. QED
    BY <2>2, <2>3, <2>4, <2>5
<1>2. GroupInv /\ [Next]_vars =>
        \A d \in Devices : \A e \in {m \in Emitted : m.type = "group" /\ m.from # d} :
          Opens(senderKeys[d][e.from], e.point) =>
            Opens(senderKeys'[d][e.from], e.point) \/ Opened(d, e)'
  BY <1>1
<1>. QED
  BY <1>2, GroupInvariant, PTL DEF Spec, StaysOpen

-----------------------------------------------------------------------------
(* The refinement of MessageKeys *)

\* What the refinement mapping reads off the calls that have returned.
sent == UNION {{<<t, <<Dev(t), e>>>> : e \in out[t]} : t \in {u \in Tasks : Finished(u, "send")}}

OpensGroup(t) == Finished(t, "receive") /\ request[t].envelope.type = "group"
opened == {<<t, <<Dev(t), request[t].envelope>>>> : t \in {u \in Tasks :
             Finished(u, "receive") /\ request[u].envelope.type = "group"}}

\* A call that has returned keeps what it returned, and so do all calls but the one of a step.
LEMMA OthersStay ==
  ASSUME GroupInv, [Next]_vars, NEW u \in Tasks, pc[u] = "returned" \/ pc'[u] # "returned"
  PROVE  /\ Finished(u, "send")' <=> Finished(u, "send")
         /\ OpensGroup(u)' <=> OpensGroup(u)
         /\ pc[u] = "returned" => request'[u] = request[u] /\ out'[u] = out[u]
<1>1. CASE pc[u] = "returned"
  <2>1. pc'[u] = pc[u] /\ request'[u] = request[u] /\ out'[u] = out[u]
    BY <1>1, SettledStays DEF GroupInv
  <2>. QED
    BY <2>1 DEF Finished, OpensGroup
<1>2. CASE pc[u] # "returned" /\ pc'[u] # "returned"
  BY <1>2 DEF Finished, OpensGroup
<1>. QED
  BY <1>1, <1>2

\* If no call returns, nothing is handed out.
LEMMA NoneReturns ==
  ASSUME GroupInv, [Next]_vars, \A u \in Tasks : pc[u] = "returned" \/ pc'[u] # "returned"
  PROVE  sent' = sent /\ opened' = opened
<1>1. \A u \in Tasks : /\ Finished(u, "send")' <=> Finished(u, "send")
                       /\ OpensGroup(u)' <=> OpensGroup(u)
                       /\ pc[u] = "returned" => request'[u] = request[u] /\ out'[u] = out[u]
  BY OthersStay
<1>2. \A u \in Tasks : Finished(u, "send") \/ OpensGroup(u) => pc[u] = "returned"
  BY DEF Finished, OpensGroup
<1>3. \A u \in Tasks : pc[u] = "returned" => Dev(u)' = Dev(u)
  BY <1>1 DEF Dev
<1>4. \A x : x \in sent' <=> x \in sent
  BY <1>1, <1>2, <1>3 DEF sent
<1>5. \A x : x \in opened' <=> x \in opened
  BY <1>1, <1>2, <1>3 DEF opened, OpensGroup
<1>. QED
  BY <1>4, <1>5

\* A call that returns is the only one that does.
LEMMA OneReturns ==
  ASSUME GroupInv, [Next]_vars, NEW t \in Tasks, pc[t] # "returned", pc'[t] = "returned",
         NEW u \in Tasks, u # t
  PROVE  pc[u] = "returned" \/ pc'[u] # "returned"
<1>1. Act(t)
  BY NewlyReturned DEF Act, Step
<1>. QED
  BY <1>1, ActFrame DEF OnlyCall, GroupInv

\* The devices of a group hand out every message with an iteration of its own, and open a
\* message once (GroupCipher.encrypt and decrypt, over all interleavings of the sections).
THEOREM GroupImplementsMessageKeys == Spec => ImplementsMessageKeys
<1>1. Init => OneUse!Init
  BY DEF Init, OneUse!Init, Finished, At
<1>2. ASSUME GroupInv, GroupInv', [Next]_vars
      PROVE  [OneUse!Next]_<<sent, opened>>
  <2>1. CASE \A u \in Tasks : pc[u] = "returned" \/ pc'[u] # "returned"
    BY <1>2, <2>1, NoneReturns
  <2>2. ASSUME NEW t \in Tasks, pc[t] # "returned", pc'[t] = "returned"
        PROVE  [OneUse!Next]_<<sent, opened>>
    <3>1. \A u \in Tasks \ {t} : /\ Finished(u, "send")' <=> Finished(u, "send")
                                 /\ OpensGroup(u)' <=> OpensGroup(u)
                                 /\ pc[u] = "returned" => request'[u] = request[u] /\ out'[u] = out[u]
      BY <1>2, <2>2, OneReturns, OthersStay
    <3>2. \A u \in Tasks \ {t} :
            (Finished(u, "send") \/ OpensGroup(u) => pc[u] = "returned")
            /\ (pc[u] = "returned" => Dev(u)' = Dev(u))
      BY <3>1 DEF Finished, OpensGroup, Dev
    <3>3. ~Finished(t, "send") /\ ~OpensGroup(t)
      BY <2>2 DEF Finished, OpensGroup
    <3>4. request'[t] \in Requests
      BY <1>2, <2>2 DEF GroupInv, CallInv
    <3>5. Dev(t)' \in Devices /\ out'[t] \subseteq Envelopes
      BY <1>2, <3>4, GroupAssumption DEF GroupInv, GroupTypeOK, Requests, Dev
    <3>6. ~Finished(t, "send")' => sent' = sent
      <4>1. ~Finished(t, "send")' => \A x : x \in sent' <=> x \in sent
        BY <3>1, <3>2, <3>3 DEF sent
      <4>. QED
        BY <4>1
    <3>7. ~OpensGroup(t)' => opened' = opened
      <4>1. ~OpensGroup(t)' => \A x : x \in opened' <=> x \in opened
        BY <3>1, <3>2, <3>3 DEF opened, OpensGroup
      <4>. QED
        BY <4>1
    <3>8. ~(Finished(t, "send")' /\ OpensGroup(t)')
      BY DEF Finished, OpensGroup
    <3>9. CASE Finished(t, "send")'
      <4>1. PICK e : out'[t] = {e}
        <5>1. StoreSenderKey(t) /\ section[t] = "encrypt"
          <6>1. StoreSenderKey(t) \/ Wrap(t)
            BY <1>2, <2>2, NewlyReturned
          <6>2. request' = request
            BY <6>1 DEF StoreSenderKey, Wrap
          <6>3. request[t].kind = "send" /\ section[t] \in SectionsOf(request[t])
            BY <1>2, <3>9, <6>1, <6>2 DEF Finished, GroupInv, CallInv, StoreSenderKey, Wrap
          <6>. QED
            BY <6>1, <6>3 DEF SectionsOf, Wrap
        <5>. QED
          BY <1>2, <5>1 DEF StoreSenderKey, GroupInv, GroupTypeOK
      <4>. DEFINE use == <<t, <<Dev(t)', e>>>>
      <4>2. \A x : x \in sent' <=> x \in sent \/ x = use
        BY <3>1, <3>2, <3>3, <3>9, <4>1 DEF sent
      <4>3. sent' = sent \cup {use} /\ use \in sent'
        <5>. HIDE DEF use
        <5>. QED BY <4>2
      <4>4. use[1] = t /\ use[2] \in Devices \X Envelopes
        BY <3>5, <4>1
      <4>5. ASSUME NEW u \in sent
            PROVE  u[1] # t /\ u[2] # use[2]
        <5>1. PICK v \in Tasks : Finished(v, "send") /\ \E f \in out[v] : u = <<v, <<Dev(v), f>>>>
          BY <4>5 DEF sent
        <5>2. PICK f \in out[v] : u = <<v, <<Dev(v), f>>>>
          BY <5>1
        <5>3. v # t /\ out'[v] = out[v]
          BY <3>1, <3>2, <3>3, <5>1
        <5>4. out'[t] \cap out'[v] = {}
          BY <1>2, <3>9, <5>3 DEF GroupInv, NoIterationReuse
        <5>5. f # e
          BY <4>1, <5>2, <5>3, <5>4
        <5>. QED
          BY <5>2, <5>3, <5>5
      <4>. HIDE DEF use
      <4>6. OneUse!Takes(t, sent, sent')
        BY <4>3, <4>4, <4>5 DEF OneUse!Takes
      <4>7. opened' = opened
        BY <3>7, <3>8, <3>9
      <4>. QED
        BY <4>6, <4>7 DEF OneUse!Next, OneUse!Encrypt, sent, opened
    <3>10. CASE OpensGroup(t)'
      <4>. DEFINE use == <<t, <<Dev(t)', request'[t].envelope>>>>
      <4>1. \A x : x \in opened' <=> x \in opened \/ x = use
        BY <3>1, <3>2, <3>3, <3>10 DEF opened, OpensGroup
      <4>2. opened' = opened \cup {use} /\ use \in opened'
        <5>. HIDE DEF use
        <5>. QED BY <4>1
      <4>3. request'[t].envelope \in Envelopes
        BY <3>4, <3>10 DEF OpensGroup, Finished, Requests
      <4>4. use[1] = t /\ use[2] \in Devices \X Envelopes
        BY <3>5, <4>3
      <4>5. ASSUME NEW u \in opened
            PROVE  u[1] # t /\ u[2] # use[2]
        <5>1. PICK v \in Tasks : OpensGroup(v) /\ u = <<v, <<Dev(v), request[v].envelope>>>>
          BY <4>5 DEF opened, OpensGroup
        <5>2. v # t /\ request'[v] = request[v] /\ OpensGroup(v)' /\ Dev(v)' = Dev(v)
          BY <3>1, <3>2, <3>3, <5>1
        <5>3. ~(Dev(v)' = Dev(t)' /\ request'[v].envelope = request'[t].envelope)
          BY <1>2, <3>10, <5>2 DEF GroupInv, OpensOnce, OpensGroup
        <5>. QED
          BY <5>1, <5>2, <5>3
      <4>. HIDE DEF use
      <4>6. OneUse!Takes(t, opened, opened')
        BY <4>2, <4>4, <4>5 DEF OneUse!Takes
      <4>7. sent' = sent
        BY <3>6, <3>8, <3>10
      <4>. QED
        BY <4>6, <4>7 DEF OneUse!Next, OneUse!Decrypt, sent, opened
    <3>. QED
      BY <3>6, <3>7, <3>9, <3>10
  <2>. QED
    BY <2>1, <2>2
<1>. QED
  BY <1>1, <1>2, GroupInvariant, PTL DEF Spec, ImplementsMessageKeys, OneUse!Spec, sent, opened
=============================================================================
