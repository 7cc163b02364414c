--------------------------- MODULE GroupMessaging ---------------------------
(***************************************************************************)
(* One group on its devices.  SignalGroupClient.welcome and send, and      *)
(* SignalClient.receive of what they return, are sequences of sections     *)
(* given to the runExclusive of the device one after the other; other      *)
(* calls of the device may get between two sections of a call.             *)
(*                                                                         *)
(* A device runs its sections one at a time and in order, as SerialQueue   *)
(* says.  The 1:1 messages that carry a distribution message are opened at *)
(* most once, as ProtocolClient says.  The transport delivers what calls   *)
(* have returned, in any order, any number of times, or never.             *)
(***************************************************************************)
EXTENDS SenderKeyOps, Sequences, FiniteSets

CONSTANTS Devices,
          Senders,  \* the devices that send to the group
          Tasks     \* calls of welcome, send and receive

ASSUME GroupAssumption ==
  /\ Senders \subseteq Devices
  /\ Chains = Tasks            \* a chain is named for the call that made it
  /\ None \notin Tasks

VARIABLES senderKeys, \* senderKeys[d][s]: row of s in table sender_keys of device d
          spent,      \* spent[d]: the 1:1 messages whose key d has spent
          queue,      \* queue[d]: the calls whose section is submitted to runExclusive
          request,    \* request[t]: what call t is to do
          section,    \* section[t]: its section, the next one while it is between two
          pc,         \* pc[t]: the await it is at
          existing,   \* local variables of the call: the record it loaded,
          result,     \* the answer of the native operation,
          todo,       \* the members welcome has still to write to,
          out         \* and what it is going to return

locals == <<existing, result, todo, out>>
calls  == <<request, section, pc>>
vars   == <<senderKeys, spent, queue, calls, locals>>

Envelopes ==
       [type : {"sender-key-distribution"}, from : Devices, to : Devices, point : ChainPoint,
        by : Tasks]
  \cup [type : {"group"}, from : Devices, to : {None}, point : ChainPoint, by : {None}]
Requests ==
       [kind : {"welcome", "send"}, dev : Senders, envelope : {None}]
  \cup [kind : {"receive"}, dev : Devices, envelope : Envelopes]

Sections == {"create", "wrap", "encrypt", "unwrap", "process", "decrypt"}

ASSUME EnvelopeAssumption == None \notin Envelopes \cup Requests \cup Devices \cup Sections

Outcomes == {"returned", "SenderKeyNotFoundError", "lost"} \cup SenderKeyErrors
Running  == {"load", "op", "store", "oneToOne"}

-----------------------------------------------------------------------------

At(t, label) == pc[t] = label
Goto(t, label) == pc' = [pc EXCEPT ![t] = label]

Dev(t) == request[t].dev
Members(d) == Devices \ {d}

\* The row of sender_keys the call works on: its own, or that of the envelope's sender.
Sender(t) == IF request[t].kind = "receive" THEN request[t].envelope.from ELSE Dev(t)
Point(t)  == request[t].envelope.point

\* What calls have returned to the application, which ships it.
Emitted == UNION {out[t] : t \in {u \in Tasks : At(u, "returned")}}

Asked == [kind : {"welcome", "send"}, dev : Senders, envelope : {None}]

Arrived ==
  {r \in [kind : {"receive"}, dev : Devices, envelope : Emitted] :
     r.envelope.from # r.dev /\ r.envelope.to \in {None, r.dev}}

FirstSection(r) ==
  CASE r.kind = "welcome" -> "create"
    [] r.kind = "send" -> "encrypt"
    [] r.kind = "receive" ->
         IF r.envelope.type = "group" THEN "decrypt" ELSE "unwrap"

\* The application calls, or an envelope arrives.  Something is awaited before the
\* first section is submitted, an address that is made or a message that is parsed.
Invoke(t) ==
  /\ At(t, "idle")
  /\ \E r \in Asked \cup Arrived :
       /\ request' = [request EXCEPT ![t] = r]
       /\ section' = [section EXCEPT ![t] = FirstSection(r)]
       /\ todo' = [todo EXCEPT ![t] = IF r.kind = "welcome" THEN Members(r.dev) ELSE {}]
  /\ Goto(t, "resume")
  /\ UNCHANGED <<senderKeys, spent, queue, existing, result, out>>

\* The call submits its section.
Resume(t) ==
  /\ At(t, "resume")
  /\ queue' = [queue EXCEPT ![Dev(t)] = Append(queue[Dev(t)], t)]
  /\ Goto(t, "queued")
  /\ UNCHANGED <<senderKeys, spent, request, section, locals>>

\* Mutant of MayEnter: a section does not wait for the ones before it.
MayEnterAtOnce(t) == t \in {queue[Dev(t)][i] : i \in 1 .. Len(queue[Dev(t)])}

\* Its turn has come.
MayEnter(t) == Head(queue[Dev(t)]) = t

Enter(t) ==
  /\ At(t, "queued")
  /\ MayEnter(t)
  /\ Goto(t, IF section[t] \in {"wrap", "unwrap"} THEN "oneToOne" ELSE "load")
  /\ UNCHANGED <<senderKeys, spent, queue, request, section, locals>>

\* The section in progress, the first of the queue, settles and the next one may begin.
Leave(t) == queue' = [queue EXCEPT ![Dev(t)] = Tail(@)]

\* The section fulfils; the call goes on to another one, or returns.
EndSection(t, next) ==
  /\ Leave(t)
  /\ section' = [section EXCEPT ![t] = next]
  /\ Goto(t, IF next = None THEN "returned" ELSE "resume")

\* An exception leaves the section and the call.
Throw(t, err) == Leave(t) /\ Goto(t, err) /\ UNCHANGED section

-----------------------------------------------------------------------------
(* The sections on sender keys *)

\* Mutant: the row is taken out of the table until storeSenderKey puts it back.
LoadSenderKeyTakes(t) ==
  LET row == senderKeys[Dev(t)][Sender(t)]
  IN  /\ At(t, "load")
      /\ IF row = None /\ section[t] \in {"encrypt", "decrypt"}
         THEN Throw(t, "SenderKeyNotFoundError") /\ UNCHANGED existing
         ELSE /\ Goto(t, "op")
              /\ existing' = [existing EXCEPT ![t] = row]
              /\ UNCHANGED <<queue, section>>
      /\ senderKeys' = [senderKeys EXCEPT ![Dev(t)][Sender(t)] = None]
      /\ UNCHANGED <<spent, request, result, todo, out>>

LoadSenderKey(t) ==
  LET row == senderKeys[Dev(t)][Sender(t)]
  IN  /\ At(t, "load")
      /\ IF row = None /\ section[t] \in {"encrypt", "decrypt"}
         THEN Throw(t, "SenderKeyNotFoundError") /\ UNCHANGED existing
         ELSE /\ Goto(t, "op")
              /\ existing' = [existing EXCEPT ![t] = row]
              /\ UNCHANGED <<queue, section>>
      /\ UNCHANGED <<senderKeys, spent, request, result, todo, out>>

\* Mutant of Op: a new chain for each welcome.
OpNewChain(t) ==
  CASE section[t] = "create"  -> CreateDistributionOp(None, t)
    [] section[t] = "process" -> ProcessDistributionOp(existing[t], Point(t))
    [] section[t] = "encrypt" -> GroupEncryptOp(existing[t])
    [] section[t] = "decrypt" -> GroupDecryptOp(existing[t], Point(t))

Op(t) ==
  CASE section[t] = "create"  -> CreateDistributionOp(existing[t], t)
    [] section[t] = "process" -> ProcessDistributionOp(existing[t], Point(t))
    [] section[t] = "encrypt" -> GroupEncryptOp(existing[t])
    [] section[t] = "decrypt" -> GroupDecryptOp(existing[t], Point(t))

\* Mutant of RunOp: a message that opens is returned before the record is stored.
RunOpDecryptReturns(t) ==
  /\ At(t, "op")
  /\ IF Op(t).err # None
     THEN Throw(t, Op(t).err) /\ UNCHANGED result
     ELSE /\ IF section[t] = "decrypt" THEN EndSection(t, None)
             ELSE Goto(t, "store") /\ UNCHANGED <<queue, section>>
          /\ result' = [result EXCEPT ![t] = Op(t)]
  /\ UNCHANGED <<senderKeys, spent, request, existing, todo, out>>

RunOp(t) ==
  /\ At(t, "op")
  /\ IF Op(t).err # None
     THEN Throw(t, Op(t).err) /\ UNCHANGED result
     ELSE /\ Goto(t, "store")
          /\ result' = [result EXCEPT ![t] = Op(t)]
          /\ UNCHANGED <<queue, section>>
  /\ UNCHANGED <<senderKeys, spent, request, existing, todo, out>>

\* storeSenderKey ends the section.  A welcome goes on to its members.
StoreSenderKey(t) ==
  LET d == Dev(t)
      envelope == [type |-> "group", from |-> d, to |-> None, point |-> result[t].value,
                   by |-> None]
  IN  /\ At(t, "store")
      /\ senderKeys' = [senderKeys EXCEPT ![d][Sender(t)] = result[t].record]
      /\ EndSection(t, IF section[t] = "create" /\ todo[t] # {} THEN "wrap" ELSE None)
      /\ existing' = [existing EXCEPT ![t] = None]
      /\ out' = [out EXCEPT ![t] = IF section[t] = "encrypt" THEN {envelope} ELSE {}]
      /\ UNCHANGED <<spent, request, result, todo>>

-----------------------------------------------------------------------------
(* The sections on 1:1 sessions *)

\* SessionCipher.encrypt of the distribution message for one member after the other.
Wrap(t) ==
  /\ At(t, "oneToOne")
  /\ section[t] = "wrap"
  /\ \E m \in todo[t] :
       LET envelope == [type |-> "sender-key-distribution", from |-> Dev(t), to |-> m,
                        point |-> result[t].value, by |-> t]
       IN  /\ out' = [out EXCEPT ![t] = out[t] \cup {envelope}]
           /\ todo' = [todo EXCEPT ![t] = todo[t] \ {m}]
           /\ EndSection(t, IF todo[t] = {m} THEN None ELSE "wrap")
  /\ UNCHANGED <<senderKeys, spent, request, existing, result>>

\* Decrypting the distribution message spends the 1:1 message that carried it.
Unwrap(t) ==
  /\ At(t, "oneToOne")
  /\ section[t] = "unwrap"
  /\ IF request[t].envelope \in spent[Dev(t)]
     THEN Throw(t, "rejected") /\ UNCHANGED spent
     ELSE /\ spent' = [spent EXCEPT ![Dev(t)] = spent[Dev(t)] \cup {request[t].envelope}]
          /\ EndSection(t, "process")
  /\ UNCHANGED <<senderKeys, request, locals>>

\* Decrypting fails after the session was stored.  The catch of receive tries the
\* envelope as the other kind of 1:1 message, which it is not.
UnwrapFails(t) ==
  /\ At(t, "oneToOne")
  /\ section[t] = "unwrap"
  /\ spent' = [spent EXCEPT ![Dev(t)] = spent[Dev(t)] \cup {request[t].envelope}]
  /\ Throw(t, "rejected")
  /\ UNCHANGED <<senderKeys, request, locals>>

\* A statement, the native module or what is awaited between two sections rejects.
Fails(t) ==
  /\ \/ pc[t] \in Running /\ Throw(t, "rejected")
     \/ At(t, "resume") /\ Goto(t, "rejected") /\ UNCHANGED <<queue, section>>
  /\ UNCHANGED <<senderKeys, spent, request, locals>>

\* The process of the device dies and is started again.
Kill(d) ==
  /\ pc' = [t \in Tasks |-> IF pc[t] \in {"resume", "queued"} \cup Running /\ Dev(t) = d
                            THEN "lost" ELSE pc[t]]
  /\ queue' = [queue EXCEPT ![d] = << >>]
  /\ UNCHANGED <<senderKeys, spent, request, section, locals>>

-----------------------------------------------------------------------------

Init ==
  /\ senderKeys = [d \in Devices |-> [s \in Devices |-> None]]
  /\ spent = [d \in Devices |-> {}]
  /\ queue = [d \in Devices |-> << >>]
  /\ request = [t \in Tasks |-> None]
  /\ section = [t \in Tasks |-> None]
  /\ pc = [t \in Tasks |-> "idle"]
  /\ existing = [t \in Tasks |-> None]
  /\ result = [t \in Tasks |-> Failed(None)]
  /\ todo = [t \in Tasks |-> {}]
  /\ out = [t \in Tasks |-> {}]

Step(t) == \/ Resume(t) \/ Enter(t) \/ LoadSenderKey(t) \/ RunOp(t) \/ StoreSenderKey(t)
           \/ Wrap(t) \/ Unwrap(t)

Next == \/ \E t \in Tasks : Invoke(t) \/ Step(t) \/ UnwrapFails(t) \/ Fails(t)
        \/ \E d \in Devices : Kill(d)

Spec == Init /\ [][Next]_vars

\* A section that has begun goes on: the database and the native module answer.
FairSpec == Spec /\ \A t \in Tasks : WF_vars(Step(t))

-----------------------------------------------------------------------------
(* Safety *)

Finished(t, kind) == At(t, "returned") /\ request[t].kind = kind

\* Two group messages are never encrypted with one iteration of a chain: GroupCipher
\* .encrypt of a device reads and writes its row in turn, over kills and failures.
NoIterationReuse ==
  \A t, u \in Tasks : t # u /\ Finished(t, "send") => out[t] \cap out[u] = {}

\* A device opens a group message once: GroupCipher.decrypt stores the record without
\* its key before it returns, and no distribution message brings the key back.
OpensOnce ==
  \A t, u \in Tasks :
    t # u /\ Finished(t, "receive") /\ Finished(u, "receive") /\ Dev(t) = Dev(u) =>
      ~(request[t].envelope = request[u].envelope /\ request[t].envelope.type = "group")

\* What sends have returned, and what receives have opened on their devices.
OneUse == INSTANCE MessageKeys WITH
  Calls  <- Tasks,
  Keys   <- Devices \X Envelopes,
  sent   <- UNION {{<<t, <<Dev(t), e>>>> : e \in out[t]} : t \in {u \in Tasks :
               Finished(u, "send")}},
  opened <- {<<t, <<Dev(t), request[t].envelope>>>> : t \in {u \in Tasks :
               Finished(u, "receive") /\ request[u].envelope.type = "group"}}

\* The devices of a group with their sections, failures and kills implement what ciphers
\* promise: a step hands out at most one group message, with an iteration of a chain that
\* none had before, or opens at most one that its device had not opened, and for good.
ImplementsMessageKeys == OneUse!Spec

\* The welcomes device d has processed.
Welcomes(d) ==
  {request[t].envelope : t \in {u \in Tasks :
     /\ Finished(u, "receive") /\ Dev(u) = d
     /\ request[u].envelope.type = "sender-key-distribution"}}

Opened(d, e) ==
  \E t \in Tasks : Finished(t, "receive") /\ Dev(t) = d /\ request[t].envelope = e

\* Members that were welcomed at different times are in one conversation, because
\* welcome goes on with the chain there is: whichever welcomes a device has processed, it
\* can open in any order every message that their sender encrypts after them.
WelcomedOpens ==
  \A d \in Devices : \A e \in {m \in Emitted : m.type = "group"} :
    LET ws == {w \in Welcomes(d) : w.from = e.from}
    IN  ws # {} /\ (\A w \in ws : e.point.iter >= w.point.iter) =>
          Opens(senderKeys[d][e.from], e.point) \/ Opened(d, e)

\* What a device can open stays so until it opens it: receive of a later welcome adds to
\* the record, and no failure or kill takes anything away.
StaysOpen ==
  [][\A d \in Devices : \A e \in {m \in Emitted : m.type = "group" /\ m.from # d} :
       Opens(senderKeys[d][e.from], e.point) =>
         Opens(senderKeys'[d][e.from], e.point) \/ Opened(d, e)']_vars

-----------------------------------------------------------------------------
(* The inductive invariant of these properties *)

Active(t) == pc[t] \in {"resume", "queued"} \cup Running

\* The chain a record names as current has a state, and what was skipped is behind.
WellFormed(record) ==
  record # None =>
    /\ HasChain(record, record.current)
    /\ \A c \in Chains : HasChain(record, c) =>
         \A i \in record.states[c].skipped : i < record.states[c].next

GroupTypeOK ==
  /\ senderKeys \in [Devices -> [Devices -> SenderKeyRecord \cup {None}]]
  /\ spent \in [Devices -> SUBSET Envelopes]
  /\ queue \in [Devices -> Seq(Tasks)]
  /\ request \in [Tasks -> Requests \cup {None}]
  /\ section \in [Tasks -> Sections \cup {None}]
  /\ pc \in [Tasks -> {"idle", "resume", "queued"} \cup Running \cup Outcomes]
  /\ existing \in [Tasks -> SenderKeyRecord \cup {None}]
  /\ result \in [Tasks -> Result]
  /\ todo \in [Tasks -> SUBSET Devices]
  /\ out \in [Tasks -> SUBSET Envelopes]

\* The sections of a call are those of its kind, and the 1:1 ones have an await of
\* their own.
SectionsOf(r) ==
  CASE r.kind = "welcome" -> {"create", "wrap"}
    [] r.kind = "send" -> {"encrypt"}
    [] r.kind = "receive" ->
         IF r.envelope.type = "group" THEN {"decrypt"} ELSE {"unwrap", "process"}

CallInv(t) ==
  /\ ~At(t, "idle") => request[t] \in Requests
  /\ request[t] # None /\ request[t].kind = "receive" => request[t].envelope.from # Dev(t)
  /\ Active(t) => section[t] \in SectionsOf(request[t])
  /\ pc[t] \in Running => (At(t, "oneToOne") <=> section[t] \in {"wrap", "unwrap"})

\* A section in progress is the first of its queue, so there is one on a device.
TurnInv(t) ==
  /\ pc[t] \in {"queued"} \cup Running =>
       \E i \in 1 .. Len(queue[Dev(t)]) : queue[Dev(t)][i] = t
  /\ pc[t] \in Running => Head(queue[Dev(t)]) = t

\* The row a section has read is still there, and what it will store is made from it.
HeldInv(t) ==
  /\ pc[t] \in {"op", "store"} => existing[t] = senderKeys[Dev(t)][Sender(t)]
  /\ At(t, "op") /\ section[t] \in {"encrypt", "decrypt"} => existing[t] # None
  /\ At(t, "store") => result[t] = Op(t) /\ result[t].err = None
                        /\ (section[t] \in {"encrypt", "decrypt"} => existing[t] # None)

\* Whatever a device sends to the group is of its one chain.
OfChain(d, point) ==
  senderKeys[d][d] # None /\ point # None /\ senderKeys[d][d].current = point.chain

OfChainInv(t) ==
  /\ \A e \in out[t] : OfChain(e.from, e.point)
  /\ request[t] # None /\ request[t].kind = "receive" => OfChain(Sender(t), Point(t))
  /\ Active(t) /\ section[t] = "wrap" => OfChain(Dev(t), result[t].value)

\* A message that was sent is behind its sender's row.
SentInv(t) ==
  \A e \in out[t] :
    /\ e.from = Dev(t) /\ ~At(t, "idle")
    /\ e.type = "group" => /\ Finished(t, "send")
                           /\ e.point.iter < senderKeys[Dev(t)][Dev(t)].states[e.point.chain].next
    /\ e.type = "sender-key-distribution" => request[t].kind = "welcome"

\* A message that was opened does not open again; a welcome that was processed left its
\* chain.
ReceivedInv(t) ==
  Finished(t, "receive") =>
    /\ HasChain(senderKeys[Dev(t)][Sender(t)], Point(t).chain)
    /\ request[t].envelope.type = "group" => ~Opens(senderKeys[Dev(t)][Sender(t)], Point(t))

\* The iterations of a chain that device d has opened.
OpenedOf(d, s, c) ==
  {Point(t).iter : t \in {u \in Tasks :
     /\ Finished(u, "receive") /\ Dev(u) = d /\ Sender(u) = s
     /\ request[u].envelope.type = "group" /\ Point(u).chain = c}}

\* A chain a device has of another one began at a welcome, and of what follows it the
\* record has passed only what it kept or has opened.
BeganInv ==
  \A d, s \in Devices : \A c \in Chains :
    d # s /\ HasChain(senderKeys[d][s], c) =>
      \E w \in Welcomes(d) :
        /\ w.from = s /\ w.point.chain = c
        /\ LET state == senderKeys[d][s].states[c]
           IN  \A i \in w.point.iter .. (state.next - 1) :
                 i \in state.skipped \cup OpenedOf(d, s, c)

GroupInv ==
  /\ GroupTypeOK
  /\ \A d, s \in Devices : WellFormed(senderKeys[d][s])
  /\ \A t \in Tasks : /\ CallInv(t) /\ TurnInv(t) /\ HeldInv(t) /\ OfChainInv(t)
                     /\ SentInv(t) /\ ReceivedInv(t)
  /\ BeganInv
  /\ NoIterationReuse
  /\ OpensOnce

-----------------------------------------------------------------------------
(* What the documentation says and the code does not do *)

\* README.md:341 says of SenderKeyNotFoundError that no distribution message was
\* exchanged: it is not thrown on a device that has decrypted one of that sender.
NotFoundMeansNotExchanged ==
  [][\A t, u \in Tasks :
       /\ pc'[t] = "SenderKeyNotFoundError" /\ At(t, "load") /\ request[t].kind = "receive"
       /\ section[u] = "process" /\ pc[u] \in {"resume", "queued"}
       => Dev(u) # Dev(t) \/ Sender(u) # Sender(t)]_vars
=============================================================================
