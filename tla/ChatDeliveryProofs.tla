------------------------ MODULE ChatDeliveryProofs ------------------------
(***************************************************************************)
(* Proofs about ChatDelivery: ChatInv is an invariant, and the safety      *)
(* properties of the histories follow from it.                             *)
(*                                                                         *)
(* A call does not change once it is made, and rows and conversations are  *)
(* only added (Keeps).  So what is said of a call, an envelope, a handler  *)
(* or a row stays true of it, and each step is left with what it adds.     *)
(***************************************************************************)
EXTENDS ChatDelivery, FiniteSetTheorems, TLAPS

-----------------------------------------------------------------------------
(* Least and greatest personas *)

\* A non-empty set of personas has a least one: the one below which it has the fewest.
LEMMA MinOfPersonas ==
  ASSUME NEW S \in SUBSET Personas, S # {}
  PROVE  Min(S) \in S /\ \A y \in S : Min(S) <= y
PROOF
  <1> USE ChatAssumption DEF Personas
  <1> DEFINE R == StrictSubsetOrdering(1 .. N)
             Below == {S \cap (1 .. k) : k \in S}
  <1>1. IsWellFoundedOn(R, SUBSET (1 .. N))
    <2>1. IsFiniteSet(1 .. N)
      BY FS_Interval
    <2>2. FiniteSubsetsOf(1 .. N) = SUBSET (1 .. N)
      BY <2>1, FS_FiniteSubsetsOfFinite
    <2> QED BY <2>2, FS_StrictSubsetOrderingWellFounded
  <1>2. Below \subseteq SUBSET (1 .. N) /\ Below # {}
    OBVIOUS
  <1>3. PICK B \in Below : \A C \in Below : <<C, B>> \notin R
    <2> HIDE DEF R, Below
    <2> QED BY <1>1, <1>2, WFMin
  <1>4. PICK k \in S : B = S \cap (1 .. k)
    BY <1>3
  <1>5. ASSUME NEW y \in S, y < k PROVE FALSE
    <2>1. S \cap (1 .. y) \in Below
      OBVIOUS
    <2>2. S \cap (1 .. y) \subseteq B /\ S \cap (1 .. y) # B
      <3>1. k \in B /\ k \notin S \cap (1 .. y)
        BY <1>4, <1>5
      <3>2. \A x \in S \cap (1 .. y) : x \in B
        BY <1>4, <1>5
      <3> QED BY <3>1, <3>2
    <2>3. <<S \cap (1 .. y), B>> \in R
      BY <2>2, <1>4 DEF StrictSubsetOrdering
    <2> QED BY <2>1, <2>3, <1>3
  <1>6. \A y \in S : k <= y
    BY <1>5
  <1> QED BY <1>6 DEF Min

\* The last peer of a persona: there is one, because there are two personas.
LEMMA MaxOfPeers ==
  ASSUME NEW p \in Personas
  PROVE  Max(Peers(p)) \in Peers(p)
PROOF
  <1> DEFINE last == IF p = N THEN N - 1 ELSE N
  <1>1. last \in Peers(p) /\ \A y \in Peers(p) : last >= y
    BY ChatAssumption DEF Peers, Personas
  <1> HIDE DEF last
  <1> QED BY <1>1 DEF Max

\* The envelope that Ship takes is one of those the call has made.
LEMMA NextToShip ==
  ASSUME NEW out \in SUBSET Envelope, out # {}
  PROVE  (CHOOSE f \in out : \A g \in out : f.to <= g.to) \in out
PROOF
  <1> DEFINE S == {f.to : f \in out}
  <1>1. S \in SUBSET Personas /\ S # {}
    BY DEF Envelope
  <1>2. PICK f \in out : f.to = Min(S)
    BY <1>1, MinOfPersonas
  <1>3. \A g \in out : f.to <= g.to
    <2>1. \A y \in S : Min(S) <= y
      BY <1>1, MinOfPersonas
    <2>2. \A g \in out : g.to \in S
      OBVIOUS
    <2> HIDE DEF S
    <2> QED BY <1>2, <2>1, <2>2
  <1> QED BY <1>3

-----------------------------------------------------------------------------
(* Types *)

Labels == SendLabels \cup {"returned", "stopped"}

\* The step changes call t in its label and in what it has to ship.
Moved(t, l, o) == call' = [call EXCEPT ![t].pc = l, ![t].out = o]

\* What is left of a call that is moved.
LEMMA MovedCall ==
  ASSUME TypeOK, NEW t \in Calls, call[t] # None,
         NEW l \in Labels, NEW o \in SUBSET Envelope, Moved(t, l, o)
  PROVE  /\ call' \in [Calls -> Call \cup {None}]
         /\ call'[t] # None
         /\ call'[t].pc = l /\ call'[t].out = o
         /\ call'[t].who = call[t].who /\ call'[t].conv = call[t].conv
         /\ call'[t].sealed = call[t].sealed /\ call'[t].sentAt = call[t].sentAt
         /\ call'[t].mount = call[t].mount
         /\ \A u \in Calls : u # t => call'[u] = call[u]
PROOF
  <1> DEFINE c == [call[t] EXCEPT !.pc = l, !.out = o]
  <1>1. call[t] \in Call
    BY DEF TypeOK
  <1>2. /\ c \in Call /\ c.pc = l /\ c.out = o /\ c.who = call[t].who /\ c.conv = call[t].conv
        /\ c.sealed = call[t].sealed /\ c.sentAt = call[t].sentAt /\ c.mount = call[t].mount
    BY <1>1 DEF Call, Labels
  <1>3. call' = [call EXCEPT ![t] = c]
    BY DEF Moved
  <1> HIDE DEF c
  <1> QED BY <1>2, <1>3, NoneAssumption DEF TypeOK

\* A conversation whose flag or time is set is one still.
LEMMA SetConversation ==
  ASSUME NEW f, f \in [DOMAIN f -> Conversation], NEW c, NEW v \in BOOLEAN, NEW n \in Nat
  PROVE  /\ DOMAIN [f EXCEPT ![c].sealed = v] = DOMAIN f
         /\ [f EXCEPT ![c].sealed = v] \in [DOMAIN f -> Conversation]
         /\ DOMAIN [f EXCEPT ![c].last = n] = DOMAIN f
         /\ [f EXCEPT ![c].last = n] \in [DOMAIN f -> Conversation]
PROOF
  <1> DEFINE r == [f[c] EXCEPT !.sealed = v]
             s == [f[c] EXCEPT !.last = n]
  <1>1. c \in DOMAIN f => r \in Conversation /\ s \in Conversation
    BY DEF Conversation
  <1>2. /\ [f EXCEPT ![c] = r] \in [DOMAIN f -> Conversation]
        /\ [f EXCEPT ![c] = s] \in [DOMAIN f -> Conversation]
    <2> HIDE DEF r, s
    <2> QED BY <1>1
  <1> QED BY <1>2

\* What stands for no session has the type of one.
LEMMA NoSessionTypes == NoSession \in Session
PROOF
  BY ChatAssumption DEF NoSession, Session, Personas

\* The initial state is well typed.
LEMMA InitTypes == Init => TypeOK
PROOF
  BY NoSessionTypes, ChatAssumption
  DEF Init, TypeOK, NothingRendered, Stages, Calls, Conversation, Record

\* An operation of the client stores a record.
LEMMA UseRecord ==
  ASSUME NEW r \in Record, NEW old, NEW s \in Session
  PROVE  Use(r, old, s) \in Record
PROOF
  BY DEF Use, Record

\* Opening a message stores a record.
LEMMA OpenedRecord ==
  ASSUME TypeOK, NEW e \in Envelope, Opened(e)
  PROVE  record' \in [Personas -> [Personas -> Record]]
PROOF
  <1> DEFINE r == record[e.to][e.from]
             old == IF e.sealed THEN r.held ELSE Found(e)
  <1>1. /\ e.to \in Personas /\ e.from \in Personas /\ e.text \in Calls /\ e.session \in Session
        /\ r \in Record
    BY DEF TypeOK, Envelope
  <1>2. Promoted(e) \in Session
    <2>1. [e.session EXCEPT !.built = e.text] \in Session
      BY <1>1 DEF Session
    <2>2. Found(e) \in SUBSET Session
      BY <1>1 DEF Found, Record
    <2>3. Found(e) # {} => (CHOOSE s \in Found(e) : TRUE) \in Session
      BY <2>2
    <2> QED BY <1>1, <2>1, <2>3 DEF Promoted
  <1>3. Use(r, old, Promoted(e)) \in Record
    <2> HIDE DEF r, old
    <2> QED BY <1>1, <1>2, UseRecord
  <1>4. CASE e.kind = "group"
    BY <1>4 DEF Opened, TypeOK
  <1>5. CASE e.kind # "group"
    <2>1. record' = [record EXCEPT ![e.to][e.from] = Use(r, old, Promoted(e))]
      BY <1>5 DEF Opened
    <2> HIDE DEF r, old
    <2> QED BY <1>1, <1>3, <2>1 DEF TypeOK
  <1> QED BY <1>4, <1>5

\* The steps of the screen keep the types.
LEMMA ScreenTypes ==
  ASSUME TypeOK, ReadyInv,
         \/ Mount \/ MountStep \/ MountFails \/ Unmount
         \/ \E p, q \in Personas : SetSealed(p, q) \/ RefreshConversation(p, q)
  PROVE  TypeOK'
PROOF
  <1> USE DEF TypeOK, screen, tables, client, Stages
  <1>1. CASE Mount
    BY <1>1 DEF Mount, Event
  <1>2. ASSUME NEW p \in Personas, Attach(p) PROVE TypeOK'
    BY <1>2 DEF Attach, Subscribe
  <1>3. ASSUME NEW pq \in Pairs, StartSession(pq[1], pq[2]) PROVE TypeOK'
    <2> DEFINE p == pq[1]
               q == pq[2]
               s == [by |-> p, mount |-> mount, built |-> None]
    <2>1. s \in Session /\ p \in Personas /\ q \in Personas
      BY DEF Session, Pairs
    <2>2. Use(record[p][q], {}, s) \in Record
      <3> HIDE DEF s
      <3> QED BY <2>1, UseRecord
    <2>3. record' \in [Personas -> [Personas -> Record]]
      BY <1>3, <2>1, <2>2 DEF StartSession
    <2> QED BY <1>3, <2>1, <2>3 DEF StartSession
  <1>4. ASSUME NEW p \in Personas, NEW c \in ConvId, CreateMissing(p, c) PROVE TypeOK'
    BY <1>4 DEF CreateMissing, CreateConversation, Conversation
  <1>5. CASE Ready
    BY <1>5 DEF Ready, Conversation, ConvId
  <1>6. CASE MountFails
    BY <1>6 DEF MountFails, Event
  <1>7. CASE Unmount
    BY <1>7 DEF Unmount, UnsubscribeAll, NothingRendered
  <1>8. ASSUME NEW p \in Personas, NEW q \in Personas, SetSealed(p, q) PROVE TypeOK'
    <2> DEFINE list == [conversations[p] EXCEPT ![q].sealed = ~rendered[p][q]]
    <2>1. conversations' = [conversations EXCEPT ![p] = list]
      BY <1>8 DEF SetSealed, SetSealedDefault
    <2>2. DOMAIN list = DOMAIN conversations[p] /\ list \in [DOMAIN list -> Conversation]
      BY SetConversation, 0 \in Nat
    <2> HIDE DEF list
    <2> QED BY <1>8, <2>1, <2>2 DEF SetSealed, Event
  <1>9. ASSUME NEW p \in Personas, NEW q \in Personas, RefreshConversation(p, q) PROVE TypeOK'
    <2>1. conversations[p][q].sealed \in BOOLEAN
      BY <1>9 DEF RefreshConversation, ReadyInv, Conversation, ConvId
    <2> QED BY <1>9, <2>1 DEF RefreshConversation
  <1> QED BY <1>1, <1>2, <1>3, <1>4, <1>5, <1>6, <1>7, <1>8, <1>9 DEF MountStep
-----------------------------------------------------------------------------
(* What the steps of send do to its call *)

\* Call t makes envelope e for q, under the iteration of the others, and goes on to l.
AddsWelcome(t, q, e, l) ==
  /\ e.kind = "welcome" /\ e.text = t /\ e.from = call[t].who /\ e.to = q
  /\ q \in Peers(call[t].who)
  /\ l = "welcome" => q # Max(Peers(call[t].who))
  /\ \A f \in call[t].out : f.iteration = e.iteration

\* Welcome adds one envelope, for a peer that has none yet.
LEMMA WelcomeMoves ==
  ASSUME TypeOK, CallInv, NEW t \in Calls, NEW q \in Personas, Welcome(t, q)
  PROVE  \E e \in Envelope, l \in {"welcome", "invite"} :
           Moved(t, l, call[t].out \cup {e}) /\ AddsWelcome(t, q, e, l)
PROOF
  <1> DEFINE p == call[t].who
             made == call[t].out
             it == IF made = {} THEN iteration[p] ELSE Min({f.iteration : f \in made})
             e == Pairwise("welcome", t, p, q, FALSE, it)
             l == IF q = Max(Peers(p)) THEN "invite" ELSE "welcome"
             left == Peers(p) \ {f.to : f \in made}
  <1>1. call[t] \in Call /\ p \in Personas /\ made \in SUBSET Envelope
    BY DEF Welcome, At, Call, TypeOK
  <1>2. it \in Nat /\ \A f \in made : f.iteration = it
    <2>1. CASE made = {}
      BY <2>1, <1>1 DEF TypeOK
    <2>2. ASSUME NEW f \in made PROVE it \in Nat /\ it = f.iteration
      <3>1. {g.iteration : g \in made} = {f.iteration}
        BY DEF Welcome, CallInv, Ships, At
      <3>2. f.iteration \in Nat
        BY <1>1 DEF Envelope
      <3>3. Min({f.iteration}) = f.iteration
        BY <3>2 DEF Min
      <3> HIDE DEF p
      <3> QED BY <3>1, <3>2, <3>3
    <2> HIDE DEF it
    <2> QED BY <2>1, <2>2
  <1>3. q \in Peers(p)
    <2>1. q = Min(left)
      BY DEF Welcome
    <2>2. Max(Peers(p)) \in left
      BY <1>1, MaxOfPeers DEF Welcome, CallInv, Ships, At
    <2>3. left \in SUBSET Personas
      BY DEF Peers
    <2>4. Min(left) \in left
      <3> HIDE DEF left
      <3> QED BY <2>2, <2>3, MinOfPersonas
    <2> QED BY <2>1, <2>4
  <1>4. e \in Envelope /\ e.kind = "welcome" /\ e.text = t /\ e.from = p /\ e.to = q
        /\ e.iteration = it
    <2>1. record[p][q].current \in Session
      BY <1>1 DEF TypeOK, Record
    <2> HIDE DEF it, p
    <2> QED BY <1>1, <1>2, <2>1 DEF Pairwise, Envelope
  <1>5. Moved(t, l, made \cup {e})
    <2>1. call' = [call EXCEPT ![t] = [call[t] EXCEPT !.out = made \cup {e}, !.pc = l]]
      BY DEF Welcome
    <2>2. [call[t] EXCEPT !.out = made \cup {e}, !.pc = l]
            = [call[t] EXCEPT !.pc = l, !.out = made \cup {e}]
      <3> HIDE DEF e, l
      <3> QED BY <1>1 DEF Call
    <2> HIDE DEF e, l
    <2> QED BY <2>1, <2>2 DEF Moved
  <1>6. l \in {"welcome", "invite"} /\ (l = "welcome" => q # Max(Peers(p)))
    OBVIOUS
  <1> HIDE DEF e, l, it
  <1> QED BY <1>2, <1>3, <1>4, <1>5, <1>6 DEF AddsWelcome

\* Encrypt makes the message, or one envelope per member of the group.
LEMMA EncryptMoves ==
  ASSUME TypeOK, CallInv, NEW t \in Calls, Encrypt(t)
  PROVE  \E o \in SUBSET Envelope :
           /\ Moved(t, "insert", o) /\ o # {}
           /\ \A e \in o :
                /\ e.kind # "welcome" /\ e.text = t /\ e.from = call[t].who /\ e.to # e.from
                /\ e.kind = "message" => e.to = call[t].conv /\ e.sealed = call[t].sealed
                /\ e.kind = "group" => call[t].conv = Group /\ e.sealed = call[t].sealed
           /\ \A e, f \in o : e.to = f.to => e = f
PROOF
  <1> DEFINE p == call[t].who
             c == call[t].conv
             m == Pairwise("message", t, p, c, call[t].sealed, 0)
             g(q) == [kind |-> "group", text |-> t, from |-> p, to |-> q, sealed |-> FALSE,
                      handshake |-> FALSE, session |-> NoSession, iteration |-> iteration[p]]
             o == IF c # Group THEN {m} ELSE {g(q) : q \in Peers(p)}
  <1>1. call[t] \in Call /\ p \in Personas /\ c \in ConvId /\ call[t].sealed \in BOOLEAN
    BY DEF Encrypt, At, Call, TypeOK
  <1>2. c \in DOMAIN conversations[p] /\ (c = Group => call[t].sealed = FALSE)
    BY <1>1 DEF CallInv, Pressed, Encrypt, At
  <1>3. c # p
    BY <1>1, <1>2 DEF TypeOK
  <1>4. Moved(t, "insert", o)
    BY DEF Encrypt, Moved
  <1>5. ASSUME c # Group
        PROVE  /\ m \in Envelope /\ m.kind = "message" /\ m.text = t /\ m.from = p
               /\ m.to = c /\ m.sealed = call[t].sealed
    <2>1. c \in Personas
      BY <1>1, <1>5 DEF ConvId
    <2>2. record[p][c].current \in Session
      BY <2>1, <1>1 DEF TypeOK, Record
    <2> HIDE DEF p, c
    <2> QED BY <1>1, <2>1, <2>2 DEF Pairwise, Envelope
  <1>6. ASSUME NEW q \in Peers(p)
        PROVE  /\ g(q) \in Envelope /\ g(q).kind = "group" /\ g(q).text = t
               /\ g(q).from = p /\ g(q).to = q /\ g(q).sealed = FALSE /\ q # p
    <2>1. iteration[p] \in Nat /\ q \in Personas /\ q # p
      BY <1>1 DEF TypeOK, Peers
    <2> HIDE DEF p
    <2> QED BY <1>1, <2>1, NoSessionTypes DEF Envelope
  <1>7. Peers(p) # {}
    BY <1>1, MaxOfPeers
  <1> HIDE DEF m, g, p, c
  <1>8. o \in SUBSET Envelope /\ o # {}
    BY <1>5, <1>6, <1>7
  <1>9. \A e \in o :
          /\ e.kind # "welcome" /\ e.text = t /\ e.from = p /\ e.to # e.from
          /\ e.kind = "message" => e.to = c /\ e.sealed = call[t].sealed
          /\ e.kind = "group" => c = Group /\ e.sealed = call[t].sealed
    <2>1. CASE c # Group
      BY <2>1, <1>5, <1>3
    <2>2. ASSUME c = Group, NEW e \in o
          PROVE  e.kind = "group" /\ e.text = t /\ e.from = p /\ e.to # p /\ e.sealed = FALSE
      <3>1. PICK q \in Peers(p) : e = g(q)
        BY <2>2
      <3> HIDE DEF o
      <3> QED BY <3>1, <1>6
    <2> HIDE DEF o
    <2> QED BY <2>1, <2>2, <1>2
  <1>10. ASSUME NEW e \in o, NEW f \in o, e.to = f.to PROVE e = f
    <2>1. CASE c # Group
      BY <2>1
    <2>2. CASE c = Group
      <3>1. PICK q \in Peers(p), r \in Peers(p) : e = g(q) /\ f = g(r)
        BY <2>2
      <3>2. g(q).to = q /\ g(r).to = r
        BY <1>6
      <3> HIDE DEF o
      <3> QED BY <3>1, <3>2, <1>10
    <2> QED BY <2>1, <2>2
  <1> HIDE DEF o
  <1> QED BY <1>4, <1>8, <1>9, <1>10 DEF p, c

\* Insert moves its call to the second statement, and leaves what it has to ship.
LEMMA InsertMoves ==
  ASSUME TypeOK, NEW t \in Calls, Insert(t)
  PROVE  call[t] # None /\ Moved(t, "touch", call[t].out)
PROOF
  <1>1. call[t] \in Call /\ call[t] # None
    BY DEF Insert, At, TypeOK
  <1>2. [call[t] EXCEPT !.pc = "touch"] = [call[t] EXCEPT !.pc = "touch", !.out = call[t].out]
    BY <1>1 DEF Call
  <1> QED BY <1>1, <1>2 DEF Insert, Goto, Moved

\* Touch moves its call to the shipping, and leaves what it has to ship.
LEMMA TouchMoves ==
  ASSUME TypeOK, NEW t \in Calls, Touch(t)
  PROVE  call[t] # None /\ Moved(t, "ship", call[t].out)
PROOF
  <1>1. call[t] \in Call /\ call[t] # None
    BY DEF Touch, At, TypeOK
  <1>2. [call[t] EXCEPT !.pc = "ship"] = [call[t] EXCEPT !.pc = "ship", !.out = call[t].out]
    BY <1>1 DEF Call
  <1> QED BY <1>1, <1>2 DEF Touch, Goto, Moved

\* The labels after "invite" and "ship".
Done(t) == IF At(t, "invite") THEN "encrypt" ELSE "returned"

\* Ship hands one envelope to its subscriber, or stops the call.
LEMMA ShipMoves ==
  ASSUME TypeOK, CallInv, NEW t \in Calls, Ship(t)
  PROVE  \/ /\ Moved(t, "stopped", {}) /\ handling' = handling
         \/ \E e \in call[t].out : \E l \in Labels :
              /\ Moved(t, l, call[t].out \ {e})
              /\ l = IF call[t].out \ {e} = {} THEN Done(t) ELSE call[t].pc
              /\ handling' = handling \cup
                   {[pc |-> "decrypt", env |-> e, sentAt |-> 0, mount |-> mount]}
PROOF
  <1> DEFINE e == CHOOSE f \in call[t].out : \A g \in call[t].out : f.to <= g.to
             rest == call[t].out \ {e}
             l == IF rest = {} THEN Done(t) ELSE call[t].pc
  <1>1. call[t] \in Call /\ call[t].out # {} /\ call[t].out \in SUBSET Envelope
    BY DEF Ship, At, CallInv, Ships, TypeOK, Call
  <1>2. e \in call[t].out
    BY <1>1, NextToShip
  <1>3. l \in Labels
    BY <1>1 DEF Call, Labels, SendLabels, Done
  <1>4. CASE Rejected(t) /\ UNCHANGED handling
    BY <1>4 DEF Rejected, Moved
  <1>5. CASE /\ handling' = handling \cup
                   {[pc |-> "decrypt", env |-> e, sentAt |-> 0, mount |-> mount]}
             /\ call' = [call EXCEPT ![t].out = rest,
                                     ![t].pc = IF rest = {} THEN Done(t) ELSE @]
    <2>1. call' = [call EXCEPT ![t] = [call[t] EXCEPT !.out = rest, !.pc = l]]
      BY <1>5
    <2>2. [call[t] EXCEPT !.out = rest, !.pc = l] = [call[t] EXCEPT !.pc = l, !.out = rest]
      <3> HIDE DEF rest, l
      <3> QED BY <1>1 DEF Call
    <2>3. Moved(t, l, rest)
      <3> HIDE DEF rest, l
      <3> QED BY <2>1, <2>2 DEF Moved
    <2>4. l = IF rest = {} THEN Done(t) ELSE call[t].pc
      OBVIOUS
    <2> HIDE DEF e, l
    <2> QED BY <2>3, <2>4, <1>5, <1>2, <1>3
  <1> QED BY <1>4, <1>5 DEF Ship, Done

\* The steps of a call of send keep the types.
LEMMA SendTypes ==
  ASSUME TypeOK, CallInv, NEW t \in Calls,
         \/ SendStep(t) \/ SendFails(t)
         \/ \E p \in Personas, c \in ConvId : Press(t, p, c)
  PROVE  TypeOK'
PROOF
  <1> USE DEF screen, tables, client
  <1> DEFINE Typed == call' \in [Calls -> Call \cup {None}]
  <1>0. call[t] # None => call[t] \in Call /\ call[t].out \in SUBSET Envelope
    BY DEF TypeOK, Call
  <1>1. ASSUME NEW p \in Personas, NEW c \in ConvId, Press(t, p, c) PROVE TypeOK'
    <2> DEFINE new == [pc |-> IF c = Group THEN "welcome" ELSE "encrypt", who |-> p,
                       conv |-> c, sealed |-> c # Group /\ rendered[p][c],
                       sentAt |-> now', mount |-> mount, out |-> {}]
    <2>1. call' = [call EXCEPT ![t] = new]
      BY <1>1 DEF Press
    <2>2. new \in Call
      <3>1. (c # Group /\ rendered[p][c]) \in BOOLEAN
        OBVIOUS
      <3>2. now' \in Nat /\ mount \in Nat
        BY <1>1 DEF Press, TypeOK
      <3> QED BY <3>1, <3>2 DEF Call, SendLabels
    <2>3. Typed
      <3> HIDE DEF new
      <3> QED BY <2>1, <2>2 DEF TypeOK
    <2> QED BY <1>1, <2>3 DEF Press, TypeOK
  <1>2. ASSUME NEW q \in Personas, Welcome(t, q) PROVE TypeOK'
    <2>1. PICK e \in Envelope, l \in {"welcome", "invite"} : Moved(t, l, call[t].out \cup {e})
      BY <1>2, WelcomeMoves
    <2>2. Typed
      <3>1. l \in Labels /\ call[t] # None
        BY <1>2 DEF Labels, SendLabels, Welcome, At
      <3>2. call[t].out \cup {e} \in SUBSET Envelope
        BY <3>1, <1>0
      <3> QED BY <3>1, <3>2, <2>1, MovedCall
    <2> QED BY <1>2, <2>2 DEF Welcome, TypeOK
  <1>3. CASE Encrypt(t)
    <2>1. PICK o \in SUBSET Envelope : Moved(t, "insert", o)
      BY <1>3, EncryptMoves
    <2>2. Typed
      BY <1>3, <2>1, MovedCall DEF Labels, SendLabels, Encrypt, At
    <2>3. iteration' \in [Personas -> Nat]
      <3> DEFINE p == call[t].who
      <3>1. iteration' \in {iteration, [iteration EXCEPT ![p] = iteration[p] + 1]}
        BY <1>3 DEF Encrypt
      <3>2. p \in Personas
        BY <1>3, <1>0 DEF Encrypt, At, Call
      <3>3. iteration \in [Personas -> Nat] /\ iteration[p] + 1 \in Nat
        BY <3>2 DEF TypeOK
      <3> HIDE DEF p
      <3> QED BY <3>1, <3>2, <3>3
    <2> QED BY <1>3, <2>2, <2>3 DEF Encrypt, TypeOK
  <1>4. CASE Insert(t)
    <2>1. call[t] # None /\ Moved(t, "touch", call[t].out)
      BY <1>4, InsertMoves
    <2>2. Typed
      BY <2>1, <1>0, MovedCall DEF Labels, SendLabels
    <2>3. messages' \in [Personas -> SUBSET Row]
      BY <1>4, <2>1, <1>0 DEF Insert, InsertMessage, Row, Call, TypeOK
    <2> QED BY <1>4, <2>2, <2>3 DEF Insert, TypeOK
  <1>5. CASE Touch(t)
    <2>1. call[t] # None /\ Moved(t, "ship", call[t].out)
      BY <1>5, TouchMoves
    <2>2. Typed
      BY <2>1, <1>0, MovedCall DEF Labels, SendLabels
    <2> DEFINE p == call[t].who
               list == [conversations[p] EXCEPT ![call[t].conv].last = call[t].sentAt]
    <2>3. conversations' = [conversations EXCEPT ![p] = list]
      BY <1>5 DEF Touch, TouchConversation
    <2>4. DOMAIN list = DOMAIN conversations[p] /\ list \in [DOMAIN list -> Conversation]
      <3>1. conversations[p] \in [DOMAIN conversations[p] -> Conversation]
        BY <2>1, <1>0 DEF TypeOK, Call
      <3>2. call[t].sentAt \in Nat
        BY <2>1, <1>0 DEF Call
      <3> HIDE DEF p
      <3> QED BY <3>1, <3>2, SetConversation, TRUE \in BOOLEAN
    <2> HIDE DEF list, p
    <2> QED BY <1>5, <2>2, <2>3, <2>4 DEF Touch, TypeOK
  <1>6. CASE Ship(t)
    <2>1. call[t] # None
      BY <1>6 DEF Ship, At
    <2>2. CASE Moved(t, "stopped", {}) /\ handling' = handling
      <3>1. Typed
        BY <2>1, <2>2, MovedCall DEF Labels, SendLabels
      <3> QED BY <1>6, <2>2, <3>1 DEF Ship, TypeOK
    <2>3. ASSUME NEW e \in call[t].out, NEW l \in Labels, Moved(t, l, call[t].out \ {e}),
                 handling' = handling \cup
                   {[pc |-> "decrypt", env |-> e, sentAt |-> 0, mount |-> mount]}
          PROVE  TypeOK'
      <3>1. Typed
        BY <2>1, <1>0, <2>3, MovedCall
      <3>2. handling' \subseteq Handler
        BY <2>1, <1>0, <2>3 DEF Handler, TypeOK
      <3> QED BY <1>6, <3>1, <3>2 DEF Ship, TypeOK
    <2> QED BY <1>6, <2>2, <2>3, ShipMoves
  <1>7. CASE SendFails(t)
    <2>1. call[t] # None /\ Moved(t, "stopped", {})
      BY <1>7 DEF SendFails, InProgress, Rejected, Moved
    <2>2. Typed
      BY <2>1, MovedCall DEF Labels, SendLabels
    <2> QED BY <1>7, <2>2 DEF SendFails, Event, TypeOK
  <1>8. CASE SendClosed(t)
    <2>1. call[t] # None /\ Moved(t, "stopped", {})
      BY <1>8 DEF SendClosed, InProgress, Rejected, Moved
    <2>2. Typed
      BY <2>1, MovedCall DEF Labels, SendLabels
    <2> QED BY <1>8, <2>2 DEF SendClosed, TypeOK
  <1> QED BY <1>1, <1>2, <1>3, <1>4, <1>5, <1>6, <1>7, <1>8 DEF SendStep

\* The steps of a handler keep the types.
LEMMA HandlerTypes ==
  ASSUME TypeOK, HandlerInv, NEW h \in handling, HandlerStep(h) \/ HandlerFails(h)
  PROVE  TypeOK'
PROOF
  <1> USE DEF screen, tables, client
  <1> DEFINE e == h.env
  <1>0. /\ h \in Handler /\ e \in Envelope /\ e.from \in Personas /\ e.to \in Personas
        /\ e.text \in Calls /\ e.from # e.to /\ e.iteration \in Nat /\ e.sealed \in BOOLEAN
    BY DEF TypeOK, Handler, Envelope, HandlerInv, Handled, OfCall
  <1>a. ASSUME NEW l \in {"list", "insert", "touch"}
        PROVE  [h EXCEPT !.pc = l] \in Handler
    BY <1>0 DEF Handler
  <1>b. {h} \subseteq handling /\ handling \ {h} \subseteq Handler /\ handling \subseteq Handler
    BY DEF TypeOK
  <1>1. CASE Decrypt(h)
    <2>1. handling' \subseteq Handler
      BY <1>1, <1>a, <1>b DEF Decrypt, Handle
    <2>2. CASE Opened(e)
      <3>1. record' \in [Personas -> [Personas -> Record]]
        BY <2>2, <1>0, OpenedRecord
      <3>2. preKey' \in [Personas -> [Personas -> 0 .. mount]]
        BY <2>2, <1>0 DEF Opened, TypeOK
      <3>3. welcomed' \in [Personas -> [Personas -> Nat \cup {None}]]
        BY <2>2, <1>0 DEF Opened, TypeOK
      <3> HIDE DEF e
      <3> QED BY <1>1, <2>1, <2>2, <3>1, <3>2, <3>3 DEF Decrypt, Opened, TypeOK
    <2>3. CASE UNCHANGED client
      BY <1>1, <2>1, <2>3 DEF Decrypt, TypeOK
    <2> QED BY <1>1, <2>2, <2>3 DEF Decrypt
  <1>2. CASE PickConversation(h)
    <2>1. now' \in Nat
      BY <1>2 DEF PickConversation, TypeOK
    <2>2. [h EXCEPT !.pc = "insert", !.sentAt = now'] \in Handler
      BY <2>1, <1>0 DEF Handler
    <2>3. handling' \subseteq Handler
      BY <1>2, <2>2, <1>b DEF PickConversation
    <2> QED BY <1>2, <2>1, <2>3 DEF PickConversation, TypeOK
  <1>3. CASE InsertReceived(h)
    <2>1. handling' \subseteq Handler
      BY <1>3, <1>a, <1>b DEF InsertReceived, Handle
    <2>2. Target(e) \in ConvId /\ h.sentAt \in Nat
      BY <1>0 DEF Target, ConvId, Handler
    <2>3. messages' \in [Personas -> SUBSET Row]
      BY <1>3, <2>2, <1>0 DEF InsertReceived, InsertMessage, Row, TypeOK
    <2> QED BY <1>3, <2>1, <2>3 DEF InsertReceived, TypeOK
  <1>4. CASE TouchReceived(h)
    <2> DEFINE p == e.to
               list == [conversations[p] EXCEPT ![Target(e)].last = h.sentAt]
    <2>1. conversations' = [conversations EXCEPT ![p] = list]
      BY <1>4 DEF TouchReceived, TouchConversation
    <2>2. DOMAIN list = DOMAIN conversations[p] /\ list \in [DOMAIN list -> Conversation]
      <3>1. conversations[p] \in [DOMAIN conversations[p] -> Conversation]
        BY <1>0 DEF TypeOK
      <3>2. h.sentAt \in Nat
        BY <1>0 DEF Handler
      <3> HIDE DEF p
      <3> QED BY <3>1, <3>2, SetConversation, TRUE \in BOOLEAN
    <2> HIDE DEF list, p
    <2> QED BY <1>4, <1>b, <2>1, <2>2 DEF TouchReceived, TypeOK
  <1>5. CASE Drop(h) /\ UNCHANGED <<mount, stage, subs, rendered>> /\ events' \in Nat
    <2>1. lost' \subseteq Calls \X Personas
      BY <1>5, <1>0 DEF Drop, TextsOf, TypeOK
    <2> QED BY <1>5, <1>b, <2>1 DEF Drop, TypeOK
  <1>6. HandlerFails(h) \/ HandlerClosed(h) =>
          Drop(h) /\ UNCHANGED <<mount, stage, subs, rendered>> /\ events' \in Nat
    BY DEF HandlerFails, HandlerClosed, Event, TypeOK
  <1> QED BY <1>1, <1>2, <1>3, <1>4, <1>5, <1>6 DEF HandlerStep

\* A kill keeps the types.
LEMMA KillTypes ==
  ASSUME TypeOK, Kill
  PROVE  TypeOK'
PROOF
  <1> USE DEF screen, tables, client
  <1>1. ASSUME NEW c \in Call PROVE [c EXCEPT !.pc = "stopped", !.out = {}] \in Call
    BY DEF Call
  <1>2. call' \in [Calls -> Call \cup {None}]
    BY <1>1 DEF Kill, TypeOK, InProgress
  <1>3. lost' \subseteq Calls \X Personas
    <2>1. \A h \in handling : h.env.text \in Calls /\ h.env.to \in Personas
      BY DEF TypeOK, Handler, Envelope
    <2>2. TextsOf(handling) \subseteq Calls \X Personas
      BY <2>1 DEF TextsOf
    <2> QED BY <2>2 DEF Kill, TypeOK
  <1> QED BY <1>2, <1>3 DEF Kill, UnsubscribeAll, NothingRendered, TypeOK, Stages

\* Every step keeps the types.
LEMMA NextTypes ==
  ASSUME TypeOK, ReadyInv, CallInv, HandlerInv, [Next]_vars
  PROVE  TypeOK'
PROOF
  <1>1. CASE Next
    BY <1>1, ScreenTypes, SendTypes, HandlerTypes, KillTypes DEF Next
  <1>2. CASE UNCHANGED vars
    BY <1>2 DEF vars, screen, tables, client, TypeOK
  <1> QED BY <1>1, <1>2

-----------------------------------------------------------------------------
(* What no step takes back *)

\* What a call is does not change; rows and conversations are only added; time goes on.
Keeps ==
  /\ now <= now'
  /\ \A t \in Calls : call[t] # None =>
       /\ call'[t] # None /\ call'[t].who = call[t].who /\ call'[t].conv = call[t].conv
       /\ call'[t].sealed = call[t].sealed /\ call'[t].sentAt = call[t].sentAt
  /\ \A p \in Personas : /\ messages[p] \subseteq messages'[p]
                         /\ DOMAIN conversations[p] \subseteq DOMAIN conversations'[p]

\* A call that is moved is the same call.
LEMMA MovedKeeps ==
  ASSUME TypeOK, NEW t \in Calls, call[t] # None,
         NEW l \in Labels, NEW o \in SUBSET Envelope, Moved(t, l, o)
  PROVE  \A u \in Calls : call[u] # None =>
           /\ call'[u] # None /\ call'[u].who = call[u].who /\ call'[u].conv = call[u].conv
           /\ call'[u].sealed = call[u].sealed /\ call'[u].sentAt = call[u].sentAt
PROOF
  <1>1. /\ call'[t] # None /\ call'[t].who = call[t].who /\ call'[t].conv = call[t].conv
        /\ call'[t].sealed = call[t].sealed /\ call'[t].sentAt = call[t].sentAt
    BY MovedCall
  <1>2. \A u \in Calls : u # t => call'[u] = call[u]
    BY MovedCall
  <1> QED BY <1>1, <1>2

\* Call t is there, and the step moves it.
MovesOne(t) ==
  /\ call[t] # None
  /\ \E l \in Labels, o \in SUBSET Envelope : Moved(t, l, o)

\* Every step of a call of send, and its failure, moves that call.
LEMMA SendMoves ==
  ASSUME TypeOK, CallInv, NEW t \in Calls, SendStep(t) \/ SendFails(t)
  PROVE  MovesOne(t)
PROOF
  <1>0. call[t] # None => call[t].out \in SUBSET Envelope
    BY DEF TypeOK, Call
  <1> USE DEF MovesOne, Labels, SendLabels
  <1>1. ASSUME NEW q \in Personas, Welcome(t, q) PROVE MovesOne(t)
    <2>1. PICK e \in Envelope, l \in {"welcome", "invite"} : Moved(t, l, call[t].out \cup {e})
      BY <1>1, WelcomeMoves
    <2>2. call[t] # None
      BY <1>1 DEF Welcome, At
    <2>3. call[t].out \cup {e} \in SUBSET Envelope
      BY <1>0, <2>2
    <2> QED BY <2>1, <2>2, <2>3
  <1>2. CASE Encrypt(t)
    BY <1>2, EncryptMoves DEF Encrypt, At
  <1>3. CASE Insert(t)
    BY <1>3, <1>0, InsertMoves
  <1>4. CASE Touch(t)
    BY <1>4, <1>0, TouchMoves
  <1>5. CASE Ship(t)
    <2>1. call[t] # None
      BY <1>5 DEF Ship, At
    <2>2. ASSUME NEW e \in call[t].out, NEW l \in Labels, Moved(t, l, call[t].out \ {e})
          PROVE  MovesOne(t)
      BY <2>1, <2>2, <1>0
    <2>3. CASE Moved(t, "stopped", {})
      BY <2>1, <2>3
    <2> QED BY <2>2, <2>3, <1>5, ShipMoves
  <1>6. CASE SendFails(t) \/ SendClosed(t)
    BY <1>6 DEF SendFails, SendClosed, InProgress, Rejected, Moved
  <1> QED BY <1>1, <1>2, <1>3, <1>4, <1>5, <1>6 DEF SendStep

\* Every step keeps what is there.
LEMMA NextKeeps ==
  ASSUME TypeOK, CallInv, [Next]_vars
  PROVE  Keeps
PROOF
  <1> USE DEF screen, tables, client
  <1> DEFINE SameCalls == \A t \in Calls : call[t] # None =>
               /\ call'[t] # None /\ call'[t].who = call[t].who /\ call'[t].conv = call[t].conv
               /\ call'[t].sealed = call[t].sealed /\ call'[t].sentAt = call[t].sentAt
  <1>0. now \in Nat
    BY DEF TypeOK
  <1>1. CASE \/ UNCHANGED vars \/ Mount \/ MountFails \/ Unmount \/ Ready
             \/ \E p \in Personas : Attach(p)
             \/ \E pq \in Pairs : StartSession(pq[1], pq[2])
             \/ \E p, q \in Personas : RefreshConversation(p, q)
    <2>1. UNCHANGED <<tables, call, now>>
      BY <1>1 DEF vars, Mount, MountFails, Unmount, Ready, Attach, StartSession,
                  RefreshConversation
    <2> QED BY <2>1, <1>0 DEF Keeps
  <1>2. ASSUME NEW p \in Personas, NEW c \in ConvId, CreateMissing(p, c) PROVE Keeps
    BY <1>2, <1>0 DEF CreateMissing, CreateConversation, Keeps, TypeOK
  <1>3. CASE Kill
    <2>1. SameCalls
      <3>1. ASSUME NEW t \in Calls, call[t] # None
            PROVE  /\ call'[t] # None /\ call'[t].who = call[t].who
                   /\ call'[t].conv = call[t].conv /\ call'[t].sealed = call[t].sealed
                   /\ call'[t].sentAt = call[t].sentAt
        <4>1. call'[t] \in {call[t], [call[t] EXCEPT !.pc = "stopped", !.out = {}]}
          BY <1>3 DEF Kill
        <4>2. call[t] \in Call
          BY <3>1 DEF TypeOK
        <4> QED BY <4>1, <4>2, <3>1, NoneAssumption DEF Call
      <3> QED BY <3>1
    <2>2. UNCHANGED <<tables, now>>
      BY <1>3 DEF Kill
    <2> HIDE DEF SameCalls
    <2> QED BY <2>1, <2>2, <1>0 DEF SameCalls, Keeps
  <1>4. ASSUME NEW p \in Personas, NEW q \in Personas, SetSealed(p, q) PROVE Keeps
    <2> DEFINE list == [conversations[p] EXCEPT ![q].sealed = ~rendered[p][q]]
    <2>1. conversations' = [conversations EXCEPT ![p] = list]
      BY <1>4 DEF SetSealed, SetSealedDefault
    <2>2. DOMAIN list = DOMAIN conversations[p]
      OBVIOUS
    <2> HIDE DEF list
    <2> QED BY <1>4, <1>0, <2>1, <2>2 DEF SetSealed, Keeps, TypeOK
  <1>5. ASSUME NEW t \in Calls, NEW p \in Personas, NEW c \in ConvId, Press(t, p, c) PROVE Keeps
    BY <1>5, <1>0 DEF Press, Keeps, TypeOK
  <1>6. ASSUME NEW t \in Calls, SendStep(t) \/ SendFails(t) PROVE Keeps
    <2>1. SameCalls
      BY <1>6, SendMoves, MovedKeeps DEF MovesOne
    <2>2. now' = now
      BY <1>6 DEF SendStep, SendFails, Welcome, Encrypt, Insert, Touch, Ship, SendClosed
    <2>3. \A p \in Personas : messages[p] \subseteq messages'[p]
      <3>1. CASE Insert(t)
        BY <3>1 DEF Insert, InsertMessage, TypeOK
      <3>2. CASE ~Insert(t)
        <4>1. messages' = messages
          BY <1>6, <3>2 DEF SendStep, SendFails, Welcome, Encrypt, Touch, Ship, SendClosed
        <4> QED BY <4>1
      <3> QED BY <3>1, <3>2
    <2>4. \A p \in Personas : DOMAIN conversations[p] \subseteq DOMAIN conversations'[p]
      <3>1. CASE Touch(t)
        <4> DEFINE list == [conversations[call[t].who] EXCEPT
                              ![call[t].conv].last = call[t].sentAt]
        <4>1. conversations' = [conversations EXCEPT ![call[t].who] = list]
          BY <3>1 DEF Touch, TouchConversation
        <4>2. DOMAIN list = DOMAIN conversations[call[t].who]
          OBVIOUS
        <4> HIDE DEF list
        <4> QED BY <4>1, <4>2 DEF TypeOK
      <3>2. CASE ~Touch(t)
        <4>1. conversations' = conversations
          BY <1>6, <3>2 DEF SendStep, SendFails, Welcome, Encrypt, Insert, Ship, SendClosed
        <4> QED BY <4>1
      <3> QED BY <3>1, <3>2
    <2> QED BY <2>1, <2>2, <2>3, <2>4, <1>0 DEF Keeps
  <1>7. ASSUME NEW h \in handling, HandlerStep(h) \/ HandlerFails(h) PROVE Keeps
    <2>1. call' = call
      BY <1>7 DEF HandlerStep, HandlerFails, HandlerClosed, Decrypt, PickConversation,
                  InsertReceived, TouchReceived, Drop
    <2>2. now <= now'
      BY <1>7, <1>0 DEF HandlerStep, HandlerFails, HandlerClosed, Decrypt, PickConversation,
                        InsertReceived, TouchReceived, Drop
    <2>3. \A p \in Personas : messages[p] \subseteq messages'[p]
      <3>1. CASE InsertReceived(h)
        BY <3>1 DEF InsertReceived, InsertMessage, TypeOK
      <3>2. CASE ~InsertReceived(h)
        <4>1. messages' = messages
          BY <1>7, <3>2 DEF HandlerStep, HandlerFails, HandlerClosed, Decrypt,
                            PickConversation, TouchReceived, Drop
        <4> QED BY <4>1
      <3> QED BY <3>1, <3>2
    <2>4. \A p \in Personas : DOMAIN conversations[p] \subseteq DOMAIN conversations'[p]
      <3>1. CASE TouchReceived(h)
        <4> DEFINE list == [conversations[h.env.to] EXCEPT ![Target(h.env)].last = h.sentAt]
        <4>1. conversations' = [conversations EXCEPT ![h.env.to] = list]
          BY <3>1 DEF TouchReceived, TouchConversation
        <4>2. DOMAIN list = DOMAIN conversations[h.env.to]
          OBVIOUS
        <4> HIDE DEF list
        <4> QED BY <4>1, <4>2 DEF TypeOK
      <3>2. CASE ~TouchReceived(h)
        <4>1. conversations' = conversations
          BY <1>7, <3>2 DEF HandlerStep, HandlerFails, HandlerClosed, Decrypt,
                            PickConversation, InsertReceived, Drop
        <4> QED BY <4>1
      <3> QED BY <3>1, <3>2
    <2> QED BY <2>1, <2>2, <2>3, <2>4 DEF Keeps
  <1> QED BY <1>1, <1>2, <1>3, <1>4, <1>5, <1>6, <1>7 DEF Next, MountStep

\* What a call has is in its type.
LEMMA CallFields ==
  ASSUME TypeOK, NEW t \in Calls, call[t] # None
  PROVE  /\ call[t] \in Call /\ call[t].who \in Personas /\ call[t].conv \in ConvId
         /\ call[t].sealed \in BOOLEAN /\ call[t].sentAt \in Nat /\ call[t].mount \in Nat
         /\ call[t].out \in SUBSET Envelope /\ call[t].pc \in Labels
PROOF
  BY DEF TypeOK, Call, Labels

\* What a handler works on is in its type.
LEMMA HandlerFields ==
  ASSUME TypeOK, NEW h \in handling
  PROVE  /\ h \in Handler /\ h.env \in Envelope /\ h.sentAt \in Nat
         /\ h.env.text \in Calls /\ h.env.from \in Personas /\ h.env.to \in Personas
         /\ h.env.sealed \in BOOLEAN /\ h.env.kind \in {"message", "welcome", "group"}
         /\ h.env.iteration \in Nat
PROOF
  BY DEF TypeOK, Handler, Envelope

\* The row a call has written stays.
LEMMA HasRowKept ==
  ASSUME TypeOK, Keeps, NEW t \in Calls, call[t] # None, HasRow(t)
  PROVE  HasRow(t)'
PROOF
  <1>1. PICK r \in messages[call[t].who] : r.text = t /\ r.from = call[t].who
    BY DEF HasRow
  <1>2. call'[t].who = call[t].who /\ r \in messages'[call[t].who]
    BY <1>1, CallFields DEF Keeps
  <1> QED BY <1>1, <1>2 DEF HasRow

\* An envelope stays one of the call of its text.
LEMMA OfCallKept ==
  ASSUME TypeOK, Keeps, NEW e \in Envelope, OfCall(e)
  PROVE  OfCall(e)'
PROOF
  <1>1. e.text \in Calls
    BY DEF Envelope
  <1> QED BY <1>1 DEF OfCall, Keeps

\* What was said of the time and the conversation of a call stays true.
LEMMA PressedKept ==
  ASSUME TypeOK, TypeOK', Keeps, CallInv, NEW t \in Calls, call[t] # None
  PROVE  Pressed(t)'
PROOF
  <1>1. call[t].who \in Personas /\ call[t].sentAt \in Nat /\ now \in Nat /\ now' \in Nat
    BY CallFields DEF TypeOK
  <1>2. Pressed(t)
    BY DEF CallInv
  <1>3. /\ call'[t].who = call[t].who /\ call'[t].conv = call[t].conv
        /\ call'[t].sealed = call[t].sealed /\ call'[t].sentAt = call[t].sentAt
    BY DEF Keeps
  <1>4. call[t].conv \in DOMAIN conversations'[call[t].who]
    BY <1>1, <1>2 DEF Pressed, Keeps
  <1>5. call[t].sentAt <= now'
    BY <1>1, <1>2 DEF Pressed, Keeps
  <1>6. ASSUME NEW u \in 1 .. (t - 1)
        PROVE  call'[u] # None /\ call'[u].sentAt < call[t].sentAt
    <2>1. u \in Calls
      BY ChatAssumption DEF Calls
    <2> QED BY <2>1, <1>2 DEF Pressed, Keeps
  <1> QED BY <1>2, <1>3, <1>4, <1>5, <1>6 DEF Pressed

\* A call that is left alone has what it may ship.
LEMMA ShipsKept ==
  ASSUME TypeOK, Keeps, CallInv, NEW t \in Calls, call[t] # None, call'[t] = call[t]
  PROVE  Ships(t)'
PROOF
  <1>1. Ships(t) /\ call[t].out \in SUBSET Envelope
    BY CallFields DEF CallInv
  <1>2. \A e \in call[t].out : e.text = t /\ OfCall(e)'
    BY <1>1, OfCallKept DEF Ships
  <1>3. call[t].pc \in {"touch", "ship"} => HasRow(t)'
    BY <1>1, HasRowKept DEF Ships
  <1> QED BY <1>1, <1>2, <1>3 DEF Ships, At

\* What was said of a handler stays true while it waits.
LEMMA HandledKept ==
  ASSUME TypeOK, Keeps, HandlerInv, NEW h \in handling
  PROVE  Handled(h)'
PROOF
  <1>1. Handled(h) /\ h.env \in Envelope /\ h.env.text \in Calls /\ h.env.to \in Personas
    BY HandlerFields DEF HandlerInv
  <1>2. OfCall(h.env)' /\ call[h.env.text] # None
    BY <1>1, OfCallKept DEF Handled, OfCall
  <1>3. h.env.kind # "welcome" => HasRow(h.env.text)'
    BY <1>1, <1>2, HasRowKept DEF Handled
  <1>4. DOMAIN conversations[h.env.to] \subseteq DOMAIN conversations'[h.env.to]
    BY <1>1 DEF Keeps
  <1>5. \A r \in RowsOf(h.env.to, Target(h.env)) : r \in RowsOf(h.env.to, Target(h.env))'
    BY <1>1 DEF Keeps, RowsOf, Target
  <1> QED BY <1>1, <1>2, <1>3, <1>4, <1>5 DEF Handled, Target

\* A row goes on agreeing with the call of its text.
LEMMA AgreesKept ==
  ASSUME TypeOK, Keeps, RowInv, NEW p \in Personas, NEW r \in messages[p]
  PROVE  Agrees(p, r)'
PROOF
  <1>1. Agrees(p, r) /\ r.text \in Calls
    BY DEF RowInv, TypeOK, Row
  <1>2. /\ call[r.text] # None
        /\ call'[r.text] # None /\ call'[r.text].who = call[r.text].who
        /\ call'[r.text].conv = call[r.text].conv
        /\ call'[r.text].sealed = call[r.text].sealed
        /\ call'[r.text].sentAt = call[r.text].sentAt
    BY <1>1 DEF Agrees, Keeps
  <1>3. r.from # p => HasRow(r.text)'
    BY <1>1, <1>2, HasRowKept DEF Agrees
  <1>4. r.conv \in DOMAIN conversations'[p]
    BY <1>1 DEF Agrees, Keeps
  <1> QED BY <1>1, <1>2, <1>3, <1>4 DEF Agrees

-----------------------------------------------------------------------------
(* ReadyInv and CallInv *)

\* ReadyInv is kept: no conversation is ever removed.
LEMMA ReadyNext ==
  ASSUME TypeOK, TypeOK', ReadyInv, CallInv, [Next]_vars
  PROVE  ReadyInv'
PROOF
  <1> USE DEF screen, tables
  <1>1. CASE Ready
    BY <1>1 DEF Ready, ReadyInv
  <1>2. CASE ~Ready
    <2>1. stage' = "ready" => stage = "ready"
      BY <1>2 DEF Next, MountStep, SendStep, HandlerStep, vars, Mount, Attach, StartSession,
                  CreateMissing, MountFails, Unmount, Kill, SetSealed, RefreshConversation,
                  Press, Welcome, Encrypt, Insert, Touch, Ship, SendFails, SendClosed, Decrypt,
                  PickConversation, InsertReceived, TouchReceived, HandlerFails, HandlerClosed,
                  Drop
    <2>2. \A p \in Personas : DOMAIN conversations[p] \subseteq DOMAIN conversations'[p]
      BY NextKeeps DEF Keeps
    <2>3. \A p \in Personas : DOMAIN conversations'[p] \subseteq ConvId \ {p}
      BY DEF TypeOK
    <2> QED BY <2>1, <2>2, <2>3 DEF ReadyInv
  <1> QED BY <1>1, <1>2

\* What the steps of send leave in their call.
LEMMA SendShips ==
  ASSUME TypeOK, CallInv, Keeps, NEW t \in Calls, SendStep(t) \/ SendFails(t)
  PROVE  Ships(t)'
PROOF
  <1>0. /\ call[t] # None /\ call[t] \in Call /\ call[t].out \in SUBSET Envelope
        /\ call[t].who \in Personas /\ call'[t].who = call[t].who
        /\ call'[t].conv = call[t].conv /\ call'[t].sealed = call[t].sealed /\ call'[t] # None
    BY SendMoves, CallFields DEF MovesOne, Keeps
  <1>a. Ships(t) /\ \A e \in call[t].out : e.text = t /\ OfCall(e)'
    BY <1>0, OfCallKept DEF CallInv, Ships
  <1>1. ASSUME NEW q \in Personas, Welcome(t, q) PROVE Ships(t)'
    <2>1. PICK e \in Envelope, l \in {"welcome", "invite"} :
            Moved(t, l, call[t].out \cup {e}) /\ AddsWelcome(t, q, e, l)
      BY <1>1, WelcomeMoves
    <2>2. call'[t].pc = l /\ call'[t].out = call[t].out \cup {e}
      <3>1. l \in Labels /\ call[t].out \cup {e} \in SUBSET Envelope
        BY <1>0 DEF Labels, SendLabels
      <3> QED BY <3>1, <2>1, <1>0, MovedCall
    <2>3. e.text = t /\ OfCall(e)'
      BY <2>1, <1>0 DEF AddsWelcome, OfCall, Peers
    <2>4. At(t, "welcome")
      BY <1>1 DEF Welcome
    <2>5. \A f \in call[t].out : f.kind = "welcome" /\ f.to # Max(Peers(call[t].who))
      BY <2>4, <1>a DEF Ships
    <2>6. \A f, g \in call[t].out \cup {e} : f.iteration = g.iteration
      BY <2>1 DEF AddsWelcome
    <2>7. \A f \in call[t].out \cup {e} : f.text = t /\ OfCall(f)'
      BY <2>3, <1>a
    <2>8. At(t, "welcome")' => \A f \in call[t].out \cup {e} : f.to # Max(Peers(call[t].who))
      BY <2>1, <2>2, <2>5 DEF AddsWelcome, At
    <2>9. \A f \in call[t].out \cup {e} : f.kind = "welcome"
      BY <2>1, <2>5 DEF AddsWelcome
    <2>10. call[t].out \cup {e} # {} /\ call'[t].pc \notin {"insert", "touch", "ship"}
      BY <2>1, <2>2
    <2> QED BY <1>0, <2>2, <2>6, <2>7, <2>8, <2>9, <2>10 DEF Ships
  <1>2. CASE Encrypt(t)
    <2>1. PICK o \in SUBSET Envelope :
            /\ Moved(t, "insert", o) /\ o # {}
            /\ \A e \in o :
                 /\ e.kind # "welcome" /\ e.text = t /\ e.from = call[t].who /\ e.to # e.from
                 /\ e.kind = "message" => e.to = call[t].conv /\ e.sealed = call[t].sealed
                 /\ e.kind = "group" => call[t].conv = Group /\ e.sealed = call[t].sealed
      BY <1>2, EncryptMoves
    <2>2. call'[t].pc = "insert" /\ call'[t].out = o
      BY <2>1, <1>0, MovedCall DEF Labels, SendLabels
    <2>3. \A e \in o : e.text = t /\ OfCall(e)'
      BY <2>1, <1>0 DEF OfCall
    <2> QED BY <2>1, <2>2, <2>3 DEF Ships, At
  <1>3. CASE Insert(t)
    <2>1. call'[t].pc = "touch" /\ call'[t].out = call[t].out
      BY <1>3, <1>0, InsertMoves, MovedCall DEF Labels, SendLabels
    <2>2. HasRow(t)'
      <3> DEFINE row == [text |-> t, from |-> call[t].who, conv |-> call[t].conv,
                         sealed |-> call[t].sealed, sentAt |-> call[t].sentAt]
      <3>1. row \in messages'[call[t].who] /\ row.text = t /\ row.from = call[t].who
        BY <1>3, <1>0 DEF Insert, InsertMessage, TypeOK
      <3> HIDE DEF row
      <3> QED BY <3>1, <1>0 DEF HasRow
    <2>3. call[t].out # {} /\ \A e \in call[t].out : e.kind # "welcome"
      BY <1>3, <1>a DEF Ships, Insert, At
    <2> QED BY <2>1, <2>2, <2>3, <1>a DEF Ships, At
  <1>4. CASE Touch(t)
    <2>1. call'[t].pc = "ship" /\ call'[t].out = call[t].out
      BY <1>4, <1>0, TouchMoves, MovedCall DEF Labels, SendLabels
    <2>2. HasRow(t)'
      BY <1>4, <1>0, <1>a, HasRowKept DEF Ships, Touch, At
    <2>3. call[t].out # {} /\ \A e \in call[t].out : e.kind # "welcome"
      BY <1>4, <1>a DEF Ships, Touch, At
    <2> QED BY <2>1, <2>2, <2>3, <1>a DEF Ships, At
  <1>5. CASE Moved(t, "stopped", {})
    <2>1. call'[t].pc = "stopped" /\ call'[t].out = {}
      BY <1>5, <1>0, MovedCall DEF Labels
    <2> QED BY <2>1 DEF Ships, At
  <1>6. CASE Ship(t)
    <2>1. ASSUME NEW e \in call[t].out, NEW l \in Labels, Moved(t, l, call[t].out \ {e}),
                 l = IF call[t].out \ {e} = {} THEN Done(t) ELSE call[t].pc
          PROVE  Ships(t)'
      <3>1. call'[t].pc = l /\ call'[t].out = call[t].out \ {e}
        BY <2>1, <1>0, MovedCall
      <3>2. call[t].pc \in {"invite", "ship"}
        BY <1>6 DEF Ship, At
      <3>3. CASE call[t].out \ {e} = {}
        <4>1. l \in {"encrypt", "returned"} /\ call'[t].out = {}
          BY <3>1, <3>3, <2>1 DEF Done
        <4> QED BY <4>1, <3>1 DEF Ships, At
      <3>4. CASE call[t].out \ {e} # {}
        <4>1. l = call[t].pc
          BY <3>4, <2>1
        <4>2. call[t].pc = "ship" => HasRow(t)'
          BY <1>a, <1>0, HasRowKept DEF Ships
        <4>3. /\ call[t].pc = "invite" => \A f \in call[t].out : f.kind = "welcome"
              /\ call[t].pc = "ship" => \A f \in call[t].out : f.kind # "welcome"
          BY <1>a, <1>0 DEF Ships, At
        <4> QED BY <4>1, <4>2, <4>3, <3>1, <3>2, <3>4, <1>a DEF Ships, At
      <3> QED BY <3>3, <3>4
    <2> QED BY <2>1, <1>5, <1>6, ShipMoves
  <1>7. SendFails(t) \/ SendClosed(t) => Moved(t, "stopped", {})
    BY DEF SendFails, SendClosed, Rejected, Moved
  <1> QED BY <1>1, <1>2, <1>3, <1>4, <1>5, <1>6, <1>7 DEF SendStep

\* CallInv is kept: Press adds a call that is later than all others, and the steps of
\* send leave in their call what it may ship.
LEMMA CallNext ==
  ASSUME TypeOK, TypeOK', ReadyInv, CallInv, [Next]_vars
  PROVE  CallInv'
PROOF
  <1> USE DEF screen, tables
  <1>0. Keeps
    BY NextKeeps
  <1>a. \A t \in Calls : call[t] # None => Pressed(t)'
    BY <1>0, PressedKept
  <1>b. \A t \in Calls : call[t] # None /\ call'[t] = call[t] => Ships(t)'
    BY <1>0, ShipsKept
  <1>1. CASE call' = call
    BY <1>1, <1>a, <1>b DEF CallInv
  <1>2. CASE Kill
    <2>1. ASSUME NEW t \in Calls, call'[t] # None PROVE call[t] # None /\ Ships(t)'
      <3>1. call'[t] \in {call[t], [call[t] EXCEPT !.pc = "stopped", !.out = {}]}
        BY <1>2 DEF Kill
      <3>2. call[t] # None
        BY <1>2, <2>1 DEF Kill, InProgress
      <3>3. CASE call'[t] = [call[t] EXCEPT !.pc = "stopped", !.out = {}]
        <4>1. call'[t].pc = "stopped" /\ call'[t].out = {}
          BY <3>2, <3>3, CallFields DEF Call
        <4> QED BY <3>2, <4>1 DEF Ships, At
      <3> QED BY <3>1, <3>2, <3>3, <1>b
    <2> QED BY <2>1, <1>a DEF CallInv
  <1>3. ASSUME NEW t \in Calls, NEW p \in Personas, NEW c \in ConvId, Press(t, p, c)
        PROVE  CallInv'
    <2> DEFINE new == [pc |-> IF c = Group THEN "welcome" ELSE "encrypt", who |-> p,
                       conv |-> c, sealed |-> c # Group /\ rendered[p][c],
                       sentAt |-> now', mount |-> mount, out |-> {}]
    <2>1. call'[t] = new /\ \A u \in Calls : u # t => call'[u] = call[u]
      BY <1>3 DEF Press, TypeOK
    <2>2. Pressed(t)'
      <3>1. c \in DOMAIN conversations[p]
        <4>1. p # c
          BY <1>3, ChatAssumption DEF Press
        <4> QED BY <1>3, <4>1 DEF Press, ReadyInv
      <3>2. ASSUME NEW u \in 1 .. (t - 1) PROVE call'[u] # None /\ call'[u].sentAt < now'
        <4>1. u \in Calls /\ u # t
          BY ChatAssumption DEF Calls
        <4>2. call[u] # None
          BY <1>3 DEF Press
        <4>3. call[u].sentAt <= now /\ call[u].sentAt \in Nat /\ now \in Nat /\ now' = now + 1
          BY <1>3, <4>1, <4>2, CallFields DEF CallInv, Pressed, TypeOK, Press
        <4> QED BY <4>1, <4>2, <4>3, <2>1
      <3>3. conversations' = conversations /\ now' \in Nat
        BY <1>3 DEF Press, TypeOK
      <3>4. /\ call'[t].who = p /\ call'[t].conv = c /\ call'[t].sentAt = now'
            /\ call'[t].sealed = (c # Group /\ rendered[p][c])
        BY <2>1
      <3> HIDE DEF new
      <3>5. c = Group => ~call'[t].sealed
        BY <3>4
      <3>6. call'[t].conv = Group => ~call'[t].sealed
        BY <3>4, <3>5
      <3>7. call'[t].sentAt <= now'
        BY <3>3, <3>4
      <3>8. \A u \in 1 .. (t - 1) : call'[u] # None /\ call'[u].sentAt < call'[t].sentAt
        BY <3>2, <3>4
      <3> QED BY <3>1, <3>3, <3>4, <3>6, <3>7, <3>8 DEF Pressed
    <2>3. Ships(t)'
      BY <2>1 DEF Ships, At
    <2> HIDE DEF new
    <2> QED BY <2>1, <2>2, <2>3, <1>a, <1>b DEF CallInv
  <1>4. ASSUME NEW t \in Calls, SendStep(t) \/ SendFails(t) PROVE CallInv'
    <2>1. Ships(t)' /\ call[t] # None
      BY <1>4, <1>0, SendShips, SendMoves DEF MovesOne
    <2>2. \A u \in Calls : u # t => call'[u] = call[u]
      BY <1>4, SendMoves, MovedCall DEF MovesOne
    <2> QED BY <2>1, <2>2, <1>a, <1>b DEF CallInv
  <1>5. ASSUME NEW h \in handling, HandlerStep(h) \/ HandlerFails(h) PROVE call' = call
    BY <1>5 DEF HandlerStep, HandlerFails, HandlerClosed, Decrypt, PickConversation,
                InsertReceived, TouchReceived, Drop
  <1>6. CASE \/ UNCHANGED vars \/ Mount \/ MountStep \/ MountFails \/ Unmount
             \/ \E p, q \in Personas : SetSealed(p, q) \/ RefreshConversation(p, q)
    BY <1>6, <1>1 DEF vars, Mount, MountFails, Unmount, Ready, Attach, StartSession,
                  RefreshConversation, SetSealed, CreateMissing, MountStep
  <1> QED BY <1>1, <1>2, <1>3, <1>4, <1>5, <1>6 DEF Next

-----------------------------------------------------------------------------
(* HandlerInv and RowInv *)

\* What Ship hands over was made by its call, which has written its row.
LEMMA ShippedHandled ==
  ASSUME TypeOK, CallInv, Keeps, NEW t \in Calls, call[t] # None,
         call[t].pc \in {"invite", "ship"}, NEW e \in call[t].out, NEW m
  PROVE  Handled([pc |-> "decrypt", env |-> e, sentAt |-> 0, mount |-> m])'
PROOF
  <1>1. Ships(t) /\ e \in Envelope /\ e.text = t
    BY CallFields DEF CallInv, Ships
  <1>2. OfCall(e)'
    BY <1>1, OfCallKept DEF Ships
  <1>3. e.kind # "welcome" => HasRow(t)'
    BY <1>1, HasRowKept DEF Ships, At
  <1> QED BY <1>1, <1>2, <1>3 DEF Handled

\* HandlerInv is kept: Ship starts a handler, the handler's own steps move it.
LEMMA HandlerNext ==
  ASSUME TypeOK, TypeOK', CallInv, HandlerInv, [Next]_vars
  PROVE  HandlerInv'
PROOF
  <1> USE DEF screen, tables
  <1>0. Keeps
    BY NextKeeps
  <1>a. \A h \in handling : Handled(h)'
    BY <1>0, HandledKept
  <1>1. CASE handling' \subseteq handling
    BY <1>1, <1>a DEF HandlerInv
  <1>2. ASSUME NEW t \in Calls, SendStep(t) \/ SendFails(t) PROVE HandlerInv'
    <2>1. CASE Ship(t)
      <3>1. call[t] # None /\ call[t].pc \in {"invite", "ship"}
        BY <2>1 DEF Ship, At
      <3>2. ASSUME NEW e \in call[t].out,
                   handling' = handling \cup
                     {[pc |-> "decrypt", env |-> e, sentAt |-> 0, mount |-> mount]}
            PROVE  HandlerInv'
        <4>0. PICK m : m = mount
          OBVIOUS
        <4> DEFINE new == [pc |-> "decrypt", env |-> e, sentAt |-> 0, mount |-> m]
        <4>1. Handled(new)'
          BY <3>1, <1>0, ShippedHandled
        <4>2. \A h \in handling' : h \in handling \/ h = new
          BY <3>2, <4>0
        <4> HIDE DEF new
        <4> QED BY <4>1, <4>2, <1>a DEF HandlerInv
      <3> QED BY <3>2, <2>1, <1>1, ShipMoves
    <2>2. CASE ~Ship(t)
      <3>1. handling' = handling
        BY <1>2, <2>2 DEF SendStep, SendFails, SendClosed, Welcome, Encrypt, Insert, Touch
      <3> QED BY <3>1, <1>1
    <2> QED BY <2>1, <2>2
  <1>3. ASSUME NEW h \in handling, HandlerStep(h) \/ HandlerFails(h) PROVE HandlerInv'
    <2>0. /\ Handled(h)' /\ h \in Handler /\ h.env.to \in Personas
          /\ h.env.text \in Calls /\ h.env.kind \in {"message", "welcome", "group"}
      BY <1>a, HandlerFields
    <2>a. ASSUME NEW g, Handled(g)', handling' \subseteq handling \cup {g} PROVE HandlerInv'
      BY <2>a, <1>a DEF HandlerInv
    <2>1. CASE Decrypt(h)
      <3> DEFINE g == [h EXCEPT !.pc = "list"]
      <3>1. g.pc = "list" /\ g.env = h.env
        BY <2>0 DEF Handler
      <3>2. handling' \subseteq handling \cup {g}
        BY <2>1 DEF Decrypt, Handle
      <3> HIDE DEF g
      <3>3. Handled(g)'
        BY <2>0, <3>1 DEF Handled
      <3> QED BY <2>a, <3>2, <3>3
    <2>2. CASE PickConversation(h)
      <3>0. PICK n : n = now'
        OBVIOUS
      <3> DEFINE g == [h EXCEPT !.pc = "insert", !.sentAt = n]
      <3>1. g.pc = "insert" /\ g.env = h.env
        BY <2>0 DEF Handler
      <3>2. CASE handling' = handling \ {h}
        BY <3>2, <1>1
      <3>3. CASE /\ Target(h.env) \in DOMAIN conversations[h.env.to] /\ h.env.kind # "welcome"
                 /\ handling' = (handling \ {h}) \cup {g}
        <4>1. conversations' = conversations
          BY <2>2 DEF PickConversation
        <4> HIDE DEF g
        <4>2. Handled(g)'
          BY <2>0, <3>1, <3>3, <4>1 DEF Handled, Target
        <4> QED BY <2>a, <3>3, <4>2
      <3> QED BY <2>2, <3>0, <3>2, <3>3 DEF PickConversation, ListConversations, HasHandler
    <2>3. CASE InsertReceived(h)
      <3> DEFINE g == [h EXCEPT !.pc = "touch"]
                 c == Target(h.env)
                 row == [text |-> h.env.text, from |-> h.env.from, conv |-> c,
                         sealed |-> h.env.sealed, sentAt |-> h.sentAt]
      <3>1. g.pc = "touch" /\ g.env = h.env /\ g.sentAt = h.sentAt
        BY <2>0 DEF Handler
      <3>2. handling' \subseteq handling \cup {g} /\ h.pc = "insert"
        BY <2>3 DEF InsertReceived, Handle
      <3>3. row \in messages'[h.env.to] /\ row.conv = c /\ row.sentAt = h.sentAt
        BY <2>0, <2>3 DEF InsertReceived, InsertMessage, TypeOK
      <3>4. \E r \in RowsOf(h.env.to, Target(h.env))' : r.sentAt = h.sentAt
        <4> HIDE DEF row
        <4> QED BY <3>3 DEF RowsOf, Target
      <3> HIDE DEF g, row
      <3>5. Handled(g)'
        BY <2>0, <3>1, <3>2, <3>4 DEF Handled
      <3> QED BY <2>a, <3>2, <3>5
    <2>4. CASE TouchReceived(h) \/ HandlerClosed(h) \/ HandlerFails(h)
      BY <2>4, <1>1 DEF TouchReceived, HandlerClosed, HandlerFails, Drop
    <2> QED BY <1>3, <2>1, <2>2, <2>3, <2>4 DEF HandlerStep
  <1>4. CASE \/ UNCHANGED vars \/ Mount \/ MountStep \/ MountFails \/ Unmount \/ Kill
             \/ \E p, q \in Personas : SetSealed(p, q) \/ RefreshConversation(p, q)
             \/ \E t \in Calls : \E p \in Personas, c \in ConvId : Press(t, p, c)
    BY <1>4, <1>1 DEF vars, Mount, MountFails, Unmount, Ready, Attach, StartSession,
                  RefreshConversation, SetSealed, CreateMissing, MountStep, Kill, Press
  <1> QED BY <1>2, <1>3, <1>4 DEF Next

\* RowInv is kept: a row is added by Insert, with what its call has, and by
\* InsertReceived, with what the envelope has.
LEMMA RowNext ==
  ASSUME TypeOK, TypeOK', CallInv, HandlerInv, RowInv, [Next]_vars
  PROVE  RowInv'
PROOF
  <1> USE DEF screen, tables
  <1>0. Keeps
    BY NextKeeps
  <1>a. \A p \in Personas : \A r \in messages[p] : Agrees(p, r)'
    BY <1>0, AgreesKept
  <1>b. ASSUME NEW q \in Personas, NEW row, Agrees(q, row)',
               messages' = [messages EXCEPT ![q] = @ \cup {row}]
        PROVE  RowInv'
    BY <1>a, <1>b DEF RowInv, TypeOK
  <1>1. CASE messages' = messages
    BY <1>1, <1>a DEF RowInv
  <1>2. ASSUME NEW t \in Calls, Insert(t) PROVE RowInv'
    <2>a. PICK p : p = call[t].who
      OBVIOUS
    <2>b. PICK row : row = [text |-> t, from |-> p, conv |-> call[t].conv,
                            sealed |-> call[t].sealed, sentAt |-> call[t].sentAt]
      OBVIOUS
    <2>1. call[t] # None /\ p \in Personas /\ Pressed(t)'
      BY <1>2, <1>0, <2>a, CallFields, PressedKept DEF Insert, At
    <2>2. /\ call'[t] # None /\ call'[t].who = p /\ call'[t].conv = call[t].conv
          /\ call'[t].sealed = call[t].sealed /\ call'[t].sentAt = call[t].sentAt
      BY <2>1, <2>a, <1>0 DEF Keeps
    <2>3. /\ row.text = t /\ row.from = p /\ row.conv = call[t].conv
          /\ row.sealed = call[t].sealed /\ row.sentAt = call[t].sentAt
      BY <2>b
    <2>4. messages' = [messages EXCEPT ![p] = @ \cup {row}]
      BY <1>2, <2>a, <2>b DEF Insert, InsertMessage
    <2>5. Agrees(p, row)'
      BY <2>1, <2>2, <2>3 DEF Agrees, Pressed
    <2> QED BY <2>1, <2>4, <2>5, <1>b
  <1>3. ASSUME NEW h \in handling, InsertReceived(h) PROVE RowInv'
    <2> DEFINE p == h.env.to
               row == [text |-> h.env.text, from |-> h.env.from, conv |-> Target(h.env),
                       sealed |-> h.env.sealed, sentAt |-> h.sentAt]
    <2>1. /\ p \in Personas /\ h.env.text \in Calls /\ h.env.from \in Personas
          /\ h.env.kind \in {"message", "group"}
          /\ Handled(h)' /\ h.pc = "insert"
      BY <1>3, <1>0, HandlerFields, HandledKept DEF InsertReceived, HandlerInv, Handled
    <2>2. /\ row.text = h.env.text /\ row.from = h.env.from /\ row.conv = Target(h.env)
          /\ row.sealed = h.env.sealed
      OBVIOUS
    <2>3. messages' = [messages EXCEPT ![p] = @ \cup {row}]
      BY <1>3 DEF InsertReceived, InsertMessage
    <2>4. OfCall(h.env)' /\ HasRow(h.env.text)' /\ Target(h.env) \in DOMAIN conversations'[p]
      BY <2>1 DEF Handled, Target
    <2> HIDE DEF row
    <2>5. Agrees(p, row)'
      <3>1. h.env.from # p /\ h.env.from # Group /\ p # Group
        BY <2>1, <2>4 DEF OfCall, Personas, Group
      <3>2. CASE h.env.kind = "message"
        BY <3>1, <3>2, <2>1, <2>2, <2>4 DEF OfCall, Agrees, Target
      <3>3. CASE h.env.kind = "group"
        BY <3>1, <3>3, <2>1, <2>2, <2>4 DEF OfCall, Agrees, Target
      <3> QED BY <3>2, <3>3, <2>1
    <2> HIDE DEF p
    <2> QED BY <2>1, <2>3, <2>5, <1>b
  <1>4. ASSUME NEW t \in Calls, SendStep(t) \/ SendFails(t), ~Insert(t)
        PROVE  messages' = messages
    BY <1>4 DEF SendStep, SendFails, SendClosed, Welcome, Encrypt, Touch, Ship
  <1>5. ASSUME NEW h \in handling, HandlerStep(h) \/ HandlerFails(h), ~InsertReceived(h)
        PROVE  messages' = messages
    BY <1>5 DEF HandlerStep, HandlerFails, HandlerClosed, Decrypt, PickConversation,
                TouchReceived, Drop
  <1>6. CASE \/ UNCHANGED vars \/ Mount \/ MountStep \/ MountFails \/ Unmount \/ Kill
             \/ \E p, q \in Personas : SetSealed(p, q) \/ RefreshConversation(p, q)
             \/ \E t \in Calls : \E p \in Personas, c \in ConvId : Press(t, p, c)
    BY <1>6, <1>1 DEF vars, Mount, MountFails, Unmount, Ready, Attach, StartSession,
                  RefreshConversation, SetSealed, CreateMissing, MountStep, Kill, Press
  <1> QED BY <1>1, <1>2, <1>3, <1>4, <1>5, <1>6 DEF Next

-----------------------------------------------------------------------------
(* OnceInv *)

\* What a history shows, its sender's history has.
LEMMA ShownHasRow ==
  ASSUME TypeOK, RowInv, NEW q \in Personas, NEW t, Shown(q, t)
  PROVE  t \in Calls /\ call[t] # None /\ HasRow(t)
PROOF
  <1>1. PICK r \in messages[q] : r.text = t
    BY DEF Shown
  <1>2. r.text \in Calls /\ Agrees(q, r)
    BY DEF TypeOK, Row, RowInv
  <1> QED BY <1>1, <1>2 DEF Agrees, HasRow

Early == {"welcome", "invite", "encrypt", "insert"}

\* The step adds no row for text t, and starts no handler for it.
AddsNoRow(t) == \A q \in Personas : \A r \in messages'[q] : r.text = t => r \in messages[q]
StartsNone(t) ==
  \A h \in handling' : h.env.kind # "welcome" /\ h.env.text = t =>
    \E g \in handling : g.env = h.env

\* A call whose text is left alone, and that gets nothing more to ship, sends once.
LEMMA SendsOnceKept ==
  ASSUME TypeOK, CallInv, Keeps, OnceInv, NEW t \in Calls, call[t] # None,
         AddsNoRow(t), StartsNone(t), call'[t].out \subseteq call[t].out,
         call'[t].pc \in Early => call[t].pc \in Early
  PROVE  SendsOnce(t)'
PROOF
  <1>1. /\ SendsOnce(t) /\ call[t].who \in Personas /\ call'[t].who = call[t].who
        /\ call[t].out \in SUBSET Envelope
    BY CallFields DEF OnceInv, Keeps
  <1>2. HasRow(t)' => HasRow(t)
    BY <1>1 DEF HasRow, AddsNoRow
  <1>3. ASSUME NEW e \in call'[t].out, e.kind # "welcome"
        PROVE  /\ ~Shown(e.to, t)' /\ \A h \in handling' : ~Brings(h, t, e.to)
               /\ \A f \in call'[t].out : f.to = e.to => f = e
    <2>1. e \in call[t].out /\ e.to \in Personas
      BY <1>1 DEF Envelope
    <2>2. ~Shown(e.to, t)'
      BY <1>1, <1>3, <2>1 DEF SendsOnce, Shown, AddsNoRow
    <2>3. ASSUME NEW h \in handling', Brings(h, t, e.to) PROVE FALSE
      <3>1. PICK g \in handling : g.env = h.env
        BY <2>3 DEF Brings, StartsNone
      <3> QED BY <1>1, <1>3, <2>1, <2>3, <3>1 DEF Brings, SendsOnce
    <2> QED BY <1>1, <1>3, <2>1, <2>2, <2>3 DEF SendsOnce
  <1> QED BY <1>1, <1>2, <1>3 DEF SendsOnce, Early

\* Handlers end, or one of them goes on with its envelope: none gets a second.
LEMMA ShowsOnceMoved ==
  ASSUME OnceInv, NEW h \in handling, NEW g, g.env = h.env,
         handling' \subseteq (handling \ {h}) \cup {g},
         NEW k \in handling', k.env.kind # "welcome"
  PROVE  \A j \in handling' : Brings(j, k.env.text, k.env.to) => j = k
PROOF
  <1>1. SUFFICES ASSUME NEW j \in handling', Brings(j, k.env.text, k.env.to) PROVE j = k
    OBVIOUS
  <1>2. CASE k = g
    BY <1>1, <1>2 DEF OnceInv, ShowsOnce, Brings
  <1>3. CASE k # g
    BY <1>1, <1>3 DEF OnceInv, ShowsOnce, Brings
  <1> QED BY <1>2, <1>3

\* The steps of handlers keep OnceInv: they take nothing new to handle, and
\* InsertReceived writes the one row its envelope is for.
LEMMA HandlerOnce ==
  ASSUME TypeOK, CallInv, HandlerInv, RowInv, OnceInv, Keeps,
         NEW h \in handling, HandlerStep(h) \/ HandlerFails(h)
  PROVE  OnceInv'
PROOF
  <1>0. /\ h \in Handler /\ h.env.to \in Personas /\ h.env.text \in Calls
        /\ call' = call /\ Handled(h) /\ ShowsOnce(h)
    BY HandlerFields DEF HandlerStep, HandlerFails, HandlerClosed, Decrypt, PickConversation,
         InsertReceived, TouchReceived, Drop, HandlerInv, OnceInv
  <1>1. ASSUME NEW g, g.env = h.env, g.pc # "touch" => h.pc # "touch",
               handling' \subseteq (handling \ {h}) \cup {g}, messages' = messages
        PROVE  OnceInv'
    <2>1. \A t \in Calls : call'[t] # None => SendsOnce(t)'
      BY <1>0, <1>1, SendsOnceKept DEF AddsNoRow, StartsNone
    <2>2. \A k \in handling' : ShowsOnce(k)'
      <3>1. ASSUME NEW k \in handling', k.env.kind # "welcome"
            PROVE  \A j \in handling' : Brings(j, k.env.text, k.env.to) => j = k
        BY <1>1, <3>1, ShowsOnceMoved
      <3>2. ASSUME NEW k \in handling', k.env.kind # "welcome", k.pc # "touch"
            PROVE  ~Shown(k.env.to, k.env.text)'
        BY <1>0, <1>1, <3>2 DEF OnceInv, ShowsOnce, Shown
      <3> QED BY <3>1, <3>2 DEF ShowsOnce
    <2> QED BY <2>1, <2>2 DEF OnceInv
  <1>2. CASE handling' = handling \ {h} /\ messages' = messages
    BY <1>1, <1>2
  <1>3. CASE Decrypt(h)
    <2>1. [h EXCEPT !.pc = "list"].env = h.env /\ h.pc # "touch"
      BY <1>0, <1>3 DEF Handler, Decrypt
    <2>2. CASE handling' = (handling \ {h}) \cup {[h EXCEPT !.pc = "list"]}
      <3>1. messages' = messages
        BY <1>3 DEF Decrypt, tables
      <3> QED BY <2>1, <2>2, <3>1, <1>1
    <2> QED BY <1>2, <1>3, <2>2 DEF Decrypt, Handle, tables
  <1>4. CASE PickConversation(h)
    <2>0. PICK n : n = now'
      OBVIOUS
    <2> DEFINE g == [h EXCEPT !.pc = "insert", !.sentAt = n]
    <2>1. g.env = h.env /\ h.pc # "touch" /\ messages' = messages
      BY <1>0, <1>4 DEF Handler, PickConversation, tables
    <2>2. handling' = (handling \ {h}) \cup {g} \/ handling' = handling \ {h}
      BY <1>4, <2>0 DEF PickConversation
    <2> HIDE DEF g
    <2> QED BY <1>1, <1>2, <2>1, <2>2
  <1>5. CASE InsertReceived(h)
    <2> DEFINE g == [h EXCEPT !.pc = "touch"]
               t == h.env.text
               q == h.env.to
               row == [text |-> t, from |-> h.env.from, conv |-> Target(h.env),
                       sealed |-> h.env.sealed, sentAt |-> h.sentAt]
    <2>1. g.env = h.env /\ g.pc = "touch" /\ row.text = t
      BY <1>0 DEF Handler
    <2>2. /\ handling' = (handling \ {h}) \cup {g}
          /\ messages' = [messages EXCEPT ![q] = @ \cup {row}]
          /\ h.pc = "insert"
      BY <1>5 DEF InsertReceived, InsertMessage, Handle
    <2>3. h.env.kind # "welcome" /\ HasRow(t) /\ call[t] # None /\ Brings(h, t, q)
      BY <1>0, <2>2 DEF Handled, OfCall, Brings
    <2> HIDE DEF g, row
    <2>4. \A p \in Personas : \A r \in messages'[p] :
            r \in messages[p] \/ (p = q /\ r = row)
      BY <1>0, <2>2 DEF TypeOK
    <2>5. \A p, u : p \in Personas /\ Shown(p, u)' => Shown(p, u) \/ (p = q /\ u = t)
      BY <2>1, <2>4 DEF Shown
    <2>6. ASSUME NEW u \in Calls, call[u] # None PROVE SendsOnce(u)'
      <3>1. StartsNone(u)
        BY <2>1, <2>2 DEF StartsNone
      <3>2. CASE u # t
        <4>1. AddsNoRow(u)
          BY <2>1, <2>4, <3>2 DEF AddsNoRow
        <4> QED BY <1>0, <2>6, <3>1, <4>1, SendsOnceKept
      <3>3. CASE u = t
        <4>1. SendsOnce(t) /\ call[t].out \in SUBSET Envelope
          BY <2>6, <3>3, CallFields DEF OnceInv
        <4>2. call'[t].pc \notin Early
          BY <1>0, <2>3, <4>1 DEF SendsOnce, Early
        <4>3. ASSUME NEW e \in call'[t].out, e.kind # "welcome"
              PROVE  /\ ~Shown(e.to, t)' /\ \A k \in handling' : ~Brings(k, t, e.to)
                     /\ \A f \in call'[t].out : f.to = e.to => f = e
          <5>1. e \in call[t].out /\ e.to \in Personas
            BY <1>0, <4>1 DEF Envelope
          <5>2. e.to # q /\ ~Shown(e.to, t)
            BY <2>3, <4>1, <4>3, <5>1 DEF SendsOnce
          <5>3. \A k \in handling' : ~Brings(k, t, e.to)
            BY <2>1, <2>2, <4>1, <4>3, <5>1 DEF SendsOnce, Brings
          <5> QED BY <1>0, <2>5, <4>1, <4>3, <5>1, <5>2, <5>3 DEF SendsOnce
        <4> QED BY <3>3, <4>2, <4>3 DEF SendsOnce, Early
      <3> QED BY <3>2, <3>3
    <2>7. ASSUME NEW k \in handling' PROVE ShowsOnce(k)'
      <3>1. k.env.kind # "welcome" =>
              \A j \in handling' : Brings(j, k.env.text, k.env.to) => j = k
        BY <2>1, <2>2, ShowsOnceMoved
      <3>2. ASSUME k.env.kind # "welcome", k.pc # "touch"
            PROVE  ~Shown(k.env.to, k.env.text)'
        <4>1. k \in handling /\ k # h
          BY <2>1, <2>2, <3>2
        <4>2. k.env.to # q \/ k.env.text # t
          BY <2>3, <3>2, <4>1 DEF OnceInv, ShowsOnce, Brings
        <4>3. k.env.to \in Personas /\ ~Shown(k.env.to, k.env.text)
          BY <3>2, <4>1, HandlerFields DEF OnceInv, ShowsOnce
        <4> QED BY <2>5, <4>2, <4>3
      <3> QED BY <3>1, <3>2 DEF ShowsOnce
    <2> QED BY <1>0, <2>6, <2>7 DEF OnceInv
  <1>6. CASE TouchReceived(h) \/ HandlerClosed(h) \/ HandlerFails(h)
    BY <1>2, <1>6 DEF TouchReceived, HandlerClosed, HandlerFails, Drop, tables
  <1> QED BY <1>3, <1>4, <1>5, <1>6 DEF HandlerStep

\* The steps of send keep OnceInv: Encrypt makes one envelope for each receiver, Insert
\* writes the row, Ship starts one handler for each envelope.
LEMMA SendOnce ==
  ASSUME TypeOK, CallInv, CallInv', HandlerInv, RowInv, OnceInv, Keeps,
         NEW t \in Calls, SendStep(t) \/ SendFails(t)
  PROVE  OnceInv'
PROOF
  <1>0. /\ call[t] # None /\ call'[t] # None /\ call[t].who \in Personas
        /\ call[t].out \in SUBSET Envelope /\ SendsOnce(t) /\ Ships(t)
        /\ call'[t].who = call[t].who
        /\ \A u \in Calls : u # t => call'[u] = call[u]
    BY SendMoves, MovedCall, CallFields DEF MovesOne, Keeps, OnceInv, CallInv
  <1>a. ASSUME SendsOnce(t)', \A h \in handling' : ShowsOnce(h)',
               \A u \in Calls : u # t => AddsNoRow(u) /\ StartsNone(u)
        PROVE  OnceInv'
    <2>1. ASSUME NEW u \in Calls, u # t, call'[u] # None PROVE SendsOnce(u)'
      <3>1. call'[u] = call[u]
        BY <1>0, <2>1
      <3> QED BY <1>a, <2>1, <3>1, SendsOnceKept
    <2> QED BY <1>a, <2>1 DEF OnceInv
  <1>b. ASSUME messages' = messages, handling' = handling
        PROVE  /\ \A h \in handling' : ShowsOnce(h)'
               /\ \A u \in Calls : AddsNoRow(u) /\ StartsNone(u)
    BY <1>b DEF OnceInv, ShowsOnce, Shown, AddsNoRow, StartsNone
  <1>c. ASSUME messages' = messages, handling' = handling, SendsOnce(t)' PROVE OnceInv'
    BY <1>a, <1>b, <1>c
  <1>d. CASE Moved(t, "stopped", {}) /\ messages' = messages /\ handling' = handling
    <2>1. call'[t].out = {} /\ call'[t].pc = "stopped"
      BY <1>0, <1>d, MovedCall DEF Labels
    <2> QED BY <1>c, <1>d, <2>1 DEF SendsOnce
  <1>1. ASSUME NEW q \in Personas, Welcome(t, q) PROVE OnceInv'
    <2>1. PICK e \in Envelope, l \in {"welcome", "invite"} : Moved(t, l, call[t].out \cup {e})
      BY <1>1, WelcomeMoves
    <2>2. call'[t].pc = l
      <3>1. l \in Labels /\ call[t].out \cup {e} \in SUBSET Envelope
        BY <1>0 DEF Labels, SendLabels
      <3> QED BY <3>1, <2>1, <1>0, MovedCall
    <2>3. \A f \in call'[t].out : f.kind = "welcome"
      BY <1>0, <2>2 DEF CallInv, Ships, At
    <2>4. messages' = messages /\ handling' = handling /\ call[t].pc = "welcome"
      BY <1>1 DEF Welcome, At, tables
    <2>5. ~HasRow(t)'
      BY <1>0, <2>4 DEF SendsOnce, HasRow
    <2>6. SendsOnce(t)'
      BY <2>3, <2>5 DEF SendsOnce
    <2> QED BY <1>c, <2>4, <2>6
  <1>2. CASE Encrypt(t)
    <2>1. PICK o \in SUBSET Envelope :
            /\ Moved(t, "insert", o) /\ \A e, f \in o : e.to = f.to => e = f
      BY <1>2, EncryptMoves
    <2>2. call'[t].out = o
      BY <2>1, <1>0, MovedCall DEF Labels, SendLabels
    <2>3. messages' = messages /\ handling' = handling /\ ~HasRow(t)
      BY <1>0, <1>2 DEF Encrypt, At, tables, SendsOnce
    <2>4. ASSUME NEW e \in o PROVE ~Shown(e.to, t)
      <3>1. e.to \in Personas
        BY DEF Envelope
      <3> QED BY <2>3, <3>1, ShownHasRow
    <2>5. ASSUME NEW e \in o, NEW h \in handling PROVE ~Brings(h, t, e.to)
      BY <2>3 DEF HandlerInv, Handled, Brings
    <2>6. ~HasRow(t)'
      BY <1>0, <2>3 DEF HasRow
    <2>7. SendsOnce(t)'
      BY <2>1, <2>2, <2>3, <2>4, <2>5, <2>6 DEF SendsOnce, Shown
    <2> QED BY <1>c, <2>3, <2>7
  <1>3. CASE Insert(t)
    <2> DEFINE p == call[t].who
               row == [text |-> t, from |-> p, conv |-> call[t].conv,
                       sealed |-> call[t].sealed, sentAt |-> call[t].sentAt]
    <2>1. call'[t].pc = "touch" /\ call'[t].out = call[t].out
      BY <1>3, <1>0, InsertMoves, MovedCall DEF Labels, SendLabels
    <2>2. messages' = [messages EXCEPT ![p] = @ \cup {row}] /\ handling' = handling
      BY <1>3 DEF Insert, InsertMessage
    <2>3. row.text = t
      OBVIOUS
    <2> HIDE DEF row
    <2>4. \A q \in Personas : \A r \in messages'[q] :
            r \in messages[q] \/ (q = p /\ r = row)
      BY <1>0, <2>2 DEF TypeOK
    <2>5. \A q \in Personas : \A u : Shown(q, u)' => Shown(q, u) \/ (q = p /\ u = t)
      BY <2>3, <2>4 DEF Shown
    <2>6. ASSUME NEW u \in Calls, u # t PROVE AddsNoRow(u) /\ StartsNone(u)
      BY <2>2, <2>3, <2>4, <2>6 DEF AddsNoRow, StartsNone
    <2>7. SendsOnce(t)'
      <3>1. ASSUME NEW e \in call[t].out, e.kind # "welcome" PROVE ~Shown(e.to, t)'
        <4>1. e.to \in Personas /\ e.to # p /\ ~Shown(e.to, t)
          BY <1>0, <3>1 DEF Envelope, Ships, OfCall, SendsOnce
        <4> QED BY <2>5, <4>1
      <3> QED BY <1>0, <2>1, <2>2, <3>1 DEF SendsOnce
    <2>8. ASSUME NEW h \in handling', h.env.kind # "welcome", h.pc # "touch"
          PROVE  ~Shown(h.env.to, h.env.text)'
      <3>1. h \in handling /\ OfCall(h.env) /\ h.env.to \in Personas
        BY <2>2, HandlerFields DEF HandlerInv, Handled
      <3>2. h.env.text = t => h.env.to # p
        BY <3>1 DEF OfCall
      <3>3. ~Shown(h.env.to, h.env.text)
        BY <2>8, <3>1 DEF OnceInv, ShowsOnce
      <3> QED BY <2>5, <3>1, <3>2, <3>3
    <2>9. \A h \in handling' : ShowsOnce(h)'
      BY <2>2, <2>8 DEF OnceInv, ShowsOnce
    <2> HIDE DEF p
    <2> QED BY <1>a, <2>6, <2>7, <2>9
  <1>4. CASE Touch(t)
    <2>1. call'[t].pc = "ship" /\ call'[t].out = call[t].out
      BY <1>4, <1>0, TouchMoves, MovedCall DEF Labels, SendLabels
    <2>2. messages' = messages /\ handling' = handling
      BY <1>4 DEF Touch
    <2>3. SendsOnce(t)'
      BY <1>0, <2>1, <2>2 DEF SendsOnce, Shown
    <2> QED BY <1>c, <2>2, <2>3
  <1>5. CASE Ship(t)
    <2>0. messages' = messages /\ call[t].pc \in {"invite", "ship"}
      BY <1>5 DEF Ship, At, tables
    <2>1. ASSUME NEW e \in call[t].out, NEW l \in Labels, Moved(t, l, call[t].out \ {e}),
                 l = IF call[t].out \ {e} = {} THEN Done(t) ELSE call[t].pc,
                 handling' = handling \cup
                   {[pc |-> "decrypt", env |-> e, sentAt |-> 0, mount |-> mount]}
          PROVE  OnceInv'
      <3>a. PICK m : m = mount
        OBVIOUS
      <3> DEFINE new == [pc |-> "decrypt", env |-> e, sentAt |-> 0, mount |-> m]
      <3>0. new.env = e /\ new.pc = "decrypt" /\ handling' = handling \cup {new}
        BY <2>1, <3>a
      <3> HIDE DEF new
      <3>1. call'[t].pc = l /\ call'[t].out = call[t].out \ {e}
        BY <2>1, <1>0, MovedCall
      <3>2. handling' = handling \cup {new} /\ e.text = t /\ e.to \in Personas
        BY <1>0, <3>0 DEF Ships, Envelope
      <3>3. l \in Early => ~HasRow(t)'
        <4>1. l \in Early => call[t].pc = "invite"
          BY <2>0, <2>1 DEF Early, Done, At
        <4>2. call[t].pc = "invite" => ~HasRow(t)
          BY <1>0 DEF SendsOnce
        <4> QED BY <1>0, <2>0, <4>1, <4>2 DEF HasRow
      <3>4. SendsOnce(t)'
        <4>1. ASSUME NEW f \in call[t].out \ {e}, f.kind # "welcome"
              PROVE  /\ ~Shown(f.to, t)' /\ \A h \in handling' : ~Brings(h, t, f.to)
                     /\ \A g \in call[t].out \ {e} : g.to = f.to => g = f
          <5>1. ~Shown(f.to, t)'
            BY <1>0, <2>0, <4>1 DEF SendsOnce, Shown
          <5>2. \A h \in handling' : ~Brings(h, t, f.to)
            BY <1>0, <3>0, <3>2, <4>1 DEF SendsOnce, Brings
          <5> QED BY <1>0, <4>1, <5>1, <5>2 DEF SendsOnce
        <4> QED BY <3>1, <3>3, <4>1 DEF SendsOnce, Early
      <3>5. ASSUME NEW h \in handling', h.env.kind # "welcome" PROVE ShowsOnce(h)'
        <4>1. CASE h = new
          <5>1. ~Shown(e.to, t)' /\ \A g \in handling : ~Brings(g, t, e.to)
            BY <1>0, <2>0, <3>0, <3>5, <4>1 DEF SendsOnce, Shown
          <5> QED BY <3>0, <3>2, <4>1, <5>1 DEF ShowsOnce, Brings
        <4>2. CASE h \in handling
          <5>1. ShowsOnce(h)
            BY <4>2 DEF OnceInv
          <5>2. ~Brings(new, h.env.text, h.env.to)
            BY <1>0, <3>0, <3>2, <3>5, <4>2 DEF SendsOnce, Brings
          <5> QED BY <2>0, <3>2, <5>1, <5>2 DEF ShowsOnce, Shown
        <4> QED BY <3>2, <4>1, <4>2
      <3>6. \A u \in Calls : u # t => AddsNoRow(u) /\ StartsNone(u)
        BY <2>0, <3>0, <3>2 DEF AddsNoRow, StartsNone
      <3>7. \A h \in handling' : ShowsOnce(h)'
        BY <3>5 DEF ShowsOnce
      <3> QED BY <1>a, <3>4, <3>6, <3>7
    <2> QED BY <2>0, <2>1, <1>5, <1>d, ShipMoves
  <1>6. CASE SendFails(t) \/ SendClosed(t)
    <2>1. Moved(t, "stopped", {}) /\ messages' = messages /\ handling' = handling
      BY <1>6 DEF SendFails, SendClosed, Rejected, Moved, tables
    <2> QED BY <1>d, <2>1
  <1> QED BY <1>1, <1>2, <1>3, <1>4, <1>5, <1>6 DEF SendStep

\* OnceInv is kept: the other steps write no row and start no handler, and a call that is
\* pressed has nothing to ship yet.
LEMMA OnceNext ==
  ASSUME TypeOK, TypeOK', CallInv, CallInv', HandlerInv, RowInv, OnceInv, [Next]_vars
  PROVE  OnceInv'
PROOF
  <1>0. Keeps
    BY NextKeeps
  <1>a. ASSUME messages' = messages, handling' \subseteq handling,
               \A t \in Calls : call'[t] # None =>
                 IF call[t] = None THEN call'[t].out = {}
                 ELSE call'[t].out \subseteq call[t].out
                      /\ (call'[t].pc \in Early => call[t].pc \in Early)
        PROVE  OnceInv'
    <2>1. \A t : AddsNoRow(t) /\ StartsNone(t)
      BY <1>a DEF AddsNoRow, StartsNone
    <2>2. ASSUME NEW t \in Calls, call'[t] # None PROVE SendsOnce(t)'
      <3>1. CASE call[t] # None
        BY <1>0, <1>a, <2>1, <2>2, <3>1, SendsOnceKept
      <3>2. CASE call[t] = None
        <4>1. \A p \in Personas : ~Shown(p, t)
          BY <3>2, ShownHasRow
        <4>2. call'[t].who \in Personas
          BY <2>2 DEF TypeOK, Call
        <4>3. ~HasRow(t)'
          BY <1>a, <4>1, <4>2 DEF Shown, HasRow
        <4> QED BY <1>a, <2>2, <3>2, <4>3 DEF SendsOnce
      <3> QED BY <3>1, <3>2
    <2>3. \A h \in handling' : ShowsOnce(h)'
      BY <1>a DEF OnceInv, ShowsOnce, Shown
    <2> QED BY <2>2, <2>3 DEF OnceInv
  <1>1. CASE Kill
    <2>a. messages' = messages /\ handling' = {}
      BY <1>1, Zenon DEF Kill, tables
    <2>0. \A t \in Calls : call'[t] = IF InProgress(t)
                                     THEN [call[t] EXCEPT !.pc = "stopped", !.out = {}]
                                     ELSE call[t]
      BY <1>1, Zenon DEF Kill
    <2>1. ASSUME NEW t \in Calls, call'[t] # None
          PROVE  /\ call[t] # None /\ call'[t].out \subseteq call[t].out
                 /\ (call'[t].pc \in Early => call[t].pc \in Early)
      <3>1. call'[t] \in {call[t], [call[t] EXCEPT !.pc = "stopped", !.out = {}]}
        BY <2>0, Zenon
      <3>2. call[t] # None
        BY <2>0, <2>1, Zenon DEF InProgress
      <3>3. CASE call'[t] = [call[t] EXCEPT !.pc = "stopped", !.out = {}]
        <4>1. call'[t].pc = "stopped" /\ call'[t].out = {}
          BY <3>2, <3>3, CallFields DEF Call
        <4> QED BY <3>2, <4>1 DEF Early
      <3> QED BY <3>1, <3>2, <3>3
    <2> QED BY <1>a, <2>a, <2>1
  <1>2. ASSUME NEW t \in Calls, NEW p \in Personas, NEW c \in ConvId, Press(t, p, c)
        PROVE  OnceInv'
    <2> DEFINE new == [pc |-> IF c = Group THEN "welcome" ELSE "encrypt", who |-> p,
                       conv |-> c, sealed |-> c # Group /\ rendered[p][c],
                       sentAt |-> now', mount |-> mount, out |-> {}]
    <2>1. call'[t] = new /\ \A u \in Calls : u # t => call'[u] = call[u]
      BY <1>2 DEF Press, TypeOK
    <2>2. new.out = {}
      OBVIOUS
    <2>3. call[t] = None /\ messages' = messages /\ handling' = handling
      BY <1>2 DEF Press, tables
    <2> HIDE DEF new
    <2> QED BY <1>a, <2>1, <2>2, <2>3
  <1>3. CASE \/ UNCHANGED vars \/ Mount \/ MountStep \/ MountFails \/ Unmount
             \/ \E p, q \in Personas : SetSealed(p, q) \/ RefreshConversation(p, q)
    <2>1. UNCHANGED <<messages, handling, call>>
      BY <1>3 DEF vars, tables, Mount, MountFails, Unmount, Ready, Attach, StartSession,
                  RefreshConversation, SetSealed, CreateMissing, MountStep
    <2> QED BY <1>a, <2>1 DEF OnceInv, SendsOnce, ShowsOnce, Shown, HasRow
  <1> QED BY <1>0, <1>1, <1>2, <1>3, SendOnce, HandlerOnce DEF Next

-----------------------------------------------------------------------------
(* UntouchedOnlyWhenStopped *)

\* What the property says of conversation c of p.
TouchedOr(p, c) ==
  IF conversations[p][c].last = None THEN \A r \in RowsOf(p, c) : Unfinished(p, r)
  ELSE \E r \in RowsOf(p, c) : r.sentAt = conversations[p][c].last

\* No append ends in the step: a call or a handler between the two statements of one
\* stays there or is stopped.
NoneEnds ==
  /\ \A t \in Calls : call[t] # None /\ call[t].pc \in {"touch", "stopped"} =>
        call'[t].pc \in {"touch", "stopped"}
  /\ lost \subseteq lost'
  /\ \A h \in handling : h.pc = "touch" =>
        h \in handling' \/ <<h.env.text, h.env.to>> \in lost'

\* A row stays unfinished when no append ends.
LEMMA UnfinishedKept ==
  ASSUME RowInv, TypeOK, NoneEnds, NEW p \in Personas, NEW r \in messages[p], Unfinished(p, r)
  PROVE  Unfinished(p, r)'
PROOF
  <1>1. r.text \in Calls /\ call[r.text] # None
    BY DEF RowInv, Agrees, TypeOK, Row
  <1>2. CASE r.from = p /\ call[r.text].pc \in {"touch", "stopped"}
    BY <1>1, <1>2 DEF NoneEnds, Unfinished
  <1>3. CASE r.from # p /\ <<r.text, p>> \in lost
    BY <1>3 DEF NoneEnds, Unfinished
  <1>4. ASSUME r.from # p, NEW h \in handling, h.pc = "touch", h.env.text = r.text, h.env.to = p
        PROVE  Unfinished(p, r)'
    <2>1. h \in handling' \/ <<r.text, p>> \in lost'
      BY <1>4 DEF NoneEnds
    <2> QED BY <1>4, <2>1 DEF Unfinished
  <1> QED BY <1>2, <1>3, <1>4 DEF Unfinished

\* A conversation whose time is not set in a step where no append ends, and whose new rows
\* are unfinished, is as the property says.
LEMMA TouchedKept ==
  ASSUME TypeOK, RowInv, Keeps, NoneEnds, NEW p \in Personas, NEW c, TouchedOr(p, c),
         conversations'[p][c].last = conversations[p][c].last,
         \A r \in messages'[p] : r \notin messages[p] => Unfinished(p, r)'
  PROVE  TouchedOr(p, c)'
PROOF
  <1>1. \A r \in RowsOf(p, c) : r \in RowsOf(p, c)'
    BY DEF RowsOf, Keeps
  <1>2. CASE conversations[p][c].last # None
    BY <1>1, <1>2 DEF TouchedOr
  <1>3. CASE conversations[p][c].last = None
    <2>1. ASSUME NEW r \in RowsOf(p, c)' PROVE Unfinished(p, r)'
      <3>1. r \in messages'[p] /\ r.conv = c
        BY DEF RowsOf
      <3>2. CASE r \in messages[p]
        BY <3>1, <3>2, <1>3, UnfinishedKept DEF TouchedOr, RowsOf
      <3> QED BY <3>1, <3>2
    <2> QED BY <2>1, <1>3 DEF TouchedOr
  <1> QED BY <1>2, <1>3

\* The steps that write no conversation.
LEMMA UntouchedKept ==
  ASSUME TypeOK, RowInv, UntouchedOnlyWhenStopped, Keeps, NoneEnds,
         conversations' = conversations,
         \A p \in Personas : \A r \in messages'[p] : r \notin messages[p] => Unfinished(p, r)'
  PROVE  UntouchedOnlyWhenStopped'
PROOF
  <1>1. ASSUME NEW p \in Personas, NEW c \in DOMAIN conversations'[p]
        PROVE  TouchedOr(p, c)'
    <2>1. TouchedOr(p, c)
      BY DEF UntouchedOnlyWhenStopped, TouchedOr
    <2> QED BY <2>1, TouchedKept
  <1> QED BY <1>1 DEF UntouchedOnlyWhenStopped, TouchedOr

\* The second statement of an append to conversation c of p, at the time of a row of it.
\* The rows whose append ends are all in that conversation.
LEMMA TouchEnds ==
  ASSUME TypeOK, RowInv, UntouchedOnlyWhenStopped, Keeps, NEW p \in Personas, NEW c, NEW n \in Nat,
         conversations' = [conversations EXCEPT ![p][c].last = n],
         messages' = messages,
         c \in DOMAIN conversations[p],
         \E r \in RowsOf(p, c) : r.sentAt = n,
         \A q \in Personas : \A r \in messages[q] :
           Unfinished(q, r) /\ ~(q = p /\ r.conv = c) => Unfinished(q, r)'
  PROVE  UntouchedOnlyWhenStopped'
PROOF
  <1> DEFINE row == [conversations[p][c] EXCEPT !.last = n]
             list == [conversations[p] EXCEPT ![c] = row]
  <1>1. conversations' = [conversations EXCEPT ![p] = list]
    OBVIOUS
  <1>2. row.last = n /\ n # None
    BY ChatAssumption DEF TypeOK, Conversation
  <1>3. /\ DOMAIN list = DOMAIN conversations[p] /\ list[c] = row
        /\ \A d \in DOMAIN list : d # c => list[d] = conversations[p][d]
    <2> HIDE DEF row
    <2> QED BY DEF TypeOK
  <1> HIDE DEF row, list
  <1>4. ASSUME NEW q \in Personas, NEW d \in DOMAIN conversations'[q]
        PROVE  TouchedOr(q, d)'
    <2>1. CASE q = p /\ d = c
      <3>1. conversations'[q][d].last = n
        BY <1>1, <1>2, <1>3, <2>1 DEF TypeOK
      <3> QED BY <3>1, <1>2, <2>1 DEF TouchedOr, RowsOf
    <2>2. CASE ~(q = p /\ d = c)
      <3>1. d \in DOMAIN conversations[q] /\ conversations'[q][d] = conversations[q][d]
        BY <1>1, <1>3, <2>2 DEF TypeOK
      <3>2. TouchedOr(q, d)
        BY <3>1 DEF UntouchedOnlyWhenStopped, TouchedOr
      <3>3. \A r \in RowsOf(q, d) : Unfinished(q, r) => Unfinished(q, r)'
        BY <2>2 DEF RowsOf
      <3>4. RowsOf(q, d)' = RowsOf(q, d)
        BY DEF RowsOf
      <3> QED BY <3>1, <3>2, <3>3, <3>4 DEF TouchedOr
    <2> QED BY <2>1, <2>2
  <1> QED BY <1>4 DEF UntouchedOnlyWhenStopped, TouchedOr

\* The steps of the screen write no time; a conversation that is made has no rows.
LEMMA ScreenUntouched ==
  ASSUME TypeOK, RowInv, UntouchedOnlyWhenStopped, Keeps,
         \/ UNCHANGED vars \/ Mount \/ MountStep \/ MountFails \/ Unmount
         \/ \E p, q \in Personas : SetSealed(p, q) \/ RefreshConversation(p, q)
  PROVE  UntouchedOnlyWhenStopped'
PROOF
  <1> USE DEF screen, tables
  <1>0. NoneEnds /\ messages' = messages
    BY DEF vars, Mount, MountFails, Unmount, Ready, Attach, StartSession,
           RefreshConversation, SetSealed, CreateMissing, MountStep, NoneEnds
  <1>1. CASE conversations' = conversations
    BY <1>0, <1>1, UntouchedKept
  <1>2. ASSUME NEW p \in Personas, NEW c \in ConvId, CreateMissing(p, c)
        PROVE  UntouchedOnlyWhenStopped'
    <2> DEFINE list == [d \in DOMAIN conversations[p] \cup {c} |->
                          IF d = c THEN [sealed |-> FALSE, last |-> None]
                                   ELSE conversations[p][d]]
    <2>1. conversations' = [conversations EXCEPT ![p] = list] /\ c \notin DOMAIN conversations[p]
      BY <1>2 DEF CreateMissing, CreateConversation
    <2>2. /\ DOMAIN list = DOMAIN conversations[p] \cup {c} /\ list[c].last = None
          /\ \A d \in DOMAIN conversations[p] : d # c => list[d] = conversations[p][d]
      OBVIOUS
    <2> HIDE DEF list
    <2>3. ASSUME NEW q \in Personas, NEW d \in DOMAIN conversations'[q]
          PROVE  TouchedOr(q, d)'
      <3>1. CASE q = p /\ d = c
        <4>1. RowsOf(q, d)' = {}
          BY <1>0, <2>1, <3>1 DEF RowsOf, RowInv, Agrees
        <4>2. conversations'[q][d].last = None
          BY <2>1, <2>2, <3>1 DEF TypeOK
        <4> QED BY <4>1, <4>2 DEF TouchedOr
      <3>2. CASE ~(q = p /\ d = c)
        <4>1. d \in DOMAIN conversations[q] /\ conversations'[q][d] = conversations[q][d]
          BY <2>1, <2>2, <3>2 DEF TypeOK
        <4>2. TouchedOr(q, d)
          BY <4>1 DEF UntouchedOnlyWhenStopped, TouchedOr
        <4> QED BY <4>1, <4>2, <1>0, TouchedKept
      <3> QED BY <3>1, <3>2
    <2> QED BY <2>3 DEF UntouchedOnlyWhenStopped, TouchedOr
  <1>3. ASSUME NEW p \in Personas, NEW q \in Personas, SetSealed(p, q)
        PROVE  UntouchedOnlyWhenStopped'
    <2> DEFINE row == [conversations[p][q] EXCEPT !.sealed = ~rendered[p][q]]
               list == [conversations[p] EXCEPT ![q] = row]
    <2>1. conversations' = [conversations EXCEPT ![p] = list]
      BY <1>3 DEF SetSealed, SetSealedDefault
    <2>2. q \in DOMAIN conversations[p] => row.last = conversations[p][q].last
      BY DEF TypeOK, Conversation
    <2>3. /\ DOMAIN list = DOMAIN conversations[p]
          /\ \A d \in DOMAIN conversations[p] : list[d].last = conversations[p][d].last
      <3> HIDE DEF row
      <3> QED BY <2>2 DEF TypeOK
    <2> HIDE DEF list, row
    <2>4. ASSUME NEW r \in Personas, NEW d \in DOMAIN conversations'[r]
          PROVE  TouchedOr(r, d)'
      <3>1. d \in DOMAIN conversations[r] /\ conversations'[r][d].last = conversations[r][d].last
        BY <2>1, <2>3 DEF TypeOK
      <3>2. TouchedOr(r, d)
        BY <3>1 DEF UntouchedOnlyWhenStopped, TouchedOr
      <3> QED BY <3>1, <3>2, <1>0, TouchedKept
    <2> QED BY <2>4 DEF UntouchedOnlyWhenStopped, TouchedOr
  <1>4. CASE ~(\/ conversations' = conversations
               \/ \E p \in Personas, c \in ConvId : CreateMissing(p, c)
               \/ \E p, q \in Personas : SetSealed(p, q))
    BY <1>4 DEF vars, Mount, MountFails, Unmount, Ready, Attach, StartSession,
                RefreshConversation, MountStep
  <1> QED BY <1>1, <1>2, <1>3, <1>4

\* A handler between the statements of an append is one of a text.
LEMMA TouchingTexts ==
  ASSUME HandlerInv, NEW h \in handling, h.pc = "touch", NEW hs, h \in hs
  PROVE  <<h.env.text, h.env.to>> \in TextsOf(hs)
PROOF
  BY DEF HandlerInv, Handled, TextsOf

\* UntouchedOnlyWhenStopped is kept: an append ends in its second statement, which sets
\* the time of its conversation, or is stopped before it.
LEMMA UntouchedNext ==
  ASSUME TypeOK, CallInv, HandlerInv, RowInv, UntouchedOnlyWhenStopped, [Next]_vars
  PROVE  UntouchedOnlyWhenStopped'
PROOF
  <1> USE DEF screen, tables
  <1>0. Keeps
    BY NextKeeps
  <1>1. CASE Kill
    <2>1. \A h \in handling : h.pc = "touch" => <<h.env.text, h.env.to>> \in lost'
      BY <1>1, TouchingTexts DEF Kill
    <2>2. ASSUME NEW t \in Calls, call[t] # None, call[t].pc \in {"touch", "stopped"}
          PROVE  call'[t].pc \in {"touch", "stopped"}
      <3>1. call'[t] \in {call[t], [call[t] EXCEPT !.pc = "stopped", !.out = {}]}
        BY <1>1 DEF Kill
      <3>2. call[t] \in Call
        BY <2>2, CallFields
      <3> QED BY <3>1, <3>2, <2>2 DEF Call
    <2>3. NoneEnds
      BY <1>1, <2>1, <2>2 DEF NoneEnds, Kill
    <2>4. conversations' = conversations /\ messages' = messages
      BY <1>1 DEF Kill
    <2> QED BY <1>0, <2>3, <2>4, UntouchedKept
  <1>2. ASSUME NEW t \in Calls, NEW p \in Personas, NEW c \in ConvId, Press(t, p, c)
        PROVE  UntouchedOnlyWhenStopped'
    <2>1. \A u \in Calls : call[u] # None => call'[u] = call[u]
      BY <1>2 DEF Press, TypeOK
    <2>2. NoneEnds /\ conversations' = conversations /\ messages' = messages
      BY <1>2, <2>1 DEF NoneEnds, Press
    <2> QED BY <1>0, <2>2, UntouchedKept
  <1>3. ASSUME NEW t \in Calls, SendStep(t) \/ SendFails(t), ~Touch(t)
        PROVE  UntouchedOnlyWhenStopped'
    <2>1. /\ call[t] # None /\ \A u \in Calls : u # t => call'[u] = call[u]
      BY <1>3, SendMoves, MovedCall DEF MovesOne
    <2>2. \/ call[t].pc \notin {"touch", "stopped"}
          \/ Moved(t, "stopped", {})
      BY <1>3 DEF SendStep, SendFails, SendClosed, Welcome, Encrypt, Insert, Ship, At, Rejected,
                  Moved
    <2>3. Moved(t, "stopped", {}) => call'[t].pc = "stopped"
      BY <2>1, MovedCall DEF Labels
    <2>4. lost' = lost /\ handling \subseteq handling' /\ conversations' = conversations
      BY <1>3 DEF SendStep, SendFails, SendClosed, Welcome, Encrypt, Insert, Ship
    <2>5. NoneEnds
      BY <2>1, <2>2, <2>3, <2>4 DEF NoneEnds
    <2>6. ASSUME NEW q \in Personas, NEW r \in messages'[q], r \notin messages[q]
          PROVE  Unfinished(q, r)'
      <3>1. Insert(t)
        BY <1>3, <2>6 DEF SendStep, SendFails, SendClosed, Welcome, Encrypt, Ship
      <3>2. q = call[t].who /\ r.text = t /\ r.from = q
        BY <3>1, <2>6 DEF Insert, InsertMessage, TypeOK
      <3>3. call'[t].pc = "touch"
        BY <3>1, <2>1, InsertMoves, MovedCall, CallFields DEF Labels, SendLabels
      <3> QED BY <3>2, <3>3 DEF Unfinished
    <2> QED BY <1>0, <2>4, <2>5, <2>6, UntouchedKept
  <1>4. ASSUME NEW t \in Calls, Touch(t) PROVE UntouchedOnlyWhenStopped'
    <2>a. PICK p : p = call[t].who
      OBVIOUS
    <2>b. PICK c : c = call[t].conv
      OBVIOUS
    <2>c. PICK n : n = call[t].sentAt
      OBVIOUS
    <2>1. /\ call[t] # None /\ p \in Personas /\ n \in Nat /\ Pressed(t) /\ HasRow(t)
          /\ \A u \in Calls : u # t => call'[u] = call[u]
      <3>1. call[t] # None /\ call[t].pc = "touch"
        BY <1>4 DEF Touch, At
      <3>2. \A u \in Calls : u # t => call'[u] = call[u]
        BY <1>4, SendMoves, MovedCall DEF MovesOne, SendStep
      <3> QED BY <3>1, <3>2, <2>a, <2>c, CallFields DEF CallInv, Ships
    <2>2. c \in DOMAIN conversations[p]
      BY <2>1, <2>a, <2>b DEF Pressed
    <2>3. \E r \in RowsOf(p, c) : r.sentAt = n
      <3>1. PICK r \in messages[p] : r.text = t /\ r.from = p
        BY <2>1, <2>a DEF HasRow
      <3>2. r.conv = c /\ r.sentAt = n
        BY <3>1, <2>1, <2>b, <2>c DEF RowInv, Agrees
      <3> QED BY <3>1, <3>2 DEF RowsOf
    <2>4. ASSUME NEW q \in Personas, NEW r \in messages[q], Unfinished(q, r), ~(q = p /\ r.conv = c)
          PROVE  Unfinished(q, r)'
      <3>1. Agrees(q, r) /\ r.text \in Calls
        BY DEF RowInv, TypeOK, Row
      <3>2. r.from = q => call'[r.text] = call[r.text]
        BY <3>1, <2>1, <2>4, <2>a, <2>b DEF Agrees
      <3>3. lost' = lost /\ handling' = handling
        BY <1>4 DEF Touch
      <3> QED BY <2>4, <3>2, <3>3 DEF Unfinished
    <2>5. messages' = messages /\ conversations' = [conversations EXCEPT ![p][c].last = n]
      BY <1>4, <2>a, <2>b, <2>c DEF Touch, TouchConversation
    <2> QED BY <1>0, <2>1, <2>2, <2>3, <2>4, <2>5, TouchEnds
  <1>5. ASSUME NEW h \in handling, HandlerStep(h) \/ HandlerFails(h), ~TouchReceived(h)
        PROVE  UntouchedOnlyWhenStopped'
    <2>1. conversations' = conversations /\ call' = call
      BY <1>5 DEF HandlerStep, HandlerFails, HandlerClosed, Decrypt, PickConversation,
                  InsertReceived, Drop
    <2>2. /\ lost \subseteq lost' /\ handling \ {h} \subseteq handling'
          /\ h.pc \in {"decrypt", "list", "insert"} \/ lost' = lost \cup TextsOf({h})
      BY <1>5 DEF HandlerStep, HandlerFails, HandlerClosed, Decrypt, PickConversation,
                  InsertReceived, Drop, Handle
    <2>3. NoneEnds
      <3>1. ASSUME NEW g \in handling, g.pc = "touch"
            PROVE  g \in handling' \/ <<g.env.text, g.env.to>> \in lost'
        <4>1. CASE g = h
          BY <2>2, <3>1, <4>1, TouchingTexts
        <4> QED BY <2>2, <4>1
      <3> QED BY <2>1, <2>2, <3>1 DEF NoneEnds
    <2>4. ASSUME NEW q \in Personas, NEW r \in messages'[q], r \notin messages[q]
          PROVE  Unfinished(q, r)'
      <3>1. InsertReceived(h)
        BY <1>5, <2>4 DEF HandlerStep, HandlerFails, HandlerClosed, Decrypt, PickConversation,
                          Drop
      <3>2. q = h.env.to /\ r.text = h.env.text /\ r.from = h.env.from
        BY <3>1, <2>4 DEF InsertReceived, InsertMessage, TypeOK
      <3>3. r.from # q
        BY <3>2 DEF HandlerInv, Handled, OfCall
      <3> DEFINE g == [h EXCEPT !.pc = "touch"]
      <3>4. g.pc = "touch" /\ g.env = h.env
        BY HandlerFields DEF Handler
      <3>5. g \in handling'
        BY <3>1 DEF InsertReceived, Handle
      <3> HIDE DEF g
      <3> QED BY <3>2, <3>3, <3>4, <3>5 DEF Unfinished
    <2> QED BY <1>0, <2>1, <2>3, <2>4, UntouchedKept
  <1>6. ASSUME NEW h \in handling, TouchReceived(h) PROVE UntouchedOnlyWhenStopped'
    <2> DEFINE p == h.env.to
               c == Target(h.env)
               n == h.sentAt
    <2>1. /\ p \in Personas /\ n \in Nat /\ Handled(h) /\ h.env.text \in Calls
          /\ h.env.kind \in {"message", "welcome", "group"} /\ h.pc = "touch"
      BY <1>6, HandlerFields DEF HandlerInv, TouchReceived
    <2>2. /\ c \in DOMAIN conversations[p] /\ \E r \in RowsOf(p, c) : r.sentAt = n
          /\ h.env.kind # "welcome" /\ OfCall(h.env)
      BY <2>1 DEF Handled
    <2>3. ASSUME NEW q \in Personas, NEW r \in messages[q], Unfinished(q, r), ~(q = p /\ r.conv = c)
          PROVE  Unfinished(q, r)'
      <3>1. Agrees(q, r) /\ r.text \in Calls
        BY DEF RowInv, TypeOK, Row
      <3>2. call' = call /\ lost' = lost /\ handling' = handling \ {h}
        BY <1>6 DEF TouchReceived
      <3>3. ASSUME r.from # q, h.env.text = r.text, h.env.to = q PROVE FALSE
        <4>1. CASE h.env.kind = "message"
          BY <2>2, <2>3, <3>1, <3>3, <4>1 DEF OfCall, Agrees, Target, Personas, Group
        <4>2. CASE h.env.kind = "group"
          BY <2>2, <2>3, <3>1, <3>3, <4>2 DEF OfCall, Agrees, Target
        <4> QED BY <2>1, <2>2, <4>1, <4>2
      <3> QED BY <2>3, <3>2, <3>3 DEF Unfinished
    <2>4. messages' = messages /\ conversations' = [conversations EXCEPT ![p][c].last = n]
      BY <1>6 DEF TouchReceived, TouchConversation
    <2> HIDE DEF p, c, n
    <2> QED BY <1>0, <2>1, <2>2, <2>3, <2>4, TouchEnds
  <1> QED BY <1>0, <1>1, <1>2, <1>3, <1>4, <1>5, <1>6, ScreenUntouched
          DEF Next, SendStep, HandlerStep

-----------------------------------------------------------------------------
(* The theorems *)

\* Every state of the chat satisfies the inductive invariant, whatever calls, handlers,
\* mounts and kills come in between.
THEOREM ChatInvariant == Spec => []ChatInv
PROOF
  <1>1. Init => ChatInv
    <2> SUFFICES ASSUME Init PROVE ChatInv
      OBVIOUS
    <2>1. TypeOK
      BY InitTypes
    <2>2. ReadyInv /\ CallInv /\ HandlerInv /\ RowInv /\ UntouchedOnlyWhenStopped
      BY DEF Init, ReadyInv, CallInv, HandlerInv, RowInv, UntouchedOnlyWhenStopped
    <2>3. OnceInv
      BY DEF Init, OnceInv
    <2> QED BY <2>1, <2>2, <2>3 DEF ChatInv
  <1>2. ChatInv /\ [Next]_vars => ChatInv'
    <2> SUFFICES ASSUME ChatInv, [Next]_vars PROVE ChatInv'
      OBVIOUS
    <2>1. TypeOK'
      BY NextTypes DEF ChatInv
    <2>2. CallInv'
      BY <2>1, CallNext DEF ChatInv
    <2> QED BY <2>1, <2>2, ReadyNext, HandlerNext, RowNext, UntouchedNext, OnceNext DEF ChatInv
  <1> QED BY <1>1, <1>2, PTL DEF Spec

\* What a persona's history shows as received is in its sender's history, in the
\* conversation that corresponds and with the same sealed flag.
THEOREM ChatShownWasSent == Spec => []ShownWasSent
PROOF
  <1>1. ChatInv => ShownWasSent
    <2> SUFFICES ASSUME ChatInv, NEW p \in Personas, NEW r \in messages[p], r.from # p
                 PROVE  \E s \in messages[r.from] :
                          /\ s.text = r.text /\ s.from = r.from /\ s.sealed = r.sealed
                          /\ s.conv = IF r.conv = Group THEN Group ELSE p
      BY DEF ShownWasSent
    <2>1. Agrees(p, r) /\ r.from \in Personas /\ r.text \in Calls
      BY DEF ChatInv, RowInv, TypeOK, Row
    <2>2. PICK s \in messages[r.from] : s.text = r.text /\ s.from = r.from
      BY <2>1 DEF Agrees, HasRow
    <2>3. Agrees(r.from, s)
      BY <2>1 DEF ChatInv, RowInv
    <2>4. r.from # Group /\ p # Group
      BY <2>1 DEF Personas, Group
    <2> QED BY <2>1, <2>2, <2>3, <2>4 DEF Agrees
  <1> QED BY <1>1, ChatInvariant, PTL

\* A persona's own messages are in the order in which it pressed send.
THEOREM ChatOwnMessagesInOrder == Spec => []OwnMessagesInOrder
PROOF
  <1>1. ChatInv => OwnMessagesInOrder
    <2> SUFFICES ASSUME ChatInv, NEW p \in Personas, NEW r \in messages[p], NEW s \in messages[p],
                        r.from = p, s.from = p, r.text < s.text
                 PROVE  r.sentAt < s.sentAt
      BY DEF OwnMessagesInOrder
    <2>1. /\ r.text \in Calls /\ s.text \in Calls
          /\ r.sentAt = call[r.text].sentAt /\ s.sentAt = call[s.text].sentAt
          /\ call[s.text] # None
      BY DEF ChatInv, RowInv, Agrees, TypeOK, Row
    <2>2. r.text \in 1 .. (s.text - 1)
      BY <2>1, ChatAssumption DEF Calls
    <2> QED BY <2>1, <2>2 DEF ChatInv, CallInv, Pressed
  <1> QED BY <1>1, ChatInvariant, PTL

\* The list of conversations agrees with the messages, but for appends on their way or
\* stopped between their two statements.
THEOREM ChatUntouchedOnlyWhenStopped == Spec => []UntouchedOnlyWhenStopped
PROOF
  <1>1. ChatInv => UntouchedOnlyWhenStopped
    BY DEF ChatInv
  <1> QED BY <1>1, ChatInvariant, PTL

-----------------------------------------------------------------------------
(* The refinement of ChatHistories *)

\* A row that is added is an entry that is added.
LEMMA RowIsEntry ==
  ASSUME TypeOK, NEW p \in Personas, NEW row, messages' = [messages EXCEPT ![p] = @ \cup {row}]
  PROVE  Histories!Adds(p, Entry(p, row)) /\ Entry(p, row) \in history'[p]
PROOF
  <1>1. \A q \in Personas : messages'[q] = IF q = p THEN messages[p] \cup {row} ELSE messages[q]
    BY DEF TypeOK
  <1>2. \A q \in Personas :
          {Entry(q, r) : r \in messages'[q]} =
            IF q = p THEN {Entry(q, r) : r \in messages[q]} \cup {Entry(p, row)}
            ELSE {Entry(q, r) : r \in messages[q]}
    BY <1>1
  <1>3. /\ history = [q \in Personas |-> history[q]] /\ history' = [q \in Personas |-> history'[q]]
        /\ \A q \in Personas : /\ history[q] = {Entry(q, r) : r \in messages[q]}
                              /\ history'[q] = {Entry(q, r) : r \in messages'[q]}
    BY DEF history, Entry
  <1>4. \A q \in Personas :
          history'[q] = IF q = p THEN history[q] \cup {Entry(p, row)} ELSE history[q]
    BY <1>2, <1>3
  <1>5. history' = [history EXCEPT ![p] = @ \cup {Entry(p, row)}]
    BY <1>3, <1>4
  <1> QED BY <1>4, <1>5 DEF Histories!Adds

\* The entries of a history are its rows, and name their texts.
LEMMA EntryOfText ==
  ASSUME NEW p \in Personas, NEW f \in history[p]
  PROVE  Shown(p, f.text)
PROOF
  <1>1. PICK r \in messages[p] : f = Entry(p, r)
    BY DEF history
  <1> QED BY <1>1 DEF Entry, Shown

\* The first statement of an append of one's own is the sending of a message.
LEMMA InsertSends ==
  ASSUME ChatInv, NEW t \in Calls, Insert(t)
  PROVE  Histories!Next
PROOF
  <1> DEFINE p == call[t].who
             row == [text |-> t, from |-> p, conv |-> call[t].conv,
                     sealed |-> call[t].sealed, sentAt |-> call[t].sentAt]
             e == Entry(p, row)
  <1>1. call[t] # None /\ call[t].pc = "insert" /\ p \in Personas /\ Pressed(t) /\ SendsOnce(t)
    BY CallFields DEF ChatInv, Insert, At, CallInv, OnceInv
  <1>2. messages' = [messages EXCEPT ![p] = @ \cup {row}]
    BY DEF Insert, InsertMessage
  <1>3. e.text = t /\ e.from = p /\ e.sealed = call[t].sealed /\ e.to = call[t].conv
    BY DEF Entry
  <1> HIDE DEF row
  <1>4. Histories!Adds(p, e) /\ e \in history'[p]
    BY <1>1, <1>2, RowIsEntry DEF ChatInv
  <1> HIDE DEF e
  <1>5. e.to # p /\ (e.to = Group => ~e.sealed)
    BY <1>1, <1>3 DEF Pressed, ChatInv, TypeOK
  <1>6. ASSUME NEW q \in Personas, NEW f \in history[q] PROVE f.text # t
    <2>1. ~HasRow(t)
      BY <1>1 DEF SendsOnce
    <2> QED BY <2>1, EntryOfText, ShownHasRow DEF ChatInv
  <1>7. Histories!Send(p, e)
    BY <1>3, <1>4, <1>5, <1>6 DEF Histories!Send
  <1> QED BY <1>1, <1>4, <1>7 DEF Histories!Next

\* The first statement of an append of the receiver shows what the sender's history has.
LEMMA InsertReceivedReceives ==
  ASSUME ChatInv, NEW h \in handling, InsertReceived(h)
  PROVE  Histories!Next
PROOF
  <1> DEFINE p == h.env.to
             q == h.env.from
             t == h.env.text
             c == call[t]
             row == [text |-> t, from |-> q, conv |-> Target(h.env),
                     sealed |-> h.env.sealed, sentAt |-> h.sentAt]
             e == Entry(p, row)
  <1>1. /\ p \in Personas /\ q \in Personas /\ t \in Calls
        /\ h.env.kind \in {"message", "welcome", "group"}
        /\ h.pc = "insert" /\ Handled(h) /\ ShowsOnce(h)
    BY HandlerFields DEF ChatInv, InsertReceived, HandlerInv, OnceInv
  <1>2. messages' = [messages EXCEPT ![p] = @ \cup {row}]
    BY DEF InsertReceived, InsertMessage
  <1>3. /\ h.env.kind # "welcome" /\ HasRow(t) /\ OfCall(h.env)
        /\ c # None /\ q = c.who /\ p # q
    BY <1>1 DEF Handled, OfCall
  <1>4. h.env.sealed = c.sealed /\ (IF h.env.kind = "message" THEN c.conv = p ELSE c.conv = Group)
    BY <1>1, <1>3 DEF OfCall
  <1>5. /\ e.text = t /\ e.from = q /\ e.sealed = c.sealed
        /\ e.to = IF Target(h.env) = Group THEN Group ELSE p
    BY <1>3, <1>4 DEF Entry
  <1> HIDE DEF row
  <1>6. Histories!Adds(p, e) /\ e \in history'[p]
    BY <1>1, <1>2, RowIsEntry DEF ChatInv
  <1> HIDE DEF e
  <1>7. e.to = c.conv /\ e.to \in {Group, p}
    BY <1>1, <1>3, <1>4, <1>5 DEF Target, Personas, Group
  <1>8. \E f \in history[e.from] : Histories!SameMessage(e, f)
    <2>1. PICK s \in messages[q] : s.text = t /\ s.from = q
      BY <1>3 DEF HasRow
    <2>2. Agrees(q, s)
      BY <1>1, <2>1 DEF ChatInv, RowInv
    <2>3. s.sealed = c.sealed /\ s.conv = c.conv
      BY <2>1, <2>2 DEF Agrees
    <2>4. /\ Entry(q, s).text = t /\ Entry(q, s).from = q
          /\ Entry(q, s).sealed = c.sealed /\ Entry(q, s).to = c.conv
      BY <2>1, <2>3 DEF Entry
    <2>5. Entry(q, s) \in history[q]
      BY <1>1, <2>1 DEF history
    <2> QED BY <1>5, <1>7, <2>4, <2>5 DEF Histories!SameMessage
  <1>9. ASSUME NEW f \in history[p] PROVE f.text # t
    BY <1>1, <1>3, EntryOfText DEF ShowsOnce
  <1>10. Histories!Receive(p, e)
    BY <1>3, <1>5, <1>6, <1>7, <1>8, <1>9 DEF Histories!Receive
  <1> QED BY <1>1, <1>6, <1>10 DEF Histories!Next

\* A step that adds no row is not seen.
LEMMA OtherStepsUnseen ==
  ASSUME [Next]_vars, \A t \in Calls : ~Insert(t), \A h \in handling : ~InsertReceived(h)
  PROVE  messages' = messages
PROOF
  <1> USE DEF screen, tables
  <1>1. ASSUME NEW t \in Calls, SendStep(t) \/ SendFails(t), ~Insert(t)
        PROVE  messages' = messages
    BY <1>1 DEF SendStep, SendFails, SendClosed, Welcome, Encrypt, Touch, Ship
  <1>2. ASSUME NEW h \in handling, HandlerStep(h) \/ HandlerFails(h), ~InsertReceived(h)
        PROVE  messages' = messages
    BY <1>2 DEF HandlerStep, HandlerFails, HandlerClosed, Decrypt, PickConversation,
                TouchReceived, Drop
  <1>3. CASE \/ Mount \/ MountStep \/ MountFails \/ Unmount
             \/ \E p, q \in Personas : SetSealed(p, q) \/ RefreshConversation(p, q)
    BY <1>3 DEF Mount, MountFails, Unmount, Ready, Attach, StartSession,
                RefreshConversation, SetSealed, CreateMissing, MountStep
  <1>4. ASSUME NEW t \in Calls, NEW p \in Personas, NEW c \in ConvId, Press(t, p, c)
        PROVE  messages' = messages
    BY <1>4 DEF Press
  <1>5. Kill => messages' = messages
    BY Zenon DEF Kill
  <1>6. UNCHANGED vars => messages' = messages
    BY DEF vars
  <1> QED BY <1>1, <1>2, <1>3, <1>4, <1>5, <1>6 DEF Next

\* The chat shows its readers what ChatHistories allows: every message first to its
\* sender, then as it is and at most once to those it is for (send of useChatSession,
\* attachReceiver and appendMessage, over all interleavings with remounts and kills).
THEOREM ChatImplementsHistories == Spec => ImplementsChatHistories
PROOF
  <1>1. Init => Histories!Init
    BY DEF Init, Histories!Init, history
  <1>2. ChatInv /\ [Next]_vars => [Histories!Next]_history
    <2> SUFFICES ASSUME ChatInv, [Next]_vars PROVE Histories!Next \/ UNCHANGED history
      OBVIOUS
    <2>1. CASE messages' = messages
      BY <2>1 DEF history, Entry
    <2> QED BY <2>1, InsertSends, InsertReceivedReceives, OtherStepsUnseen
  <1> QED BY <1>1, <1>2, ChatInvariant, PTL
          DEF Spec, ImplementsChatHistories, Histories!Spec
=============================================================================
