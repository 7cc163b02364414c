---------------------------- MODULE ChatDelivery ----------------------------
(***************************************************************************)
(* The chat of the example app: a SignalClient and a ChatStore per         *)
(* persona, one InMemoryTransport between them, the hook that sends and    *)
(* the receiver that turns envelopes into rows.                            *)
(*                                                                         *)
(* A call of send and the handling of an envelope are sequences of awaits  *)
(* on the client, the chat database and the transport; nothing puts two of *)
(* them in order.  What the client does is taken from the modules of its   *)
(* operations: a message carries a handshake until the peer has answered   *)
(* in that session, a plain one opens in any session its receiver holds, a *)
(* sealed one opens only as a handshake and leaves no session but its own, *)
(* a group message opens only after a welcome.                             *)
(***************************************************************************)
EXTENDS Integers, FiniteSets, FiniteSetsExt

CONSTANTS N,             \* how many personas there are
          ReportsPreKey, \* whether a sealed handshake consumes its prekey (iOS)
          None,
          Presses,       \* <<t, p, c>>: call t may be persona p's, in conversation c
          MaxSends, MaxMounts, \* bounds of the instance: of calls and of mounts, and
          MaxCost        \* of what a call or a switch (1), a failure or a remount (2) cost

ASSUME ChatAssumption ==
  /\ N \in Nat /\ N > 1 /\ MaxSends \in Nat
  /\ ReportsPreKey \in BOOLEAN
  /\ Presses \subseteq {tpc \in (1 .. MaxSends) \X (1 .. N) \X (0 .. N) : tpc[2] # tpc[3]}
  /\ None \notin Nat

VARIABLES mount,         \* the mounts of the screen so far, and
          stage,         \* what the last of them is doing
          subs,          \* the personas with a subscriber in the transport
          conversations, \* conversations[p]: the rows of that table of p, by id
          messages,      \* messages[p]: the rows of that table of p
          rendered,      \* rendered[p][q]: sealedDefault as the screen last read it
          events,        \* what remounts, switches and failures have cost so far
          call,          \* call[t]: a call of send; its text is t
          handling,      \* the envelopes whose asynchronous handler is running
          session,       \* session[p][q]: the mount in which p last took a bundle of q
          record,        \* record[p][q]: the session record of p for q
          preKey,        \* preKey[p][q]: the mount whose one-time prekey q still has for p,
                         \* or 0
          iteration,     \* iteration[p]: group messages p has encrypted
          welcomed,      \* welcomed[p][q]: where the chain of q begins for p
          now,           \* Date.now()
          lost           \* history: texts whose reception failed or was stopped

client == <<session, record, preKey, iteration, welcomed>>
tables == <<conversations, messages>>
screen == <<mount, stage, subs, rendered, events>>
vars   == <<screen, tables, call, handling, client, now, lost>>

Personas == 1 .. N   \* in the order of PERSONAS
Group    == 0        \* the group conversation, the same for every persona
ConvId   == Personas \cup {Group}
Calls    == 1 .. MaxSends
Pairs    == {pq \in Personas \X Personas : pq[1] # pq[2]}

\* What all calls have cost, and an event of cost n.
Sent == Cardinality({t \in Calls : call[t] # None})
Event(n) == Sent + events + n <= MaxCost /\ events' = events + n

NothingRendered == [p \in Personas |-> [q \in Personas |-> FALSE]]

Peers(p) == Personas \ {p}

\* The pairs (i, j) that the nested loops of mount reach before (p, q).
Before(i, j, p, q) == i < p \/ (i = p /\ j < q)

Conversation == [sealed : BOOLEAN, last : Nat \cup {None}]
Row == [text : Calls, from : Personas, conv : ConvId, sealed : BOOLEAN, sentAt : Nat]

\* A session: who started it, in which mount, and the handshake its other side was built
\* from, which gives that side a ratchet of its own.  None: its starter has not heard
\* from the other side.
Session == [by : Personas, mount : Nat, built : Calls \cup {None}]
Record  == [current : Session, held : SUBSET Session]
NoSession == [by |-> 1, mount |-> 0, built |-> None]

Envelope ==
  [kind : {"message", "welcome", "group"}, text : Calls, from : Personas, to : Personas,
   sealed : BOOLEAN, handshake : BOOLEAN, session : Session, iteration : Nat]

SendLabels == {"welcome", "invite", "encrypt", "insert", "touch", "ship"}
Call == [pc : SendLabels \cup {"returned", "stopped"}, who : Personas,
         conv : ConvId, sealed : BOOLEAN, sentAt : Nat, mount : Nat, out : SUBSET Envelope]
ASSUME NoneAssumption == None \notin Call

Handler == [pc : {"decrypt", "list", "insert", "touch"}, env : Envelope, sentAt : Nat,
            mount : Nat]
Stages == {"closed", "attach", "sessions", "conversations", "ready", "failed"}

TypeOK ==
  /\ mount \in Nat /\ stage \in Stages /\ subs \subseteq Personas /\ events \in Nat
  /\ DOMAIN conversations = Personas
  /\ \A p \in Personas :
       /\ DOMAIN conversations[p] \subseteq ConvId \ {p}
       /\ conversations[p] \in [DOMAIN conversations[p] -> Conversation]
  /\ messages \in [Personas -> SUBSET Row]
  /\ rendered \in [Personas -> [Personas -> BOOLEAN]]
  /\ session \in [Personas -> [Personas -> 0 .. mount]]
  /\ record \in [Personas -> [Personas -> Record]]
  /\ preKey \in [Personas -> [Personas -> 0 .. mount]]
  /\ iteration \in [Personas -> Nat]
  /\ welcomed \in [Personas -> [Personas -> Nat \cup {None}]]
  /\ call \in [Calls -> Call \cup {None}]
  /\ handling \subseteq Handler
  /\ now \in Nat /\ lost \subseteq Calls \X Personas

-----------------------------------------------------------------------------
\* ChatStore: one statement per step.

\* Mutant: the flag a caller leaves out is stored as null.
CreateConversationNull(p, c) ==
  conversations' =
    [conversations EXCEPT ![p] =
       [d \in DOMAIN @ \cup {c} |-> IF d = c THEN [sealed |-> None, last |-> None] ELSE @[d]]]

\* createConversation, for a conversation that is not there yet.
CreateConversation(p, c) ==
  conversations' =
    [conversations EXCEPT ![p] =
       [d \in DOMAIN @ \cup {c} |-> IF d = c THEN [sealed |-> FALSE, last |-> None]
                                             ELSE @[d]]]

ListConversations(p) == DOMAIN conversations[p]

\* The two statements of appendMessage.
InsertMessage(p, row) == messages' = [messages EXCEPT ![p] = @ \cup {row}]
TouchConversation(p, c, at) == conversations' = [conversations EXCEPT ![p][c].last = at]

SetSealedDefault(p, c, sealed) ==
  conversations' = [conversations EXCEPT ![p][c].sealed = sealed]

RowsOf(p, c) == {r \in messages[p] : r.conv = c}

-----------------------------------------------------------------------------
\* The session record that an operation of the client stores over r: s is current, and
\* those of r are archived but for old.
Use(r, old, s) == [current |-> s, held |-> (r.held \ old) \cup {s}]

-----------------------------------------------------------------------------
\* ChatHomeScreen: mounting, in three loops, and leaving.

Subscribe(p)   == subs' = subs \cup {p}
UnsubscribeAll == subs' = {}

Mount ==
  /\ stage = "closed" /\ mount < MaxMounts
  /\ IF mount = 0 THEN UNCHANGED events ELSE Event(2)
  /\ mount' = mount + 1 /\ stage' = "attach"
  /\ UNCHANGED <<subs, rendered, tables, call, handling, client, now, lost>>

\* The stores of the next persona are opened and its receiver subscribes.
Attach(p) ==
  /\ stage = "attach" /\ p \notin subs /\ 1 .. (p - 1) \subseteq subs
  /\ Subscribe(p)
  /\ stage' = IF subs' = Personas THEN "sessions" ELSE "attach"
  /\ UNCHANGED <<mount, rendered, events, tables, call, handling, client, now, lost>>

\* q publishes a bundle with a one-time prekey, p starts a session with it: its next
\* messages to q carry the handshake.  The ids of the prekeys start again with every
\* mount, so the bundle replaces the prekey of the last one.
StartSession(p, q) ==
  /\ stage = "sessions" /\ session[p][q] # mount
  /\ \A pq \in Pairs : Before(pq[1], pq[2], p, q) => session[pq[1]][pq[2]] = mount
  /\ session' = [session EXCEPT ![p][q] = mount]
  /\ record' = [record EXCEPT ![p][q] =
                  Use(@, {}, [by |-> p, mount |-> mount, built |-> None])]
  /\ preKey' = [preKey EXCEPT ![p][q] = mount]
  /\ stage' = IF \A pq \in Pairs : session'[pq[1]][pq[2]] = mount
              THEN "conversations" ELSE "sessions"
  /\ UNCHANGED <<mount, subs, rendered, events, tables, call, handling, iteration,
                 welcomed, now, lost>>

\* The conversations that are missing are created, each peer's first and the group's last.
CreateMissing(p, c) ==
  /\ stage = "conversations" /\ c # p /\ c \notin DOMAIN conversations[p]
  /\ \A r \in 1 .. (p - 1) : DOMAIN conversations[r] = ConvId \ {r}
  /\ \A d \in Peers(p) : (c = Group \/ d < c) => d \in DOMAIN conversations[p]
  /\ CreateConversation(p, c)
  /\ UNCHANGED <<screen, messages, call, handling, client, now, lost>>

\* The screens of the conversations load what is stored.
Ready ==
  /\ stage = "conversations"
  /\ \A p \in Personas : DOMAIN conversations[p] = ConvId \ {p}
  /\ stage' = "ready"
  /\ rendered' = [p \in Personas |->
                    [q \in Personas |-> q # p /\ conversations[p][q].sealed]]
  /\ UNCHANGED <<mount, subs, events, tables, call, handling, client, now, lost>>

\* An await of mount throws: nobody catches it, and the screen stays as it is.
MountFails ==
  /\ stage \in {"attach", "sessions", "conversations"}
  /\ Event(2)
  /\ stage' = "failed"
  /\ UNCHANGED <<mount, subs, rendered, tables, call, handling, client, now, lost>>

\* The screen is left: the receivers unsubscribe and the stores are closed.  Calls
\* and handlers go on until they next need a store.
Unmount ==
  /\ stage \in {"ready", "failed"}
  /\ stage' = "closed" /\ UnsubscribeAll /\ rendered' = NothingRendered
  /\ UNCHANGED <<mount, events, tables, call, handling, client, now, lost>>

\* Whether the stores that mount m opened are still open.
Open(m) == m = mount /\ stage # "closed"

InProgress(t) == call[t] # None /\ call[t].pc \in SendLabels

\* The texts that are lost when the handlers hs end early.
TextsOf(hs) == {<<h.env.text, h.env.to>> : h \in {g \in hs : g.env.kind # "welcome"}}

\* The app is killed: the databases stay as they are.
Kill ==
  /\ stage # "closed"
  /\ stage' = "closed" /\ UnsubscribeAll /\ rendered' = NothingRendered
  /\ call' = [t \in Calls |-> IF InProgress(t) THEN [call[t] EXCEPT !.pc = "stopped", !.out = {}]
                                               ELSE call[t]]
  /\ lost' = lost \cup TextsOf(handling)
  /\ handling' = {}
  /\ UNCHANGED <<mount, events, tables, client, now>>

-----------------------------------------------------------------------------
\* The conversation screen and its hook.

\* The switch: the stored flag becomes what the screen does not show.
SetSealed(p, q) ==
  /\ stage = "ready" /\ \E t \in Calls : <<t, p, q>> \in Presses
  /\ SetSealedDefault(p, q, ~rendered[p][q])
  /\ Event(1)
  /\ UNCHANGED <<mount, stage, subs, rendered, messages, call, handling, client, now, lost>>

\* The refresh after the switch and at the end of send, and the poll every half a second.
RefreshConversation(p, q) ==
  /\ stage = "ready" /\ p # q /\ rendered[p][q] # conversations[p][q].sealed
  /\ rendered' = [rendered EXCEPT ![p][q] = conversations[p][q].sealed]
  /\ UNCHANGED <<mount, stage, subs, events, tables, call, handling, client, now, lost>>

\* send(text) up to its first await: the flag is the one on the screen, and the time
\* is taken here.
Press(t, p, c) ==
  /\ stage = "ready" /\ <<t, p, c>> \in Presses /\ Sent + events < MaxCost
  /\ call[t] = None /\ \A u \in 1 .. (t - 1) : call[u] # None
  /\ now' = now + 1
  /\ call' = [call EXCEPT ![t] =
       [pc |-> IF c = Group THEN "welcome" ELSE "encrypt", who |-> p, conv |-> c,
        sealed |-> c # Group /\ rendered[p][c], sentAt |-> now', mount |-> mount,
        out |-> {}]]
  /\ UNCHANGED <<screen, tables, handling, client, lost>>

At(t, label) == call[t] # None /\ call[t].pc = label
Goto(t, label) == call' = [call EXCEPT ![t].pc = label]
Rejected(t)    == call' = [call EXCEPT ![t].pc = "stopped", ![t].out = {}]

\* A ciphertext from p to q in the current session.
Pairwise(kind, t, p, q, sealed, it) ==
  LET s == record[p][q].current
  IN  [kind |-> kind, text |-> t, from |-> p, to |-> q, sealed |-> sealed,
       handshake |-> s.by = p /\ s.built = None, session |-> s, iteration |-> it]

Welcome(t, q) ==
  LET p    == call[t].who
      made == call[t].out
      \* the distribution message is made once, before the first member's envelope
      it   == IF made = {} THEN iteration[p] ELSE Min({e.iteration : e \in made})
  IN  /\ At(t, "welcome") /\ Open(call[t].mount)
      /\ q = Min(Peers(p) \ {e.to : e \in made})
      /\ call' = [call EXCEPT
           ![t].out = @ \cup {Pairwise("welcome", t, p, q, FALSE, it)},
           ![t].pc = IF q = Max(Peers(p)) THEN "invite" ELSE "welcome"]
      /\ UNCHANGED <<screen, tables, handling, client, now, lost>>

Encrypt(t) ==
  LET p == call[t].who
      c == call[t].conv
  IN  /\ At(t, "encrypt") /\ Open(call[t].mount)
      /\ call' = [call EXCEPT ![t].pc = "insert", ![t].out =
           IF c # Group THEN {Pairwise("message", t, p, c, call[t].sealed, 0)}
           ELSE {[kind |-> "group", text |-> t, from |-> p, to |-> q, sealed |-> FALSE,
                  handshake |-> FALSE, session |-> NoSession, iteration |-> iteration[p]]
                   : q \in Peers(p)}]
      /\ iteration' = IF c = Group THEN [iteration EXCEPT ![p] = @ + 1] ELSE iteration
      /\ UNCHANGED <<screen, tables, handling, session, record, preKey, welcomed, now, lost>>

\* Mutant: the flag is read again for the row.
InsertReadsFlag(t) ==
  LET p == call[t].who
      c == call[t].conv
  IN  /\ At(t, "insert") /\ Open(call[t].mount)
      /\ InsertMessage(p, [text |-> t, from |-> p, conv |-> c,
                           sealed |-> conversations[p][c].sealed, sentAt |-> call[t].sentAt])
      /\ Goto(t, "touch")
      /\ UNCHANGED <<screen, conversations, handling, client, now, lost>>

\* Mutant: the time is taken when the row is made.
InsertStampsNow(t) ==
  /\ At(t, "insert") /\ Open(call[t].mount)
  /\ now' = now + 1
  /\ InsertMessage(call[t].who,
       [text |-> t, from |-> call[t].who, conv |-> call[t].conv, sealed |-> call[t].sealed,
        sentAt |-> now'])
  /\ call' = [call EXCEPT ![t].pc = "touch", ![t].sentAt = now']
  /\ UNCHANGED <<screen, conversations, handling, client, lost>>

\* appendMessage, its first statement: the flag and the time are those of Press.
Insert(t) ==
  /\ At(t, "insert") /\ Open(call[t].mount)
  /\ InsertMessage(call[t].who,
       [text |-> t, from |-> call[t].who, conv |-> call[t].conv, sealed |-> call[t].sealed,
        sentAt |-> call[t].sentAt])
  /\ Goto(t, "touch")
  /\ UNCHANGED <<screen, conversations, handling, client, now, lost>>

Touch(t) ==
  /\ At(t, "touch") /\ Open(call[t].mount)
  /\ TouchConversation(call[t].who, call[t].conv, call[t].sentAt)
  /\ Goto(t, "ship")
  /\ UNCHANGED <<screen, messages, handling, client, now, lost>>

\* transport.send(e.to, e), to one peer after the other: whatever subscriber is there now
\* is called, or send throws.
Ship(t) ==
  LET e    == CHOOSE f \in call[t].out : \A g \in call[t].out : f.to <= g.to
      rest == call[t].out \ {e}
      done == IF At(t, "invite") THEN "encrypt" ELSE "returned"
  IN  /\ At(t, "invite") \/ At(t, "ship")
      /\ \/ /\ e.to \in subs
            /\ handling' = handling \cup
                 {[pc |-> "decrypt", env |-> e, sentAt |-> 0, mount |-> mount]}
            /\ call' = [call EXCEPT ![t].out = rest,
                                    ![t].pc = IF rest = {} THEN done ELSE @]
         \/ /\ e.to \notin subs
            /\ Rejected(t)
            /\ UNCHANGED handling
      /\ UNCHANGED <<screen, tables, client, now, lost>>

\* An await of send rejects.  What was written stays.
SendFails(t) ==
  /\ InProgress(t) /\ Event(2)
  /\ Rejected(t)
  /\ UNCHANGED <<mount, stage, subs, rendered, tables, handling, client, now, lost>>

\* It must, when the store it needs is closed.
SendClosed(t) ==
  /\ InProgress(t) /\ ~Open(call[t].mount) /\ call[t].pc \notin {"invite", "ship"}
  /\ Rejected(t)
  /\ UNCHANGED <<screen, tables, handling, client, now, lost>>

-----------------------------------------------------------------------------
\* The receiver: one asynchronous function per envelope.

\* The sessions of the receiver in which e can be decrypted: the two sides agree on the
\* handshake, or one has not heard from the other.
Found(e) ==
  {s \in record[e.to][e.from].held :
     /\ s.by = e.session.by /\ s.mount = e.session.mount
     /\ s.built = e.session.built \/ None \in {s.built, e.session.built}}

\* What SignalClient.receive opens.  The keys of a handshake are loaded by their ids,
\* and the trust root of sealed messages is made anew in every mount.
Opens(e) ==
  IF e.kind = "group" THEN welcomed[e.to][e.from] # None /\ welcomed[e.to][e.from] <= e.iteration
  ELSE LET found == preKey[e.from][e.to]
       IN  IF e.sealed THEN e.handshake /\ e.session.mount = mount /\ found = mount
           ELSE /\ e.handshake => found # 0
                /\ Found(e) # {} \/ (e.handshake /\ found = e.session.mount)

\* The session of e as its receiver has it from then on.  One it has started is the
\* other side's, one the peer has started is built from e, unless it is there.
Promoted(e) ==
  IF e.session.by = e.to THEN e.session
  ELSE IF e.sealed \/ Found(e) = {} THEN [e.session EXCEPT !.built = e.text]
  ELSE CHOOSE s \in Found(e) : TRUE

\* Mutant: a plain message's session is stored over the record as well.
OpenedFresh(e) ==
  /\ record' = IF e.kind = "group" THEN record
               ELSE [record EXCEPT ![e.to][e.from] = Use(@, @.held, Promoted(e))]
  /\ preKey' = IF e.handshake /\ (~e.sealed \/ ReportsPreKey)
               THEN [preKey EXCEPT ![e.from][e.to] = 0] ELSE preKey
  /\ welcomed' = IF e.kind = "welcome" /\ welcomed[e.to][e.from] = None
                 THEN [welcomed EXCEPT ![e.to][e.from] = e.iteration] ELSE welcomed
  /\ UNCHANGED <<session, iteration>>

\* What it leaves in the store: the session e was opened in is current, and after a
\* sealed message there is no other; a handshake consumes the prekey under its id; the
\* first welcome says where the chain begins.
Opened(e) ==
  /\ record' = IF e.kind = "group" THEN record
               ELSE [record EXCEPT ![e.to][e.from] =
                       Use(@, IF e.sealed THEN @.held ELSE Found(e), Promoted(e))]
  /\ preKey' = IF e.handshake /\ (~e.sealed \/ ReportsPreKey)
               THEN [preKey EXCEPT ![e.from][e.to] = 0] ELSE preKey
  /\ welcomed' = IF e.kind = "welcome" /\ welcomed[e.to][e.from] = None
                 THEN [welcomed EXCEPT ![e.to][e.from] = e.iteration] ELSE welcomed
  /\ UNCHANGED <<session, iteration>>

Handle(h, label) == handling' = (handling \ {h}) \cup {[h EXCEPT !.pc = label]}

Decrypt(h) ==
  /\ h.pc = "decrypt" /\ Open(h.mount)
  /\ \/ Opens(h.env) /\ Opened(h.env) /\ Handle(h, "list")
     \/ /\ ~Opens(h.env)
        /\ handling' = handling \ {h}     \* the error is logged
        /\ UNCHANGED client
  /\ UNCHANGED <<screen, tables, call, now, lost>>

\* The conversation of an envelope, as its receiver names it.
Target(e) == IF e.kind = "message" THEN e.from ELSE Group

\* dispatchReceived is given handlers for what has a text, none for a welcome.
HasHandler(e) == e.kind # "welcome"

\* listConversations, pickConversationForReceived and dispatchReceived; the handler takes
\* the time before its first await.
PickConversation(h) ==
  LET e == h.env
      found == Target(e) \in ListConversations(e.to)
  IN  /\ h.pc = "list" /\ Open(h.mount)
      /\ \/ /\ found /\ HasHandler(e)
            /\ now' = now + 1
            /\ handling' = (handling \ {h}) \cup {[h EXCEPT !.pc = "insert", !.sentAt = now']}
         \/ /\ ~(found /\ HasHandler(e))
            /\ handling' = handling \ {h}
            /\ UNCHANGED now
      /\ UNCHANGED <<screen, tables, call, client, lost>>

\* Mutant: the conversation is not updated.
InsertReceivedOnly(h) ==
  LET e == h.env
  IN  /\ h.pc = "insert" /\ Open(h.mount)
      /\ InsertMessage(e.to, [text |-> e.text, from |-> e.from, conv |-> Target(e),
                              sealed |-> e.sealed, sentAt |-> h.sentAt])
      /\ handling' = handling \ {h}
      /\ UNCHANGED <<screen, conversations, call, client, now, lost>>

InsertReceived(h) ==
  LET e == h.env
  IN  /\ h.pc = "insert" /\ Open(h.mount)
      /\ InsertMessage(e.to, [text |-> e.text, from |-> e.from, conv |-> Target(e),
                              sealed |-> e.sealed, sentAt |-> h.sentAt])
      /\ Handle(h, "touch")
      /\ UNCHANGED <<screen, conversations, call, client, now, lost>>

TouchReceived(h) ==
  /\ h.pc = "touch" /\ Open(h.mount)
  /\ TouchConversation(h.env.to, Target(h.env), h.sentAt)
  /\ handling' = handling \ {h}
  /\ UNCHANGED <<screen, messages, call, client, now, lost>>

\* An await of the handler rejects: the error is logged, and nobody learns of it.
Drop(h) ==
  /\ handling' = handling \ {h}
  /\ lost' = lost \cup TextsOf({h})
  /\ UNCHANGED <<tables, call, client, now>>

HandlerFails(h) == Drop(h) /\ Event(2) /\ UNCHANGED <<mount, stage, subs, rendered>>

HandlerClosed(h) == ~Open(h.mount) /\ Drop(h) /\ UNCHANGED screen

-----------------------------------------------------------------------------
Init ==
  /\ mount = 0 /\ stage = "closed" /\ subs = {} /\ events = 0
  /\ conversations = [p \in Personas |-> [c \in {} |-> None]]
  /\ messages = [p \in Personas |-> {}]
  /\ rendered = NothingRendered
  /\ call = [t \in Calls |-> None] /\ handling = {}
  /\ session = [p \in Personas |-> [q \in Personas |-> 0]]
  /\ record = [p \in Personas |-> [q \in Personas |-> [current |-> NoSession, held |-> {}]]]
  /\ preKey = [p \in Personas |-> [q \in Personas |-> 0]]
  /\ iteration = [p \in Personas |-> 0]
  /\ welcomed = [p \in Personas |-> [q \in Personas |-> None]]
  /\ now = 0 /\ lost = {}

MountStep ==
  \/ \E p \in Personas : Attach(p)
  \/ \E pq \in Pairs : StartSession(pq[1], pq[2])
  \/ \E p \in Personas, c \in ConvId : CreateMissing(p, c)
  \/ Ready

SendStep(t) ==
  \/ \E q \in Personas : Welcome(t, q)
  \/ Encrypt(t) \/ Insert(t) \/ Touch(t) \/ Ship(t) \/ SendClosed(t)

HandlerStep(h) ==
  Decrypt(h) \/ PickConversation(h) \/ InsertReceived(h) \/ TouchReceived(h) \/ HandlerClosed(h)

Next ==
  \/ Mount \/ MountStep \/ MountFails \/ Unmount \/ Kill
  \/ \E p, q \in Personas : SetSealed(p, q) \/ RefreshConversation(p, q)
  \/ \E t \in Calls : \E p \in Personas, c \in ConvId : Press(t, p, c)
  \/ \E t \in Calls : SendStep(t) \/ SendFails(t)
  \/ \E h \in handling : HandlerStep(h) \/ HandlerFails(h)

\* The engine goes on with every handler whose await has settled.
Fairness == WF_vars(\E h \in handling : HandlerStep(h))

Spec == Init /\ [][Next]_vars /\ Fairness

-----------------------------------------------------------------------------
\* What is shown as received was sent: the sender's history has the text, in the
\* conversation that corresponds, with the same sealed flag.  send appends before it
\* ships, on another database than the one that receives, and either may stop anywhere.
ShownWasSent ==
  \A p \in Personas : \A r \in messages[p] :
    r.from # p => \E s \in messages[r.from] :
      /\ s.text = r.text /\ s.from = r.from /\ s.sealed = r.sealed
      /\ s.conv = IF r.conv = Group THEN Group ELSE p

\* A row as its reader sees it: from whom, to whom, how and when.
Entry(p, r) ==
  [text |-> r.text, from |-> r.from, sealed |-> r.sealed, at |-> r.sentAt,
   to |-> IF r.from = p \/ r.conv = Group THEN r.conv ELSE p]

history == [p \in Personas |-> {Entry(p, r) : r \in messages[p]}]

Histories == INSTANCE ChatHistories

\* No overtaking, failure, remount or kill shows a message to a receiver whose sender's
\* history lacks it or has it otherwise, to one it is not for, or twice; and no entry
\* goes away or changes.  send appends before it ships, on another database than the
\* one that receives, and the receiver's handlers run side by side.
ImplementsChatHistories == Histories!Spec

\* A persona's own messages are listed in the order in which it pressed send, although
\* the calls overtake each other: the time is taken before the first await.
OwnMessagesInOrder ==
  \A p \in Personas : \A r, s \in messages[p] :
    r.from = p /\ s.from = p /\ r.text < s.text => r.sentAt < s.sentAt

\* A row whose append has not ended well: it is on its way, or was stopped or refused
\* between its two statements.
Unfinished(p, r) ==
  \/ r.from = p /\ call[r.text].pc \in {"touch", "stopped"}
  \/ r.from # p /\ \/ <<r.text, p>> \in lost
                   \/ \E h \in handling : h.pc = "touch" /\ h.env.text = r.text /\ h.env.to = p

\* The list of conversations agrees with the messages, which appendMessage writes in a
\* statement before, outside a transaction: last_message_at is the time of a message of
\* that conversation, and missing only while no append to it has ended.
UntouchedOnlyWhenStopped ==
  \A p \in Personas : \A c \in DOMAIN conversations[p] :
    IF conversations[p][c].last = None THEN \A r \in RowsOf(p, c) : Unfinished(p, r)
    ELSE \E r \in RowsOf(p, c) : r.sentAt = conversations[p][c].last

\* A plain message in a session whose two sides have heard from each other, or one to the
\* group of which its receiver was told in time.
Expected(h) == \/ h.env.kind = "message" /\ ~h.env.sealed /\ ~h.env.handshake
               \/ h.env.kind = "group" /\ Opens(h.env)

\* A sealed handshake between p and q was opened by one of them, which left it with no
\* session but that one: what the record of p holds comes from it.
SealedOver(p, q) ==
  \E s \in record[p][q].held : s.built # None /\ call[s.built].sealed

\* Who the text of call t may be for.
Receivers(t) == UNION {IF tpc[3] = Group THEN Peers(tpc[2]) ELSE {tpc[3]}
                         : tpc \in {uqd \in Presses : uqd[1] = t}}

\* What is expected so arrives in the receiver's history while the screen is there, unless
\* its handler fails or the receiver no longer has the session; and nothing but a sealed
\* handshake between the two takes that.  The handlers of crossing and overtaking messages
\* race, each changes sessions and prekeys that others need, and a message that does not
\* open is only logged.
AnsweredArrives ==
  \A t \in Calls : \A q \in Receivers(t) :
    (\E h \in handling : Expected(h) /\ h.env.text = t /\ h.env.to = q)
      ~> \/ \E r \in messages[q] : r.text = t
         \/ <<t, q>> \in lost \/ stage # "ready"
         \/ \E h \in handling : /\ h.pc = "decrypt" /\ h.env.text = t /\ h.env.to = q
                                /\ ~Opens(h.env) /\ SealedOver(q, h.env.from)

-----------------------------------------------------------------------------
(* The inductive invariant of the safety properties *)

\* The row of its sender for the text of call t.
HasRow(t) == \E r \in messages[call[t].who] : r.text = t /\ r.from = call[t].who

\* Envelope e was made by the call of its text.
OfCall(e) ==
  LET c == call[e.text]
  IN  /\ c # None /\ e.from = c.who /\ e.to # e.from
      /\ e.kind = "message" => e.to = c.conv /\ e.sealed = c.sealed
      /\ e.kind = "group" => c.conv = Group /\ e.sealed = c.sealed

\* Once the screen has been ready, no conversation is missing.
ReadyInv == stage = "ready" => \A p \in Personas : DOMAIN conversations[p] = ConvId \ {p}

\* Call t was pressed after the calls before it, in a conversation that is there.
Pressed(t) ==
  /\ call[t].conv \in DOMAIN conversations[call[t].who]
  /\ call[t].conv = Group => ~call[t].sealed
  /\ call[t].sentAt <= now
  /\ \A u \in 1 .. (t - 1) : call[u] # None /\ call[u].sentAt < call[t].sentAt

\* Call t ships what it has made itself, and a text only when its row is written.
Ships(t) ==
  /\ \A e \in call[t].out : e.text = t /\ OfCall(e)
  /\ At(t, "welcome") =>
       \A e \in call[t].out : /\ e.kind = "welcome" /\ e.to # Max(Peers(call[t].who))
                             /\ \A f \in call[t].out : f.iteration = e.iteration
  /\ At(t, "invite") => call[t].out # {} /\ \A e \in call[t].out : e.kind = "welcome"
  /\ call[t].pc \in {"insert", "touch", "ship"} =>
       call[t].out # {} /\ \A e \in call[t].out : e.kind # "welcome"
  /\ call[t].pc \in {"touch", "ship"} => HasRow(t)

CallInv == \A t \in Calls : call[t] # None => Pressed(t) /\ Ships(t)

\* What handler h works on was shipped, and what it has written is there.
Handled(h) ==
  /\ OfCall(h.env)
  /\ h.env.kind # "welcome" => HasRow(h.env.text)
  /\ h.pc \in {"insert", "touch"} =>
       h.env.kind # "welcome" /\ Target(h.env) \in DOMAIN conversations[h.env.to]
  /\ h.pc = "touch" => \E r \in RowsOf(h.env.to, Target(h.env)) : r.sentAt = h.sentAt

HandlerInv == \A h \in handling : Handled(h)

\* Row r of p agrees with the call of its text: with all of it where the text was sent,
\* and but for the time where it was received.
Agrees(p, r) ==
  LET c == call[r.text]
  IN  /\ c # None /\ r.from = c.who /\ r.sealed = c.sealed
      /\ r.conv \in DOMAIN conversations[p]
      /\ r.from = p => r.conv = c.conv /\ r.sentAt = c.sentAt
      /\ r.from # p => /\ c.conv \in {Group, p} /\ HasRow(r.text)
                       /\ r.conv = IF c.conv = Group THEN Group ELSE r.from

RowInv == \A p \in Personas : \A r \in messages[p] : Agrees(p, r)

Shown(q, t) == \E r \in messages[q] : r.text = t

\* Handler h is to show text t to q, or has done so.
Brings(h, t, q) == h.env.kind # "welcome" /\ h.env.text = t /\ h.env.to = q

\* Call t writes its row once, and ships its text once to each receiver.
SendsOnce(t) ==
  /\ call[t].pc \in {"welcome", "invite", "encrypt", "insert"} => ~HasRow(t)
  /\ \A e \in call[t].out : e.kind # "welcome" =>
       /\ ~Shown(e.to, t) /\ \A h \in handling : ~Brings(h, t, e.to)
       /\ \A f \in call[t].out : f.to = e.to => f = e

\* Handler h is the only one of its text and receiver, and writes one row.
ShowsOnce(h) ==
  h.env.kind # "welcome" =>
    /\ h.pc # "touch" => ~Shown(h.env.to, h.env.text)
    /\ \A g \in handling : Brings(g, h.env.text, h.env.to) => g = h

OnceInv == /\ \A t \in Calls : call[t] # None => SendsOnce(t)
           /\ \A h \in handling : ShowsOnce(h)

ChatInv ==
  /\ TypeOK /\ ReadyInv /\ CallInv /\ HandlerInv /\ RowInv /\ UntouchedOnlyWhenStopped
  /\ OnceInv
=============================================================================
