--------------------------- MODULE ExclusiveQueue ---------------------------
(***************************************************************************)
(* SQLCipherProtocolStore.runExclusive: the mutual exclusion of protocol   *)
(* operations on one store.  There is no lock and no list of waiters; the  *)
(* store keeps one promise, this.queue, and a call replaces it:            *)
(*                                                                         *)
(*    run = this.queue.then(fn, fn)                                        *)
(*    this.queue = run.then(() => undefined, () => undefined)              *)
(*                                                                         *)
(* A call therefore waits for one promise only, the one this.queue held    *)
(* when it was made.  That the operations exclude each other and run in    *)
(* call order is a property of the whole chain.                            *)
(***************************************************************************)
EXTENDS Naturals, Sequences

CONSTANTS Calls,     \* the calls of runExclusive a behaviour may make
          Resolved   \* Promise.resolve(), the value of this.queue at first

ASSUME ResolvedAssumption == Resolved \notin Calls

VARIABLES tail,      \* this.queue: the call whose promise it derives from
          prev,      \* prev[t]: the promise fn of call t was chained on
          phase,     \* phase[t]: where call t is
          order      \* history: the calls made by this process, in order

queueVars == <<tail, prev, phase, order>>

Phases == {"idle", "queued", "running", "fulfilled", "rejected", "lost"}

Outcomes == {"fulfilled", "rejected"}

\* Mutants of Settled: reactions that do not wait, that wait for the function
\* before to be entered and not for its promise, and that a rejection never runs.
SettledAtOnce(p)      == TRUE
SettledWhenEntered(p) == p \in Calls => phase[p] # "queued"
SettledOnSuccess(p)   == p \in Calls => phase[p] = "fulfilled"

Settled(p) == p \in Calls => phase[p] \in Outcomes

QueueTypeOK ==
  /\ tail \in Calls \cup {Resolved}
  /\ prev \in [Calls -> Calls \cup {Resolved}]
  /\ phase \in [Calls -> Phases]
  /\ order \in Seq(Calls)

\* Mutant of RunExclusive: this.queue is not replaced.
RunExclusiveTailKept(t) ==
  /\ phase[t] = "idle"
  /\ phase' = [phase EXCEPT ![t] = "queued"]
  /\ prev' = [prev EXCEPT ![t] = tail]
  /\ order' = Append(order, t)
  /\ UNCHANGED tail

\* The synchronous body of runExclusive.
RunExclusive(t) ==
  /\ phase[t] = "idle"
  /\ phase' = [phase EXCEPT ![t] = "queued"]
  /\ prev' = [prev EXCEPT ![t] = tail]
  /\ tail' = t
  /\ order' = Append(order, t)

\* The reaction of then(fn, fn): fn is entered once the promise it is chained
\* on has settled, whichever way.
StartFn(t) ==
  /\ phase[t] = "queued"
  /\ Settled(prev[t])
  /\ phase' = [phase EXCEPT ![t] = "running"]
  /\ UNCHANGED <<tail, prev, order>>

\* The promise fn returned settles, and with it run and the promise in the chain.
SettleFn(t, outcome) ==
  /\ phase[t] = "running"
  /\ phase' = [phase EXCEPT ![t] = outcome]
  /\ UNCHANGED <<tail, prev, order>>

\* The process is killed and started again: the store object is a new one, its
\* queue is Promise.resolve(), and pending calls are gone.
Restart ==
  /\ tail' = Resolved
  /\ phase' = [t \in Calls |->
                 IF phase[t] \in {"queued", "running"} THEN "lost" ELSE phase[t]]
  /\ order' = << >>
  /\ UNCHANGED prev

QueueInit ==
  /\ tail = Resolved
  /\ prev = [t \in Calls |-> Resolved]
  /\ phase = [t \in Calls |-> "idle"]
  /\ order = << >>

QueueNext ==
  \/ \E t \in Calls : \/ RunExclusive(t)
                      \/ StartFn(t)
                      \/ \E o \in Outcomes : SettleFn(t, o)
  \/ Restart

QueueSpec == QueueInit /\ [][QueueNext]_queueVars

-----------------------------------------------------------------------------
\* Two functions given to runExclusive are never in progress at the same time,
\* although each waits only for the promise its own call found in this.queue.
MutualExclusion ==
  \A t, u \in Calls : phase[t] = "running" /\ phase[u] = "running" => t = u

(***************************************************************************)
(* The inductive invariant.  The calls of this process are exactly the     *)
(* members of order, each once; this.queue is the last of them; each is    *)
(* chained on its predecessor; and whatever has begun has only settled     *)
(* calls before it.                                                        *)
(***************************************************************************)
Live(t) == phase[t] \in {"queued", "running"}

OrderOnce ==
  \A i, j \in 1 .. Len(order) : order[i] = order[j] => i = j

LiveInOrder ==
  \A t \in Calls : Live(t) => \E i \in 1 .. Len(order) : order[i] = t

OrderMade ==
  \A i \in 1 .. Len(order) : phase[order[i]] \in {"queued", "running"} \cup Outcomes

TailIsLast ==
  tail = IF order = << >> THEN Resolved ELSE order[Len(order)]

PrevIsPredecessor ==
  \A i \in 1 .. Len(order) :
    prev[order[i]] = IF i = 1 THEN Resolved ELSE order[i - 1]

BegunAfterSettled ==
  \A i \in 1 .. Len(order) :
    phase[order[i]] # "queued" => \A j \in 1 .. (i - 1) : phase[order[j]] \in Outcomes

ChainInv ==
  /\ QueueTypeOK
  /\ OrderOnce
  /\ LiveInOrder
  /\ OrderMade
  /\ TailIsLast
  /\ PrevIsPredecessor
  /\ BegunAfterSettled

\* The promise chain is a first-come-first-served queue: it implements SerialQueue.
Serial == INSTANCE SerialQueue WITH Calls <- Calls, phase <- phase, order <- order

ImplementsSerialQueue == Serial!SerialSpec
=============================================================================
