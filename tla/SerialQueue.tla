---------------------------- MODULE SerialQueue ----------------------------
(***************************************************************************)
(* What SQLCipherProtocolStore.runExclusive promises its callers: the      *)
(* submitted functions run one after the other, in the order of the calls, *)
(* and a function that fails holds nothing up.  There is no promise chain  *)
(* here: a function may begin when every function submitted before it has  *)
(* settled.  ExclusiveQueue, the promise chain of the code, implements     *)
(* this specification.                                                     *)
(***************************************************************************)
EXTENDS Naturals, Sequences

CONSTANT Calls      \* the calls of runExclusive a behaviour may make

VARIABLES phase,    \* where each call is
          order     \* the calls of this process, in the order they were made

serialVars == <<phase, order>>

Outcomes == {"fulfilled", "rejected"}

EarlierSettled(t) ==
  \E i \in 1 .. Len(order) :
    /\ order[i] = t
    /\ \A j \in 1 .. (i - 1) : phase[order[j]] \in Outcomes

Submit(t) ==
  /\ phase[t] = "idle"
  /\ phase' = [phase EXCEPT ![t] = "queued"]
  /\ order' = Append(order, t)

Begin(t) ==
  /\ phase[t] = "queued"
  /\ EarlierSettled(t)
  /\ phase' = [phase EXCEPT ![t] = "running"]
  /\ UNCHANGED order

End(t, outcome) ==
  /\ phase[t] = "running"
  /\ phase' = [phase EXCEPT ![t] = outcome]
  /\ UNCHANGED order

\* The process dies: what had not settled never will.
Die ==
  /\ phase' = [t \in Calls |->
                 IF phase[t] \in {"queued", "running"} THEN "lost" ELSE phase[t]]
  /\ order' = << >>

SerialInit ==
  /\ phase = [t \in Calls |-> "idle"]
  /\ order = << >>

SerialNext ==
  \/ \E t \in Calls : Submit(t) \/ Begin(t) \/ \E o \in Outcomes : End(t, o)
  \/ Die

SerialSpec == SerialInit /\ [][SerialNext]_serialVars
=============================================================================
