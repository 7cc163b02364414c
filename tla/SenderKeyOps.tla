---------------------------- MODULE SenderKeyOps ----------------------------
(***************************************************************************)
(* The native operations on sender keys, as functions of the record they   *)
(* are given; what they answer, the caller writes back.  What libsignal    *)
(* does inside them is external.                                           *)
(*                                                                         *)
(* A chain is made by one device for one group.  The state a record has of *)
(* a chain is the next iteration and the iterations that were skipped and  *)
(* can still be opened.  libsignal keeps 5 chains and 2000 skipped keys;   *)
(* here there is no limit.                                                 *)
(***************************************************************************)
EXTENDS Naturals

CONSTANTS Chains, None

SenderKeyState  == [next : Nat, skipped : SUBSET Nat]
SenderKeyRecord == [current : Chains, states : [Chains -> SenderKeyState \cup {None}]]

\* A SenderKeyDistributionMessage and a SenderKeyMessage both name a chain and an
\* iteration of it: the one a member starts at, and the one a message is encrypted with.
ChainPoint == [chain : Chains, iter : Nat]

SenderKeyErrors == {"DuplicateMessageError", "rejected"}

ASSUME SenderKeyAssumption ==
  None \notin SenderKeyState \cup SenderKeyRecord \cup ChainPoint \cup SenderKeyErrors

HasChain(record, c) == record # None /\ record.states[c] # None

\* The record can open the message.
Opens(record, m) ==
  /\ HasChain(record, m.chain)
  /\ \/ m.iter >= record.states[m.chain].next
     \/ m.iter \in record.states[m.chain].skipped

\* A chain that is known already keeps its state.
AddChain(record, point) ==
  LET states == IF record = None THEN [c \in Chains |-> None] ELSE record.states
  IN  [current |-> point.chain,
       states  |-> IF states[point.chain] # None THEN states
                   ELSE [states EXCEPT ![point.chain] = [next |-> point.iter, skipped |-> {}]]]

Advance(record, c, state) ==
  [current |-> record.current, states |-> [record.states EXCEPT ![c] = state]]

-----------------------------------------------------------------------------

Result == [err : SenderKeyErrors \cup {None}, record : SenderKeyRecord \cup {None},
           value : ChainPoint \cup {None}]

Failed(err) == [err |-> err, record |-> None, value |-> None]
Returned(record, value) == [err |-> None, record |-> record, value |-> value]

\* The current chain as it is, or a fresh one.
CreateDistributionOp(record, fresh) ==
  LET r == IF record = None THEN AddChain(None, [chain |-> fresh, iter |-> 0]) ELSE record
  IN  Returned(r, [chain |-> r.current, iter |-> r.states[r.current].next])

ProcessDistributionOp(record, point) == Returned(AddChain(record, point), None)

GroupEncryptOp(record) ==
  LET c == record.current
      s == record.states[c]
  IN  Returned(Advance(record, c, [next |-> s.next + 1, skipped |-> s.skipped]),
               [chain |-> c, iter |-> s.next])

GroupDecryptOp(record, m) ==
  LET s == record.states[m.chain]
  IN  IF ~HasChain(record, m.chain) THEN Failed("rejected")
      ELSE IF ~Opens(record, m) THEN Failed("DuplicateMessageError")
      ELSE Returned(
             Advance(record, m.chain,
                     IF m.iter >= s.next
                     THEN [next |-> m.iter + 1, skipped |-> s.skipped \cup s.next .. (m.iter - 1)]
                     ELSE [next |-> s.next, skipped |-> s.skipped \ {m.iter}]),
             None)
=============================================================================
