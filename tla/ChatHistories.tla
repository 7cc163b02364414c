---------------------------- MODULE ChatHistories ----------------------------
(***************************************************************************)
(* What the chat promises to those who read it, with no sessions, awaits   *)
(* or transport: a message is first shown to the persona who sends it, and *)
(* then, as it is there, at most once to each persona it is for; what is   *)
(* shown stays.  That a message is shown to its receivers at all is not    *)
(* promised.  ChatDelivery implements this specification.                  *)
(***************************************************************************)
CONSTANTS Personas, Group

VARIABLE history  \* history[p]: the entries of all conversations of p

SameMessage(e, f) ==
  e.text = f.text /\ e.from = f.from /\ e.to = f.to /\ e.sealed = f.sealed

Adds(p, e) == history' = [history EXCEPT ![p] = @ \cup {e}]

\* A text that nobody has been shown; a message to the group is not sealed.
Send(p, e) ==
  /\ e.from = p /\ e.to # p /\ (e.to = Group => ~e.sealed)
  /\ \A q \in Personas : \A f \in history[q] : f.text # e.text
  /\ Adds(p, e)

\* The time of the entry is the receiver's own.
Receive(p, e) ==
  /\ e.from # p /\ e.to \in {Group, p}
  /\ \E f \in history[e.from] : SameMessage(e, f)
  /\ \A f \in history[p] : f.text # e.text
  /\ Adds(p, e)

Init == history = [p \in Personas |-> {}]

\* The new entry is looked for in the new history, because its time is any number.
Next == \E p \in Personas : \E e \in history'[p] : Send(p, e) \/ Receive(p, e)

Spec == Init /\ [][Next]_history
=============================================================================
