---------------------------- MODULE MessageKeys ----------------------------
(***************************************************************************)
(* What a device promises about the keys of its messages, with no store    *)
(* and no steps: a call of encrypt that returns has used a key no call     *)
(* used before, and a call of decrypt that returns has opened a key no     *)
(* call opened before.  Calls that fail or are killed leave no trace.      *)
(* ProtocolClient implements this specification, and so do the devices of  *)
(* GroupMessaging, whose keys are the iterations of sender keys.           *)
(***************************************************************************)
CONSTANTS Calls, Keys

VARIABLES sent,    \* <<call, key>>: the ciphertexts handed out
          opened   \* <<call, key>>: the plaintexts handed out

\* Call t takes a key: neither of the two is in uses, and new has the pair besides.
\* The key is looked for in new, because Keys may be infinite.
Takes(t, uses, new) ==
  \E use \in new :
    /\ use[1] = t /\ use[2] \in Keys
    /\ \A u \in uses : u[1] # t /\ u[2] # use[2]
    /\ new = uses \cup {use}

Encrypt(t) == Takes(t, sent, sent') /\ UNCHANGED opened
Decrypt(t) == Takes(t, opened, opened') /\ UNCHANGED sent

Init == sent = {} /\ opened = {}

Next == \E t \in Calls : Encrypt(t) \/ Decrypt(t)

Spec == Init /\ [][Next]_<<sent, opened>>
=============================================================================
