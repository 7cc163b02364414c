-------------------------- MODULE MCGroupMessaging --------------------------
(***************************************************************************)
(* Two devices, the first of which sends to the group.                     *)
(***************************************************************************)
EXTENDS GroupMessaging, TLC

CONSTANTS a, b, t1, t2, t3, t4, t5

Symmetry == Permutations(Tasks)

=============================================================================
