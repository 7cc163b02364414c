--------------------------- MODULE MCSealedSender ---------------------------
(***************************************************************************)
(* One peer, under one identity and then another, seals handshakes on the  *)
(* published bundle, with its one-time prekey and without, and messages of *)
(* a session this device started.  The framing of records is checked       *)
(* beside it, for lengths of two digits to the base four.                  *)
(***************************************************************************)
EXTENDS SealedSender, TLC

CONSTANTS c1, c2, c3, p1, own1, in1, in2, me, i1, i2, k1, k2, g1, g2, y1, y2

MCCalls == {c1, c2, c3}
Symmetry == Permutations(MCCalls)

Bundle1 == [preKey |-> k1, signed |-> g1, kyber |-> y1]
Bundle2 == [preKey |-> k2, signed |-> g2, kyber |-> y2]
MCBundles == {[peer |-> p1, sid |-> own1, ident |-> i1, ids |-> Bundle2]}
MCPublished == {Bundle1}
MCId == [k \in PreKeys \cup SignedKeys \cup Kybers |-> k]

Handshake(s, c, i, ids) ==
  [type |-> "preKeySignal", sid |-> s, ctr |-> c, ids |-> ids, ident |-> i]
Plain(s, c) == [type |-> "signal", sid |-> s, ctr |-> c, ids |-> None, ident |-> None]
Seal(msg, ok) == [from |-> p1, msg |-> msg, certified |-> ok]

NoPreKey == [Bundle1 EXCEPT !.preKey = None]

MCIncoming == {[from |-> p1, msg |-> Handshake(in1, 0, i1, Bundle1)],
               [from |-> p1, msg |-> Plain(own1, 0)]}
MCSealed == {Seal(Handshake(in1, 0, i1, Bundle1), TRUE),
             Seal(Handshake(in1, 1, i1, Bundle1), FALSE),
             Seal(Handshake(in2, 0, i2, NoPreKey), TRUE),
             Seal(Plain(own1, 1), TRUE)}
=============================================================================
