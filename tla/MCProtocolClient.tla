-------------------------- MODULE MCProtocolClient --------------------------
(***************************************************************************)
(* One peer.  It has two handshakes with this device on the same published *)
(* bundle, under two identity keys (it lost its store in between), and one *)
(* on the bundle that this device publishes later under the same ids; this *)
(* device may start one with each identity.                                *)
(***************************************************************************)
EXTENDS ProtocolClient, TLC

CONSTANTS c1, c2, c3, c4,        \* calls
          p1,                    \* the peer
          own1, own2, in1, in2, in3,  \* sessions: two outbound, three inbound
          me, i1, i2,            \* identities
          k1, k2, k3, g1, g2, g3, y1, y2, y3 \* prekeys

Calls3 == {c1, c2, c3}
Calls4 == {c1, c2, c3, c4}
Symmetry3 == Permutations(Calls3)
Symmetry4 == Permutations(Calls4)

MCSids == {own1, own2, in1, in2, in3}
MCIdentities == {me, i1, i2}

Bundle1 == [preKey |-> k1, signed |-> g1, kyber |-> y1]
Bundle2 == [preKey |-> k2, signed |-> g2, kyber |-> y2]
Bundle3 == [preKey |-> k3, signed |-> g3, kyber |-> y3]

\* Bundle3 has the ids of Bundle1.
MCId ==
  [k \in PreKeys \cup SignedKeys \cup Kybers |->
     CASE k = k3 -> k1 [] k = g3 -> g1 [] k = y3 -> y1 [] OTHER -> k]

MCBundles == {[peer |-> p1, sid |-> own1, ident |-> i1, ids |-> Bundle2],
              [peer |-> p1, sid |-> own2, ident |-> i2, ids |-> Bundle2]}

OneBundle == {[peer |-> p1, sid |-> own1, ident |-> i1, ids |-> Bundle2]}

PreKeyMessage(s, c, i, ids) ==
  [from |-> p1, msg |-> [type |-> "preKeySignal", sid |-> s, ctr |-> c,
                         ids |-> ids, ident |-> i]]
PlainMessage(s, c) ==
  [from |-> p1, msg |-> [type |-> "signal", sid |-> s, ctr |-> c,
                         ids |-> None, ident |-> None]]

MCIncoming == {PreKeyMessage(in1, 0, i1, Bundle1), PreKeyMessage(in1, 1, i1, Bundle1),
               PreKeyMessage(in2, 0, i2, Bundle1), PreKeyMessage(in3, 0, i1, Bundle3),
               PlainMessage(in1, 2), PlainMessage(own1, 0)}

\* The replies on a session this device started, and a handshake that crosses it.
Replies == {PreKeyMessage(in1, 0, i1, Bundle1), PlainMessage(own1, 0), PlainMessage(own1, 1)}

FirstBundle == {Bundle1}
BothBundles == {Bundle1, Bundle3}
NoneYet == {}
=============================================================================
