-------------------------- MODULE MCStoreLifecycle --------------------------
(***************************************************************************)
(* Two databases opened with one keychain alias, as the default is; the    *)
(* second is given a keyProvider, which may return the wrong passphrase.   *)
(***************************************************************************)
EXTENDS StoreLifecycle, TLC

CONSTANTS d1, d2, a1, k1, k2, p1, p2, h1, h2, h3, i1, i2

MCAlias == [d \in Dbs |-> a1]
MCProviderKeys == [d \in Dbs |-> IF d = d2 THEN {p1, p2} ELSE {}]
MCStatements == [v \in 0 .. 1 |-> IF v = 0 THEN 2 ELSE 1]
Symmetry == Permutations(Handles) \cup Permutations(Inits) \cup Permutations({k1, k2})
              \cup Permutations({p1, p2})
=============================================================================
