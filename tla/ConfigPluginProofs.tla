------------------------ MODULE ConfigPluginProofs ------------------------
(***************************************************************************)
(* Proofs about ConfigPlugin, for templates of any length: what the plugin *)
(* injects is there once, of one version, and in the block it belongs to.  *)
(*                                                                         *)
(* Every edit is made of insertions of one line (Inserted).  The lemmas    *)
(* say what an insertion does to the number of lines of a kind and to the  *)
(* depth of every line; the rest goes through the edits one by one.        *)
(***************************************************************************)
EXTENDS ConfigPlugin, FiniteSetTheorems, TLAPS

\* The kinds of the lines that the plugin looks for and writes.
Marks == {"checksum", "pod", "ldflags", "maven", "desugaring", "dependency"}
Kinds == Plain \cup Marks
AnyLine == [kind : Kinds, version : Nat]

\* g is f with line e put in at k.
Inserted(g, f, k, e) ==
  /\ g \in Seq(AnyLine) /\ Len(g) = Len(f) + 1 /\ k \in 1 .. Len(g)
  /\ \A i \in 1 .. Len(g) :
       g[i] = IF i < k THEN f[i] ELSE IF i = k THEN e ELSE f[i - 1]

\* How many of the first i lines have a kind in K.
Count(f, i, K) == Cardinality({j \in 1 .. i : f[j].kind \in K})

\* What a line does to the depth.
Change(e) == IF e.kind \in Opening THEN 1 ELSE IF e.kind = "end" THEN -1 ELSE 0

-----------------------------------------------------------------------------
(* First *)

\* A non-empty set of positions has a first one, and First is it.
LEMMA FirstIsLeast ==
  ASSUME NEW n \in Nat, NEW S \in SUBSET (1 .. n), S # {}
  PROVE  First(S) \in S /\ \A y \in S : First(S) <= y
PROOF
  <1> DEFINE R == StrictSubsetOrdering(1 .. n)
             Below == {S \cap (1 .. k) : k \in S}
  <1>1. IsWellFoundedOn(R, SUBSET (1 .. n))
    <2>1. IsFiniteSet(1 .. n)
      BY FS_Interval
    <2>2. FiniteSubsetsOf(1 .. n) = SUBSET (1 .. n)
      BY <2>1, FS_FiniteSubsetsOfFinite
    <2> QED BY <2>2, FS_StrictSubsetOrderingWellFounded
  <1>2. Below \subseteq SUBSET (1 .. n) /\ Below # {}
    OBVIOUS
  <1>3. PICK B \in Below : \A C \in Below : <<C, B>> \notin R
    <2> HIDE DEF R, Below
    <2> QED BY <1>1, <1>2, WFMin
  <1>4. PICK k \in S : B = S \cap (1 .. k)
    BY <1>3
  <1>5. ASSUME NEW y \in S, y < k PROVE FALSE
    <2>1. S \cap (1 .. y) \in Below
      OBVIOUS
    <2>2. k \in B /\ k \notin S \cap (1 .. y) /\ S \cap (1 .. y) \subseteq B
      BY <1>4, <1>5
    <2>3. <<S \cap (1 .. y), B>> \in R
      BY <2>2, <1>4 DEF StrictSubsetOrdering
    <2> QED BY <2>1, <2>3, <1>3
  <1>6. \A y \in S : k <= y
    BY <1>5
  <1> QED BY <1>6 DEF First

-----------------------------------------------------------------------------
(* Insertions *)

\* InsertAt inserts.
LEMMA InsertAtInserts ==
  ASSUME NEW f \in Seq(AnyLine), NEW k \in 1 .. (Len(f) + 1), NEW e \in AnyLine
  PROVE  Inserted(InsertAt(f, k, e), f, k, e)
PROOF
  <1> DEFINE a == SubSeq(f, 1, k - 1)
             b == SubSeq(f, k, Len(f))
             c == a \o <<e>>
             g == c \o b
  <1>1. a \in Seq(AnyLine) /\ Len(a) = k - 1 /\ \A i \in 1 .. (k - 1) : a[i] = f[i]
    OBVIOUS
  <1>2. b \in Seq(AnyLine) /\ Len(b) = Len(f) - k + 1
        /\ \A i \in 1 .. (Len(f) - k + 1) : b[i] = f[k + i - 1]
    OBVIOUS
  <1> HIDE DEF a, b
  <1>c. /\ c \in Seq(AnyLine) /\ Len(c) = k
        /\ \A i \in 1 .. k : c[i] = IF i = k THEN e ELSE f[i]
    BY <1>1
  <1> HIDE DEF c
  <1>3. g \in Seq(AnyLine) /\ Len(g) = Len(f) + 1
    <2>1. b \in Seq(AnyLine) /\ Len(b) = Len(f) - k + 1 /\ c \in Seq(AnyLine) /\ Len(c) = k
      BY <1>2, <1>c
    <2>2. Len(f) \in Nat
      OBVIOUS
    <2>3. g \in Seq(AnyLine) /\ Len(g) = Len(c) + Len(b)
      BY <2>1
    <2> QED BY <2>1, <2>2, <2>3
  <1>4. ASSUME NEW i \in 1 .. Len(g)
        PROVE  g[i] = IF i < k THEN f[i] ELSE IF i = k THEN e ELSE f[i - 1]
    <2>1. CASE i <= k
      BY <2>1, <1>2, <1>c, <1>3
    <2>2. CASE i > k
      <3>1. g[i] = b[i - k]
        BY <2>2, <1>2, <1>c, <1>3
      <3>2. i - k \in 1 .. (Len(f) - k + 1) /\ k + (i - k) - 1 = i - 1
        BY <2>2, <1>3
      <3>3. b[i - k] = f[k + (i - k) - 1]
        BY <3>2, <1>2
      <3> QED BY <3>1, <3>2, <3>3, <2>2
    <2> QED BY <2>1, <2>2
  <1>5. InsertAt(f, k, e) = g
    BY DEF InsertAt, a, b, c
  <1> QED BY <1>3, <1>4, <1>5 DEF Inserted

\* So does putting a line before a file,
LEMMA PrependInserts ==
  ASSUME NEW f \in Seq(AnyLine), NEW e \in AnyLine
  PROVE  Inserted(<<e>> \o f, f, 1, e)
PROOF
  BY DEF Inserted

\* and after it.
LEMMA AppendInserts ==
  ASSUME NEW f \in Seq(AnyLine), NEW e \in AnyLine
  PROVE  Inserted(Append(f, e), f, Len(f) + 1, e)
PROOF
  BY DEF Inserted

\* Three lines put in together are put in one before the other, from the last.
LEMMA ThreeInserted ==
  ASSUME NEW f \in Seq(AnyLine), NEW n \in 0 .. Len(f),
         NEW x \in AnyLine, NEW y \in AnyLine, NEW z \in AnyLine
  PROVE  LET g1 == InsertAt(f, n + 1, z)
             g2 == InsertAt(g1, n + 1, y)
         IN  /\ Inserted(g1, f, n + 1, z)
             /\ Inserted(g2, g1, n + 1, y)
             /\ Inserted(SubSeq(f, 1, n) \o <<x, y, z>> \o SubSeq(f, n + 1, Len(f)),
                         g2, n + 1, x)
PROOF
  <1> DEFINE g1 == InsertAt(f, n + 1, z)
             g2 == InsertAt(g1, n + 1, y)
             a == SubSeq(f, 1, n)
             b == SubSeq(f, n + 1, Len(f))
             c == a \o <<x, y, z>>
             g == c \o b
  <1>1. Inserted(g1, f, n + 1, z)
    BY InsertAtInserts
  <1>2. g1 \in Seq(AnyLine) /\ Len(g1) = Len(f) + 1
    BY <1>1 DEF Inserted
  <1>3. Inserted(g2, g1, n + 1, y)
    <2> HIDE DEF g1
    <2> QED BY <1>2, InsertAtInserts
  <1>4. g2 \in Seq(AnyLine) /\ Len(g2) = Len(f) + 2
    BY <1>2, <1>3 DEF Inserted
  <1>5. a \in Seq(AnyLine) /\ Len(a) = n /\ \A i \in 1 .. n : a[i] = f[i]
    OBVIOUS
  <1>6. b \in Seq(AnyLine) /\ Len(b) = Len(f) - n
        /\ \A i \in 1 .. (Len(f) - n) : b[i] = f[n + i]
    OBVIOUS
  <1> HIDE DEF a, b
  <1>c. /\ c \in Seq(AnyLine) /\ Len(c) = n + 3
        /\ \A i \in 1 .. (n + 3) :
             c[i] = IF i <= n THEN f[i] ELSE IF i = n + 1 THEN x ELSE IF i = n + 2 THEN y ELSE z
    BY <1>5
  <1> HIDE DEF c
  <1>7. g \in Seq(AnyLine) /\ Len(g) = Len(f) + 3
    <2>1. b \in Seq(AnyLine) /\ Len(b) = Len(f) - n /\ c \in Seq(AnyLine) /\ Len(c) = n + 3
      BY <1>6, <1>c
    <2>2. Len(f) \in Nat
      OBVIOUS
    <2>3. g \in Seq(AnyLine) /\ Len(g) = Len(c) + Len(b)
      BY <2>1
    <2> QED BY <2>1, <2>2, <2>3
  <1>8. ASSUME NEW i \in 1 .. Len(g)
        PROVE  g[i] = IF i <= n THEN f[i] ELSE IF i = n + 1 THEN x ELSE IF i = n + 2 THEN y
                      ELSE IF i = n + 3 THEN z ELSE f[i - 3]
    <2>1. CASE i <= n + 3
      BY <2>1, <1>6, <1>c, <1>7
    <2>2. CASE i > n + 3
      <3>1. g[i] = b[i - (n + 3)]
        BY <2>2, <1>6, <1>c, <1>7
      <3>2. i - (n + 3) \in 1 .. (Len(f) - n) /\ n + (i - (n + 3)) = i - 3
        BY <2>2, <1>7
      <3>3. b[i - (n + 3)] = f[n + (i - (n + 3))]
        BY <3>2, <1>6
      <3> QED BY <3>1, <3>2, <3>3, <2>2
    <2> QED BY <2>1, <2>2
  <1>9. ASSUME NEW i \in 1 .. Len(g)
        PROVE  g[i] = IF i < n + 1 THEN g2[i] ELSE IF i = n + 1 THEN x ELSE g2[i - 1]
    <2> HIDE DEF g, g1, g2
    <2>1. ASSUME NEW j \in 1 .. Len(g2)
          PROVE  g2[j] = IF j <= n THEN f[j] ELSE IF j = n + 1 THEN y
                         ELSE IF j = n + 2 THEN z ELSE f[j - 2]
      <3>1. g2[j] = IF j < n + 1 THEN g1[j] ELSE IF j = n + 1 THEN y ELSE g1[j - 1]
        BY <1>3 DEF Inserted
      <3>2. \A l \in 1 .. Len(g1) :
              g1[l] = IF l < n + 1 THEN f[l] ELSE IF l = n + 1 THEN z ELSE f[l - 1]
        BY <1>1 DEF Inserted
      <3>3. j <= n + 1 \/ (j - 1 \in 1 .. Len(g1) /\ (j - 1) - 1 = j - 2)
        BY <1>2, <1>4
      <3> QED BY <3>1, <3>2, <3>3, <1>2, <1>4
    <2>2. CASE i <= n + 1
      BY <2>2, <2>1, <1>4, <1>7, <1>8
    <2>3. CASE i > n + 1
      <3>1. i - 1 \in 1 .. Len(g2) /\ (i - 1) - 2 = i - 3
        BY <2>3, <1>4, <1>7
      <3> QED BY <3>1, <2>1, <1>8, <2>3
    <2> QED BY <2>2, <2>3, <1>7
  <1> HIDE DEF g, g1, g2
  <1>10. Inserted(g, g2, n + 1, x)
    BY <1>4, <1>7, <1>9 DEF Inserted
  <1> QED BY <1>1, <1>3, <1>10 DEF a, b, c, g, g1, g2

-----------------------------------------------------------------------------
(* What an insertion does to counts and depths *)

\* Counts are numbers, and nothing is counted in no lines.
LEMMA CountType ==
  ASSUME NEW f, NEW i \in Nat, NEW K
  PROVE  /\ IsFiniteSet({j \in 1 .. i : f[j].kind \in K})
         /\ Count(f, i, K) \in Nat
         /\ Count(f, 0, K) = 0
PROOF
  <1>1. IsFiniteSet(1 .. i)
    BY FS_Interval
  <1>2. IsFiniteSet({j \in 1 .. i : f[j].kind \in K})
    BY <1>1, FS_Subset
  <1>3. {j \in 1 .. 0 : f[j].kind \in K} = {}
    OBVIOUS
  <1> QED BY <1>2, <1>3, FS_CardinalityType, FS_EmptySet DEF Count

\* One more line counts if it is of the kinds.
LEMMA CountNext ==
  ASSUME NEW f, NEW i \in Nat, NEW K
  PROVE  Count(f, i + 1, K) = Count(f, i, K) + IF f[i + 1].kind \in K THEN 1 ELSE 0
PROOF
  <1> DEFINE S == {j \in 1 .. i : f[j].kind \in K}
             T == {j \in 1 .. (i + 1) : f[j].kind \in K}
  <1>1. IsFiniteSet(S) /\ Count(f, i, K) \in Nat
    BY CountType
  <1>2. Count(f, i, K) = Cardinality(S) /\ Count(f, i + 1, K) = Cardinality(T)
    BY DEF Count
  <1>3. CASE f[i + 1].kind \in K
    <2>1. T = S \cup {i + 1} /\ i + 1 \notin S
      BY <1>3
    <2> HIDE DEF S, T
    <2>2. Cardinality(S \cup {i + 1}) = Cardinality(S) + 1
      BY <1>1, <2>1, FS_AddElement
    <2> QED BY <1>2, <1>3, <2>1, <2>2
  <1>4. CASE f[i + 1].kind \notin K
    <2>1. T = S
      BY <1>4
    <2> HIDE DEF S, T
    <2> QED BY <1>1, <1>2, <1>4, <2>1
  <1> QED BY <1>3, <1>4

\* The line that is put in is counted where it is, and what is behind it moves by one.
LEMMA CountInserted ==
  ASSUME NEW f, Len(f) \in Nat, NEW g, NEW k, NEW e, Inserted(g, f, k, e), NEW K,
         NEW i \in 0 .. Len(g)
  PROVE  Count(g, i, K) = IF i < k THEN Count(f, i, K)
                          ELSE Count(f, i - 1, K) + IF e.kind \in K THEN 1 ELSE 0
PROOF
  <1> DEFINE T == {j \in 1 .. i : g[j].kind \in K}
             A == {j \in 1 .. (i - 1) : f[j].kind \in K}
             s == [j \in A |-> IF j < k THEN j ELSE j + 1]
  <1>1. k \in 1 .. Len(g) /\ Len(g) = Len(f) + 1 /\ k \in Nat
    BY DEF Inserted
  <1>2. CASE i < k
    <2>1. \A j \in 1 .. i : g[j] = f[j]
      BY <1>1, <1>2 DEF Inserted
    <2>2. T = {j \in 1 .. i : f[j].kind \in K}
      BY <2>1
    <2> QED BY <1>2, <2>2 DEF Count
  <1>3. CASE i >= k
    <2>1. i - 1 \in Nat /\ i \in Nat
      BY <1>1, <1>3
    <2>2. IsFiniteSet(A) /\ IsFiniteSet(T) /\ Cardinality(A) \in Nat /\ Cardinality(T) \in Nat
      <3>1. IsFiniteSet(A) /\ IsFiniteSet(T)
        BY <2>1, CountType
      <3> HIDE DEF A, T
      <3> QED BY <3>1, FS_CardinalityType
    <2>3. \A j \in 1 .. i : g[j] = IF j < k THEN f[j] ELSE IF j = k THEN e ELSE f[j - 1]
      BY <1>1 DEF Inserted
    <2>4. s \in [A -> T \ {k}]
      <3> SUFFICES ASSUME NEW j \in A PROVE s[j] \in T \ {k}
        OBVIOUS
      <3>1. CASE j < k
        BY <3>1, <2>3, <1>1, <2>1
      <3>2. CASE j >= k
        <4>1. j + 1 \in 1 .. i /\ g[j + 1] = f[j]
          BY <3>2, <2>3, <1>1, <2>1
        <4> QED BY <4>1, <3>2, <1>1
      <3> QED BY <3>1, <3>2, <1>1
    <2>5. s \in Injection(A, T \ {k})
      <3>1. \A j, l \in A : s[j] = s[l] => j = l
        BY <1>1
      <3> QED BY <3>1, <2>4 DEF Injection, IsInjective
    <2>6. s \in Surjection(A, T \ {k})
      <3>1. ASSUME NEW j \in T \ {k} PROVE \E l \in A : s[l] = j
        <4>1. CASE j < k
          <5>1. j \in A /\ s[j] = j
            BY <4>1, <2>3, <1>1, <1>3, <2>1
          <5> QED BY <5>1
        <4>2. CASE j > k
          <5>1. j - 1 \in A /\ s[j - 1] = j
            BY <4>2, <2>3, <1>1, <2>1
          <5> QED BY <5>1
        <4> QED BY <4>1, <4>2, <1>1
      <3> QED BY <3>1, <2>4 DEF Surjection
    <2>7. Cardinality(T \ {k}) = Cardinality(A)
      <3> HIDE DEF s, A, T
      <3>1. ExistsBijection(A, T \ {k})
        BY <2>5, <2>6 DEF ExistsBijection, Bijection
      <3> QED BY <3>1, <2>2, FS_Bijection
    <2>8. k \in T <=> e.kind \in K
      BY <2>3, <1>1, <1>3
    <2>9. Cardinality(T \ {k}) = IF k \in T THEN Cardinality(T) - 1 ELSE Cardinality(T)
      BY <2>2, FS_RemoveElement
    <2>10. Cardinality(T) = Cardinality(A) + IF e.kind \in K THEN 1 ELSE 0
      <3> HIDE DEF A, T
      <3> QED BY <2>2, <2>7, <2>8, <2>9
    <2> QED BY <2>10, <1>3, <1>1 DEF Count
  <1> QED BY <1>1, <1>2, <1>3

\* An insertion adds one line of the kind that is put in, and none of another kind.
LEMMA LinesInserted ==
  ASSUME NEW f \in Seq(AnyLine), NEW g, NEW k, NEW e, Inserted(g, f, k, e), NEW kind
  PROVE  /\ Cardinality(LinesOf(f, kind)) \in Nat
         /\ LinesOf(f, kind) = {} <=> Cardinality(LinesOf(f, kind)) = 0
         /\ Cardinality(LinesOf(g, kind)) =
              Cardinality(LinesOf(f, kind)) + IF e.kind = kind THEN 1 ELSE 0
PROOF
  <1>1. g \in Seq(AnyLine) /\ Len(g) = Len(f) + 1 /\ k \in 1 .. Len(g)
    BY DEF Inserted
  <1>2. LinesOf(f, kind) = {j \in 1 .. Len(f) : f[j].kind \in {kind}}
        /\ LinesOf(g, kind) = {j \in 1 .. Len(g) : g[j].kind \in {kind}}
    BY <1>1 DEF LinesOf
  <1>3. Count(g, Len(g), {kind}) = Count(f, Len(f), {kind}) + IF e.kind \in {kind} THEN 1 ELSE 0
    BY <1>1, CountInserted
  <1>4. IsFiniteSet(LinesOf(f, kind)) /\ Count(f, Len(f), {kind}) \in Nat
    <2>1. Len(f) \in Nat
      OBVIOUS
    <2>2. Count(f, Len(f), {kind}) \in Nat
      BY <2>1, CountType
    <2>3. IsFiniteSet({j \in 1 .. Len(f) : f[j].kind \in {kind}})
      BY <2>1, CountType
    <2> QED BY <1>2, <2>2, <2>3
  <1>5. Count(f, Len(f), {kind}) = Cardinality(LinesOf(f, kind))
        /\ Count(g, Len(g), {kind}) = Cardinality(LinesOf(g, kind))
    BY <1>2 DEF Count
  <1> QED BY <1>3, <1>4, <1>5, FS_EmptySet

\* The depth before the first line is zero, and each line changes it.
LEMMA DepthNext ==
  ASSUME NEW f, NEW i \in Nat
  PROVE  /\ Depth(f, 0) = 0 /\ Depth(f, i) \in Int
         /\ Depth(f, i + 1) = Depth(f, i) + Change(f[i + 1])
PROOF
  <1>1. \A j \in Nat : Depth(f, j) = Count(f, j, Opening) - Count(f, j, {"end"})
    BY DEF Depth, Count
  <1>2. Count(f, 0, Opening) = 0 /\ Count(f, 0, {"end"}) = 0
    BY CountType
  <1>3. /\ Count(f, i, Opening) \in Nat
        /\ Count(f, i, {"end"}) \in Nat
    BY CountType
  <1>4. Count(f, i + 1, Opening) = Count(f, i, Opening) + IF f[i + 1].kind \in Opening THEN 1 ELSE 0
    BY CountNext
  <1>5. Count(f, i + 1, {"end"}) = Count(f, i, {"end"}) + IF f[i + 1].kind \in {"end"} THEN 1 ELSE 0
    BY CountNext
  <1> QED BY <1>1, <1>2, <1>3, <1>4, <1>5 DEF Change, Opening

\* What is put in changes the depth of itself and of what is behind it.
LEMMA DepthInserted ==
  ASSUME NEW f, Len(f) \in Nat, NEW g, NEW k, NEW e, Inserted(g, f, k, e), NEW i \in 0 .. Len(g)
  PROVE  Depth(g, i) = IF i < k THEN Depth(f, i) ELSE Depth(f, i - 1) + Change(e)
PROOF
  <1>1. \A h : \A j \in Nat : Depth(h, j) = Count(h, j, Opening) - Count(h, j, {"end"})
    BY DEF Depth, Count
  <1>2. Count(g, i, Opening) = IF i < k THEN Count(f, i, Opening)
          ELSE Count(f, i - 1, Opening) + IF e.kind \in Opening THEN 1 ELSE 0
    BY CountInserted
  <1>3. Count(g, i, {"end"}) = IF i < k THEN Count(f, i, {"end"})
          ELSE Count(f, i - 1, {"end"}) + IF e.kind \in {"end"} THEN 1 ELSE 0
    BY CountInserted
  <1>4. k \in 1 .. Len(g) /\ Len(g) = Len(f) + 1
    BY DEF Inserted
  <1>5. CASE i < k
    BY <1>1, <1>2, <1>3, <1>4, <1>5
  <1>6. CASE i >= k
    <2>1. i - 1 \in Nat
      BY <1>4, <1>6
    <2>2. Count(f, i - 1, Opening) \in Nat /\ Count(f, i - 1, {"end"}) \in Nat
      BY <2>1, CountType
    <2>3. Depth(g, i) = Count(g, i, Opening) - Count(g, i, {"end"})
          /\ Depth(f, i - 1) = Count(f, i - 1, Opening) - Count(f, i - 1, {"end"})
      BY <2>1, <1>1
    <2> QED BY <1>2, <1>3, <1>4, <1>6, <2>2, <2>3 DEF Change, Opening
  <1> QED BY <1>4, <1>5, <1>6

\* An insertion that opens and ends nothing leaves a file well formed.
LEMMA WellFormedInserted ==
  ASSUME NEW f \in Seq(AnyLine), WellFormed(f),
         NEW g, NEW k, NEW e, Inserted(g, f, k, e), Change(e) = 0
  PROVE  WellFormed(g)
PROOF
  <1>1. g \in Seq(AnyLine) /\ Len(g) = Len(f) + 1 /\ k \in 1 .. Len(g) /\ Len(f) \in Nat
    BY DEF Inserted
  <1>2. \A i \in 0 .. Len(f) : Depth(f, i) >= 0
    BY DepthNext DEF WellFormed
  <1>3. Depth(f, Len(f)) = 0
    <2>1. CASE f = <<>>
      BY <2>1, DepthNext
    <2>2. CASE f # <<>>
      BY <2>2 DEF WellFormed
    <2> QED BY <2>1, <2>2
  <1>4. \A i \in 0 .. Len(g) : Depth(g, i) = IF i < k THEN Depth(f, i) ELSE Depth(f, i - 1)
    <2> SUFFICES ASSUME NEW i \in 0 .. Len(g)
                 PROVE  Depth(g, i) = IF i < k THEN Depth(f, i) ELSE Depth(f, i - 1)
      OBVIOUS
    <2>1. Depth(g, i) = IF i < k THEN Depth(f, i) ELSE Depth(f, i - 1) + Change(e)
      BY <1>1, DepthInserted
    <2>2. i >= k => Depth(f, i - 1) \in Int
      BY <1>1, DepthNext
    <2> QED BY <1>1, <2>1, <2>2
  <1>5. \A i \in DOMAIN g : Depth(g, i) >= 0
    BY <1>1, <1>2, <1>4
  <1>6. Depth(g, Len(g)) = 0
    <2>1. Depth(g, Len(g)) = IF Len(g) < k THEN Depth(f, Len(g)) ELSE Depth(f, Len(g) - 1)
      BY <1>1, <1>4
    <2> QED BY <2>1, <1>1, <1>3
  <1> QED BY <1>5, <1>6 DEF WellFormed

-----------------------------------------------------------------------------
(* The templates *)

\* A template has lines of plain kinds, so none of the plugin's, and is well formed.
LEMMA TemplateLines ==
  ASSUME NEW f \in Templates
  PROVE  /\ f \in Seq(AnyLine) /\ WellFormed(f)
         /\ \A kind \in Marks : LinesOf(f, kind) = {}
PROOF
  <1>1. f \in Seq({Line(kind) : kind \in Plain}) /\ WellFormed(f)
    BY PluginAssumption
  <1>2. {Line(kind) : kind \in Plain} \subseteq AnyLine
    BY DEF Line, Kinds, AnyLine
  <1>3. f \in Seq(AnyLine)
    BY <1>1, <1>2
  <1>4. \A i \in DOMAIN f : f[i].kind \in Plain
    <2> SUFFICES ASSUME NEW i \in DOMAIN f PROVE f[i].kind \in Plain
      OBVIOUS
    <2>1. f[i] \in {Line(kind) : kind \in Plain}
      BY <1>1
    <2> QED BY <2>1 DEF Line
  <1>5. \A kind \in Marks : kind \notin Plain
    BY DEF Marks, Plain, Opening
  <1> QED BY <1>1, <1>3, <1>4, <1>5 DEF LinesOf

\* Every line that the plugin writes is a line.
LEMMA LineType ==
  ASSUME version \in Nat, NEW kind \in Kinds
  PROVE  /\ Line(kind) \in AnyLine /\ Line(kind).kind = kind
         /\ Injected(kind) \in AnyLine /\ Injected(kind).kind = kind
         /\ Injected(kind).version = version
PROOF
  BY DEF Line, Injected, AnyLine

\* The kinds that the plugin writes are kinds.
LEMMA WrittenKinds ==
  {"checksum", "pod", "ldflags", "maven", "desugaring", "dependency", "end", "post_install",
   "compileOptions"} \subseteq Kinds
PROOF
  BY DEF Kinds, Marks, Plain, Opening

\* Includes is what it is called.
LEMMA IncludesLines ==
  ASSUME NEW f, NEW kind
  PROVE  Includes(f, kind) <=> LinesOf(f, kind) # {}
PROOF
  BY DEF Includes, LinesOf

-----------------------------------------------------------------------------
(* The Podfile: once, and of one version *)

\* The first line of g is the checksum, and its pods are of the same version.
Paired(g) ==
  /\ g \in Seq(AnyLine) /\ 1 \in DOMAIN g /\ g[1] = Injected("checksum")
  /\ \A i \in DOMAIN g : g[i].kind = "pod" => g[i].version = version

\* A line that is put in behind the first, and is not a pod of another version, leaves
\* that so.
LEMMA PairedInserted ==
  ASSUME NEW f, Paired(f), NEW g, NEW k, NEW e, Inserted(g, f, k, e),
         k > 1, e.kind = "pod" => e.version = version
  PROVE  Paired(g)
PROOF
  <1>1. /\ g \in Seq(AnyLine) /\ Len(g) = Len(f) + 1 /\ k \in 1 .. Len(g)
        /\ \A i \in 1 .. Len(g) :
             g[i] = IF i < k THEN f[i] ELSE IF i = k THEN e ELSE f[i - 1]
    BY DEF Inserted
  <1>2. /\ f \in Seq(AnyLine) /\ Len(f) >= 1 /\ f[1] = Injected("checksum")
        /\ \A i \in 1 .. Len(f) : f[i].kind = "pod" => f[i].version = version
    BY DEF Paired
  <1>3. 1 \in DOMAIN g /\ g[1] = Injected("checksum")
    BY <1>1, <1>2
  <1>4. ASSUME NEW i \in 1 .. Len(g), g[i].kind = "pod" PROVE g[i].version = version
    <2>1. CASE i < k
      BY <2>1, <1>1, <1>2, <1>4
    <2>2. CASE i = k
      BY <2>2, <1>1, <1>4
    <2>3. CASE i > k
      <3>1. i - 1 \in 1 .. Len(f) /\ g[i] = f[i - 1]
        BY <2>3, <1>1, <1>2
      <3> QED BY <3>1, <1>2, <1>4
    <2> QED BY <2>1, <2>2, <2>3, <1>1
  <1> QED BY <1>1, <1>3, <1>4 DEF Paired

\* What the first two injections do to a template.
LEMMA ChecksumAndPod ==
  ASSUME version \in Nat, NEW f \in Podfiles
  PROVE  LET c == InjectChecksum(f)
             p == InjectPodLine(c)
         IN  /\ Inserted(c, f, 1, Injected("checksum"))
             /\ \E k \in Nat : k > 1 /\ Inserted(p, c, k, Injected("pod"))
PROOF
  <1> DEFINE c == InjectChecksum(f)
             p == InjectPodLine(c)
             targets == {i \in LinesOf(c, "target") : Depth(c, i) = 1}
  <1>1. f \in Seq(AnyLine) /\ LinesOf(f, "checksum") = {} /\ LinesOf(f, "pod") = {}
    BY TemplateLines DEF Templates, Marks
  <1>2. Injected("checksum") \in AnyLine /\ Injected("checksum").kind = "checksum"
        /\ Injected("pod") \in AnyLine
    BY LineType, WrittenKinds
  <1>3. c = <<Injected("checksum")>> \o f
    BY <1>1, IncludesLines DEF InjectChecksum
  <1>4. Inserted(c, f, 1, Injected("checksum"))
    BY <1>1, <1>2, <1>3, PrependInserts
  <1> HIDE DEF c
  <1>5. c \in Seq(AnyLine) /\ Len(c) = Len(f) + 1 /\ c[1] = Injected("checksum") /\ Len(f) \in Nat
    BY <1>1, <1>4 DEF Inserted
  <1>6. LinesOf(c, "pod") = {}
    <2>1. \A i \in DOMAIN c : c[i].kind # "pod"
      <3> SUFFICES ASSUME NEW i \in 1 .. Len(c) PROVE c[i].kind # "pod"
        BY <1>5
      <3>1. CASE i = 1
        BY <3>1, <1>2, <1>5
      <3>2. CASE i > 1
        <4>1. c[i] = f[i - 1] /\ i - 1 \in DOMAIN f
          BY <3>2, <1>1, <1>4, <1>5 DEF Inserted
        <4> QED BY <4>1, <1>1 DEF LinesOf
      <3> QED BY <3>1, <3>2
    <2> QED BY <2>1 DEF LinesOf
  <1>7. p = IF targets = {} THEN Append(c, Injected("pod"))
            ELSE InsertAt(c, First(targets), Injected("pod"))
    BY <1>6, IncludesLines DEF InjectPodLine
  <1> HIDE DEF p
  <1>8. CASE targets = {}
    <2>1. Inserted(p, c, Len(c) + 1, Injected("pod"))
      BY <1>2, <1>5, <1>7, <1>8, AppendInserts
    <2>2. Len(c) + 1 \in Nat /\ Len(c) + 1 > 1
      BY <1>5
    <2> QED BY <1>4, <2>1, <2>2 DEF c, p
  <1>9. CASE targets # {}
    <2>1. targets \in SUBSET (1 .. Len(c))
      BY <1>5 DEF LinesOf
    <2>2. First(targets) \in targets
      <3> HIDE DEF targets
      <3>1. Len(c) \in Nat
        BY <1>5
      <3> QED BY <3>1, <1>9, <2>1, FirstIsLeast
    <2>3. First(targets) \in 1 .. Len(c) /\ First(targets) # 1
      <3>1. 1 \notin targets
        BY <1>2, <1>5 DEF LinesOf
      <3> HIDE DEF targets
      <3> QED BY <2>1, <2>2, <3>1
    <2>4. Inserted(p, c, First(targets), Injected("pod"))
      <3> HIDE DEF targets
      <3>1. First(targets) \in 1 .. (Len(c) + 1)
        BY <1>5, <2>3
      <3> QED BY <1>2, <1>5, <1>7, <1>9, <3>1, InsertAtInserts
    <2>5. First(targets) \in Nat /\ First(targets) > 1
      <3> HIDE DEF targets
      <3> QED BY <2>3
    <2> QED BY <1>4, <2>4, <2>5 DEF c, p
  <1> QED BY <1>8, <1>9

\* The last one puts in one line, or the three of a block.
LEMMA HookSteps ==
  ASSUME version \in Nat, NEW p \in Seq(AnyLine), ~Includes(p, "ldflags")
  PROVE  LET l == InjectLdflagsHook(p)
             n == Len(p) + 1
         IN  \/ /\ BlockEnds(p) # {}
                /\ Inserted(l, p, First(BlockEnds(p)), Injected("ldflags"))
             \/ /\ BlockEnds(p) = {}
                /\ \E g1, g2 : /\ Inserted(g1, p, n, Line("end"))
                               /\ Inserted(g2, g1, n, Injected("ldflags"))
                               /\ Inserted(l, g2, n, Line("post_install"))
PROOF
  <1>1. /\ Line("end") \in AnyLine /\ Line("post_install") \in AnyLine
        /\ Injected("ldflags") \in AnyLine
    BY LineType, WrittenKinds
  <1>2. CASE BlockEnds(p) # {}
    <2>1. BlockEnds(p) \in SUBSET (1 .. Len(p)) /\ Len(p) \in Nat
      <3>1. Len(p) \in Nat /\ DOMAIN p = 1 .. Len(p)
        OBVIOUS
      <3> QED BY <3>1 DEF BlockEnds, LinesOf
    <2>2. First(BlockEnds(p)) \in 1 .. (Len(p) + 1)
      <3>1. First(BlockEnds(p)) \in BlockEnds(p)
        BY <1>2, <2>1, FirstIsLeast
      <3> QED BY <2>1, <3>1
    <2>3. InjectLdflagsHook(p) = InsertAt(p, First(BlockEnds(p)), Injected("ldflags"))
      BY <1>2 DEF InjectLdflagsHook
    <2> QED BY <1>1, <1>2, <2>2, <2>3, InsertAtInserts
  <1>3. CASE BlockEnds(p) = {}
    <2> DEFINE n == Len(p)
               x == Line("post_install")
               y == Injected("ldflags")
               z == Line("end")
               g1 == InsertAt(p, n + 1, z)
               g2 == InsertAt(g1, n + 1, y)
               l == InjectLdflagsHook(p)
    <2>1. l = p \o <<x, y, z>>
      BY <1>3 DEF InjectLdflagsHook
    <2>2. l = SubSeq(p, 1, n) \o <<x, y, z>> \o SubSeq(p, n + 1, Len(p))
      <3> HIDE DEF x, y, z, l
      <3>1. SubSeq(p, 1, n) = p /\ SubSeq(p, n + 1, Len(p)) = <<>>
        OBVIOUS
      <3>2. p \o <<x, y, z>> \in Seq(AnyLine)
        BY <1>1 DEF x, y, z
      <3>3. (p \o <<x, y, z>>) \o <<>> = p \o <<x, y, z>>
        BY <3>2
      <3> QED BY <2>1, <3>1, <3>3
    <2>3. n \in 0 .. Len(p)
      OBVIOUS
    <2>4. /\ Inserted(g1, p, n + 1, z)
          /\ Inserted(g2, g1, n + 1, y)
          /\ Inserted(SubSeq(p, 1, n) \o <<x, y, z>> \o SubSeq(p, n + 1, Len(p)), g2, n + 1, x)
      BY <1>1, <2>3, ThreeInserted
    <2>5. Inserted(l, g2, n + 1, x)
      <3> HIDE DEF x, y, z, l, g1, g2
      <3> QED BY <2>2, <2>4
    <2> HIDE DEF g1, g2
    <2> QED BY <1>3, <2>4, <2>5
  <1> QED BY <1>2, <1>3

\* The Podfile that one prebuild makes of a template has each line once, and the checksum
\* and the pod of one version.
LEMMA PodfileResult ==
  ASSUME version \in Nat, NEW f \in Podfiles
  PROVE  LET l == InjectLdflagsHook(InjectPodLine(InjectChecksum(f)))
         IN  /\ Paired(l)
             /\ \A kind \in {"checksum", "pod", "ldflags"} : Cardinality(LinesOf(l, kind)) = 1
PROOF
  <1> DEFINE c == InjectChecksum(f)
             p == InjectPodLine(c)
             l == InjectLdflagsHook(p)
             number(g, kind) == Cardinality(LinesOf(g, kind))
  <1>1. Inserted(c, f, 1, Injected("checksum"))
    BY ChecksumAndPod
  <1>2. PICK k \in Nat : k > 1 /\ Inserted(p, c, k, Injected("pod"))
    BY ChecksumAndPod
  <1>3. f \in Seq(AnyLine) /\ \A kind \in Marks : LinesOf(f, kind) = {}
    BY TemplateLines DEF Templates
  <1>4. \A kind \in {"checksum", "pod", "ldflags", "end", "post_install"} :
          /\ Line(kind).kind = kind
          /\ Injected(kind).kind = kind /\ Injected(kind).version = version
    BY LineType, WrittenKinds
  <1> HIDE DEF c, p, l
  <1>5. Paired(c)
    <2>1. c \in Seq(AnyLine) /\ Len(c) = Len(f) + 1 /\ c[1] = Injected("checksum")
          /\ \A i \in 2 .. Len(c) : c[i] = f[i - 1]
      BY <1>1, <1>3 DEF Inserted
    <2>2. ASSUME NEW i \in 1 .. Len(c) PROVE c[i].kind # "pod"
      <3>1. CASE i = 1
        BY <3>1, <2>1, <1>4
      <3>2. CASE i > 1
        <4>1. c[i] = f[i - 1] /\ i - 1 \in DOMAIN f
          BY <3>2, <1>3, <2>1
        <4> QED BY <4>1, <1>3 DEF LinesOf, Marks
      <3> QED BY <3>1, <3>2
    <2>3. 1 \in DOMAIN c /\ DOMAIN c = 1 .. Len(c)
      BY <2>1, <1>3
    <2> QED BY <2>1, <2>2, <2>3 DEF Paired
  <1>6. Paired(p)
    BY <1>2, <1>4, <1>5, PairedInserted
  <1>7. c \in Seq(AnyLine) /\ p \in Seq(AnyLine)
    BY <1>5, <1>6 DEF Paired
  <1>8. \A kind \in Marks :
          /\ number(p, kind) = IF kind \in {"checksum", "pod"} THEN 1 ELSE 0
          /\ LinesOf(p, kind) = {} <=> number(p, kind) = 0
    <2> SUFFICES ASSUME NEW kind \in Marks
                 PROVE  /\ number(p, kind) = IF kind \in {"checksum", "pod"} THEN 1 ELSE 0
                        /\ LinesOf(p, kind) = {} <=> number(p, kind) = 0
      OBVIOUS
    <2>1. number(f, kind) = 0
          /\ number(c, kind) = number(f, kind) + IF Injected("checksum").kind = kind THEN 1 ELSE 0
      BY <1>1, <1>3, LinesInserted
    <2>2. number(c, kind) \in Nat
          /\ number(p, kind) = number(c, kind) + IF Injected("pod").kind = kind THEN 1 ELSE 0
      BY <1>2, <1>7, LinesInserted
    <2>3. LinesOf(p, kind) = {} <=> number(p, kind) = 0
      <3>1. Inserted(<<Line("end")>> \o p, p, 1, Line("end"))
        BY <1>7, LineType, WrittenKinds, PrependInserts
      <3> QED BY <3>1, <1>7, LinesInserted
    <2> QED BY <2>1, <2>2, <2>3, <1>4
  <1>9. ~Includes(p, "ldflags")
    BY <1>8, IncludesLines DEF Marks
  <1>10. DOMAIN p = 1 .. Len(p) /\ Len(p) >= 1 /\ Len(p) \in Nat
    BY <1>6 DEF Paired
  <1>11. CASE BlockEnds(p) # {}
    <2>1. Inserted(l, p, First(BlockEnds(p)), Injected("ldflags"))
      BY <1>7, <1>9, <1>11, HookSteps DEF l
    <2>2. First(BlockEnds(p)) > 1
      <3>1. BlockEnds(p) \in SUBSET (1 .. Len(p))
        BY <1>10 DEF BlockEnds, LinesOf
      <3>2. First(BlockEnds(p)) \in BlockEnds(p)
        BY <1>10, <1>11, <3>1, FirstIsLeast
      <3>3. \A b \in BlockEnds(p) : b > 1
        BY <1>10 DEF BlockEnds, LinesOf
      <3> QED BY <3>2, <3>3
    <2>3. Paired(l)
      BY <2>1, <2>2, <1>4, <1>6, PairedInserted
    <2>4. ASSUME NEW kind \in {"checksum", "pod", "ldflags"} PROVE number(l, kind) = 1
      <3>1. number(l, kind) = number(p, kind) + IF Injected("ldflags").kind = kind THEN 1 ELSE 0
        BY <2>1, <1>7, LinesInserted
      <3> QED BY <3>1, <1>4, <1>8 DEF Marks
    <2> QED BY <2>3, <2>4 DEF c, p, l
  <1>12. CASE BlockEnds(p) = {}
    <2> DEFINE n == Len(p) + 1
    <2>1. PICK g1, g2 : /\ Inserted(g1, p, n, Line("end"))
                        /\ Inserted(g2, g1, n, Injected("ldflags"))
                        /\ Inserted(l, g2, n, Line("post_install"))
      BY <1>7, <1>9, <1>12, HookSteps DEF l
    <2>2. n > 1
      BY <1>10
    <2>3. Paired(g1)
      BY <2>1, <2>2, <1>4, <1>6, PairedInserted
    <2>4. Paired(g2)
      BY <2>1, <2>2, <2>3, <1>4, PairedInserted
    <2>5. Paired(l)
      BY <2>1, <2>2, <2>4, <1>4, PairedInserted
    <2>6. g1 \in Seq(AnyLine) /\ g2 \in Seq(AnyLine)
      BY <2>3, <2>4 DEF Paired
    <2>7. ASSUME NEW kind \in {"checksum", "pod", "ldflags"} PROVE number(l, kind) = 1
      <3>1. number(g1, kind) = number(p, kind) + IF Line("end").kind = kind THEN 1 ELSE 0
        BY <2>1, <1>7, LinesInserted
      <3>2. number(g2, kind) = number(g1, kind) + IF Injected("ldflags").kind = kind THEN 1 ELSE 0
        BY <2>1, <2>6, LinesInserted
      <3>3. number(l, kind) = number(g2, kind) + IF Line("post_install").kind = kind THEN 1 ELSE 0
        BY <2>1, <2>6, LinesInserted
      <3> QED BY <3>1, <3>2, <3>3, <1>4, <1>8 DEF Marks
    <2> QED BY <2>5, <2>7 DEF c, p, l
  <1> QED BY <1>11, <1>12

-----------------------------------------------------------------------------
(* The Gradle files: once *)

\* What withLibsignalGradle does to a template.
LEMMA MavenSteps ==
  ASSUME version \in Nat, NEW f \in ProjectGradles
  PROVE  \/ InjectSignalMaven(f) = f
         \/ /\ Openers(f) # {}
            /\ Inserted(InjectSignalMaven(f), f, First(Openers(f)) + 1, Injected("maven"))
PROOF
  <1>1. f \in Seq(AnyLine)
    BY TemplateLines DEF Templates
  <1>2. CASE Includes(f, "maven") \/ Openers(f) = {}
    BY <1>2 DEF InjectSignalMaven
  <1>3. CASE ~Includes(f, "maven") /\ Openers(f) # {}
    <2>1. Openers(f) \in SUBSET (1 .. Len(f)) /\ Len(f) \in Nat
      <3>1. Len(f) \in Nat /\ DOMAIN f = 1 .. Len(f)
        BY <1>1
      <3> QED BY <3>1 DEF Openers, LinesOf
    <2>2. First(Openers(f)) \in Openers(f)
      BY <1>3, <2>1, FirstIsLeast
    <2>3. First(Openers(f)) + 1 \in 1 .. (Len(f) + 1)
      BY <2>1, <2>2
    <2>4. Injected("maven") \in AnyLine
      BY LineType, WrittenKinds
    <2>5. InjectSignalMaven(f) = InsertAt(f, First(Openers(f)) + 1, Injected("maven"))
      BY <1>3 DEF InjectSignalMaven
    <2> QED BY <1>1, <1>3, <2>3, <2>4, <2>5, InsertAtInserts
  <1> QED BY <1>2, <1>3

\* What withLibsignalAppGradle does to a template before the dependency.
LEMMA CompileOptionsSteps ==
  ASSUME version \in Nat, NEW f \in AppGradles
  PROVE  LET g == CompileOptions(f)
             o == First(LinesOf(f, "compileOptions"))
             n == First(LinesOf(f, "android")) + 1
         IN  \/ /\ HasOptions(f) /\ o \in LinesOf(f, "compileOptions")
                /\ Inserted(g, f, o + 1, Injected("desugaring"))
             \/ /\ ~HasOptions(f) /\ n - 1 \in LinesOf(f, "android")
                /\ \E g1, g2 : /\ Inserted(g1, f, n, Line("end"))
                               /\ Inserted(g2, g1, n, Injected("desugaring"))
                               /\ Inserted(g, g2, n, Line("compileOptions"))
             \/ ~HasOptions(f) /\ g = f
PROOF
  <1> DEFINE g == CompileOptions(f)
             o == First(LinesOf(f, "compileOptions"))
             a == First(LinesOf(f, "android"))
  <1>1. f \in Seq(AnyLine) /\ Len(f) \in Nat /\ DOMAIN f = 1 .. Len(f)
    BY TemplateLines DEF Templates
  <1>2. /\ Injected("desugaring") \in AnyLine
        /\ Line("end") \in AnyLine /\ Line("compileOptions") \in AnyLine
    BY LineType, WrittenKinds
  <1>3. \A kind : LinesOf(f, kind) \in SUBSET (1 .. Len(f))
    BY <1>1 DEF LinesOf
  <1>4. CASE HasOptions(f)
    <2>1. LinesOf(f, "compileOptions") # {}
      BY <1>4 DEF HasOptions
    <2>2. o \in LinesOf(f, "compileOptions")
      BY <1>1, <1>3, <2>1, FirstIsLeast
    <2>3. o \in 1 .. Len(f)
      BY <1>3, <2>2
    <2>4. o + 1 \in 1 .. (Len(f) + 1)
      <3> HIDE DEF o
      <3> QED BY <1>1, <2>3
    <2>5. g = InsertAt(f, o + 1, Injected("desugaring"))
      BY <1>4 DEF CompileOptions
    <2>6. Inserted(g, f, o + 1, Injected("desugaring"))
      <3> HIDE DEF g, o
      <3> QED BY <1>1, <1>2, <2>4, <2>5, InsertAtInserts
    <2> QED BY <1>4, <2>2, <2>6
  <1>5. CASE ~HasOptions(f) /\ LinesOf(f, "android") = {}
    BY <1>5 DEF CompileOptions
  <1>6. CASE ~HasOptions(f) /\ LinesOf(f, "android") # {}
    <2> DEFINE x == Line("compileOptions")
               y == Injected("desugaring")
               z == Line("end")
               g1 == InsertAt(f, a + 1, z)
               g2 == InsertAt(g1, a + 1, y)
    <2>1. a \in LinesOf(f, "android")
      BY <1>1, <1>3, <1>6, FirstIsLeast
    <2>2. a \in 0 .. Len(f) /\ (a + 1) - 1 = a
      <3>1. a \in 1 .. Len(f)
        BY <1>3, <2>1
      <3> HIDE DEF a
      <3> QED BY <1>1, <3>1
    <2>3. g = SubSeq(f, 1, a) \o <<x, y, z>> \o SubSeq(f, a + 1, Len(f))
      BY <1>6 DEF CompileOptions
    <2>4. Inserted(g1, f, a + 1, z) /\ Inserted(g2, g1, a + 1, y) /\ Inserted(g, g2, a + 1, x)
      <3> HIDE DEF a, g
      <3> QED BY <1>1, <1>2, <2>2, <2>3, ThreeInserted
    <2> HIDE DEF g1, g2, g, a
    <2> QED BY <1>6, <2>1, <2>2, <2>4 DEF g, a
  <1> QED BY <1>4, <1>5, <1>6

\* The lines of its own that a prebuild puts into a template, each once or not at all.
LEMMA GradleResult ==
  ASSUME version \in Nat
  PROVE  /\ \A f \in ProjectGradles :
              \/ InjectSignalMaven(f) = f
              \/ Cardinality(LinesOf(InjectSignalMaven(f), "maven")) = 1
         /\ \A f \in AppGradles :
              LET g == InjectAppDesugaring(f)
              IN  /\ Cardinality(LinesOf(g, "dependency")) = 1
                  /\ Cardinality(LinesOf(g, "desugaring")) \in {0, 1}
PROOF
  <1> DEFINE number(g, kind) == Cardinality(LinesOf(g, kind))
  <1>1. \A kind \in {"maven", "desugaring", "dependency", "end", "compileOptions"} :
          Line(kind).kind = kind /\ Injected(kind).kind = kind /\ Injected(kind) \in AnyLine
    BY LineType, WrittenKinds
  <1>2. ASSUME NEW f \in ProjectGradles, InjectSignalMaven(f) # f
        PROVE  number(InjectSignalMaven(f), "maven") = 1
    <2>1. f \in Seq(AnyLine) /\ LinesOf(f, "maven") = {}
      BY TemplateLines DEF Templates, Marks
    <2>2. Inserted(InjectSignalMaven(f), f, First(Openers(f)) + 1, Injected("maven"))
      BY <1>2, MavenSteps
    <2>3. /\ number(f, "maven") = 0
          /\ number(InjectSignalMaven(f), "maven") =
               number(f, "maven") + IF Injected("maven").kind = "maven" THEN 1 ELSE 0
      BY <2>1, <2>2, LinesInserted
    <2> QED BY <2>3, <1>1
  <1>3. ASSUME NEW f \in AppGradles
        PROVE  /\ number(InjectAppDesugaring(f), "dependency") = 1
               /\ number(InjectAppDesugaring(f), "desugaring") \in {0, 1}
    <2> DEFINE c == CompileOptions(f)
               g == InjectAppDesugaring(f)
               Adds(h, n) == /\ h \in Seq(AnyLine)
                             /\ number(h, "dependency") = 0
                             /\ number(h, "desugaring") = n
    <2>1. f \in Seq(AnyLine) /\ LinesOf(f, "desugaring") = {} /\ LinesOf(f, "dependency") = {}
      BY TemplateLines DEF Templates, Marks
    <2>2. Adds(f, 0)
      BY <2>1, FS_EmptySet
    <2>3. ASSUME NEW h, NEW n \in Nat, Adds(h, n), NEW h2, NEW k, NEW e, Inserted(h2, h, k, e),
                 e.kind # "dependency"
          PROVE  Adds(h2, n + IF e.kind = "desugaring" THEN 1 ELSE 0)
      <3>1. h2 \in Seq(AnyLine)
        BY <2>3 DEF Inserted
      <3>2. number(h2, "dependency") = 0
        <4>1. h \in Seq(AnyLine) /\ number(h, "dependency") = 0 /\ Inserted(h2, h, k, e)
          BY <2>3
        <4>2. number(h2, "dependency") =
                number(h, "dependency") + IF e.kind = "dependency" THEN 1 ELSE 0
          BY <4>1, LinesInserted
        <4> QED BY <4>1, <4>2, <2>3
      <3>3. number(h2, "desugaring") = number(h, "desugaring") + IF e.kind = "desugaring" THEN 1 ELSE 0
        BY <2>3, LinesInserted
      <3> QED BY <3>1, <3>2, <3>3, <2>3
    <2> HIDE DEF c, Adds
    <2>4. Adds(c, 0) \/ Adds(c, 1)
      <3>1. CASE \E k : Inserted(c, f, k, Injected("desugaring"))
        <4>1. PICK k : Inserted(c, f, k, Injected("desugaring"))
          BY <3>1
        <4> QED BY <4>1, <2>2, <2>3, <1>1
      <3>2. ASSUME NEW n, NEW g1, NEW g2, Inserted(g1, f, n, Line("end")),
                   Inserted(g2, g1, n, Injected("desugaring")),
                   Inserted(c, g2, n, Line("compileOptions"))
            PROVE  Adds(c, 1)
        <4>1. Adds(g1, 0)
          BY <3>2, <2>2, <2>3, <1>1
        <4>2. Adds(g2, 1)
          BY <3>2, <4>1, <2>3, <1>1
        <4> QED BY <3>2, <4>2, <2>3, <1>1
      <3>3. CASE c = f
        BY <3>3, <2>2
      <3> QED BY <3>1, <3>2, <3>3, CompileOptionsSteps DEF c
    <2>5. g = Append(c, Injected("dependency"))
      BY <2>1, IncludesLines DEF InjectAppDesugaring, c
    <2>6. c \in Seq(AnyLine)
      BY <2>4 DEF Adds
    <2>7. Inserted(g, c, Len(c) + 1, Injected("dependency"))
      <3> HIDE DEF g
      <3> QED BY <2>5, <2>6, <1>1, AppendInserts
    <2>8. /\ number(g, "dependency") = number(c, "dependency") + 1
          /\ number(g, "desugaring") = number(c, "desugaring") + 0
      <3> HIDE DEF g
      <3>1. Injected("dependency").kind = "dependency"
        BY <1>1
      <3> QED BY <2>6, <2>7, <3>1, LinesInserted
    <2> QED BY <2>4, <2>8 DEF Adds
  <1> QED BY <1>2, <1>3

-----------------------------------------------------------------------------
(* PluginInv is an invariant *)

\* The templates themselves have none of the lines, so nothing is there twice.
LEMMA PluginInit == Init => PluginInv
PROOF
  <1> SUFFICES ASSUME Init PROVE PluginInv
    OBVIOUS
  <1>1. podfile \in Podfiles /\ projectGradle \in ProjectGradles /\ appGradle \in AppGradles
        /\ version \in Nat
    BY DEF Init
  <1>2. ASSUME NEW f \in {podfile, projectGradle, appGradle}, NEW kind \in Marks
        PROVE  LinesOf(f, kind) = {} /\ Cardinality(LinesOf(f, kind)) <= 1
    <2>1. f \in Templates
      BY <1>1 DEF Templates
    <2>2. LinesOf(f, kind) = {}
      BY <2>1, TemplateLines
    <2> QED BY <2>2, FS_EmptySet
  <1>3. InjectedOnce
    BY <1>2 DEF InjectedOnce, Marks
  <1>4. ChecksumFitsPod
    BY <1>2 DEF ChecksumFitsPod, Marks
  <1> QED BY <1>1, <1>3, <1>4 DEF PluginInv

\* The mod of the Podfile.
LEMMA PodfilePluginInv ==
  ASSUME PluginInv, WithLibsignalPodfile
  PROVE  PluginInv'
PROOF
  <1> DEFINE l == InjectLdflagsHook(InjectPodLine(InjectChecksum(podfile)))
  <1>1. podfile' = l /\ version' = version /\ projectGradle' = projectGradle
        /\ appGradle' = appGradle /\ version \in Nat
    BY DEF WithLibsignalPodfile, PluginInv
  <1>2. CASE podfile \in Podfiles
    <2>1. Paired(l) /\ \A kind \in {"checksum", "pod", "ldflags"} : Cardinality(LinesOf(l, kind)) = 1
      BY <1>1, <1>2, PodfileResult
    <2> HIDE DEF l
    <2>2. \A kind \in {"checksum", "pod", "ldflags"} : Cardinality(LinesOf(podfile', kind)) = 1
      BY <1>1, <2>1
    <2>3. \A kind \in {"checksum", "pod", "ldflags"} : Includes(podfile', kind)
      BY <2>2, IncludesLines, FS_EmptySet
    <2>4. \A i \in LinesOf(l, "pod") : \E j \in LinesOf(l, "checksum") :
            j < i /\ l[j].version = l[i].version
      <3> SUFFICES ASSUME NEW i \in LinesOf(l, "pod")
                   PROVE  1 \in LinesOf(l, "checksum") /\ 1 < i /\ l[1].version = l[i].version
        OBVIOUS
      <3>1. /\ l \in Seq(AnyLine) /\ 1 \in DOMAIN l /\ l[1] = Injected("checksum")
            /\ i \in DOMAIN l /\ l[i].kind = "pod" /\ l[i].version = version
        BY <2>1 DEF Paired, LinesOf
      <3>2. l[1].kind = "checksum" /\ l[1].version = version
        BY <3>1, <1>1, LineType, WrittenKinds
      <3>3. i \in Nat /\ i >= 1 /\ i # 1
        BY <3>1, <3>2
      <3> QED BY <3>1, <3>2, <3>3 DEF LinesOf
    <2>5. ChecksumFitsPod'
      BY <1>1, <2>4 DEF ChecksumFitsPod
    <2>6. InjectedOnce'
      BY <1>1, <2>2 DEF InjectedOnce, PluginInv
    <2> QED BY <1>1, <2>3, <2>5, <2>6 DEF PluginInv, Includes
  <1>3. CASE podfile \notin Podfiles
    <2>1. \A kind \in {"checksum", "pod", "ldflags"} : Includes(podfile, kind)
      BY <1>3 DEF PluginInv
    <2>2. InjectChecksum(podfile) = podfile
      BY <2>1 DEF InjectChecksum
    <2>3. InjectPodLine(podfile) = podfile
      BY <2>1 DEF InjectPodLine
    <2>4. InjectLdflagsHook(podfile) = podfile
      BY <2>1 DEF InjectLdflagsHook
    <2>5. podfile' = podfile
      BY <1>1, <2>2, <2>3, <2>4
    <2> QED BY <1>1, <2>5 DEF PluginInv, InjectedOnce, ChecksumFitsPod, Includes, LinesOf
  <1> QED BY <1>2, <1>3

\* The mod of the project's Gradle file.
LEMMA GradlePluginInv ==
  ASSUME PluginInv, WithLibsignalGradle
  PROVE  PluginInv'
PROOF
  <1>1. projectGradle' = InjectSignalMaven(projectGradle) /\ version' = version
        /\ podfile' = podfile /\ appGradle' = appGradle /\ version \in Nat
    BY DEF WithLibsignalGradle, PluginInv
  <1>2. CASE projectGradle' = projectGradle
    BY <1>1, <1>2 DEF PluginInv, InjectedOnce, ChecksumFitsPod, Includes, LinesOf
  <1>3. CASE projectGradle' # projectGradle
    <2>1. projectGradle \in ProjectGradles
      BY <1>1, <1>3 DEF PluginInv, InjectSignalMaven
    <2>2. Cardinality(LinesOf(projectGradle', "maven")) = 1
      BY <1>1, <1>3, <2>1, GradleResult
    <2>3. Includes(projectGradle', "maven")
      BY <2>2, IncludesLines, FS_EmptySet
    <2> QED BY <1>1, <2>2, <2>3 DEF PluginInv, InjectedOnce, ChecksumFitsPod, Includes, LinesOf
  <1> QED BY <1>2, <1>3

\* The mod of the app's Gradle file.
LEMMA AppGradlePluginInv ==
  ASSUME PluginInv, WithLibsignalAppGradle
  PROVE  PluginInv'
PROOF
  <1>1. appGradle' = InjectAppDesugaring(appGradle) /\ version' = version
        /\ podfile' = podfile /\ projectGradle' = projectGradle /\ version \in Nat
    BY DEF WithLibsignalAppGradle, PluginInv
  <1>2. CASE appGradle' = appGradle
    BY <1>1, <1>2 DEF PluginInv, InjectedOnce, ChecksumFitsPod, Includes, LinesOf
  <1>3. CASE appGradle' # appGradle
    <2>1. appGradle \in AppGradles
      BY <1>1, <1>3 DEF PluginInv, InjectAppDesugaring
    <2>2. Cardinality(LinesOf(appGradle', "dependency")) = 1
          /\ Cardinality(LinesOf(appGradle', "desugaring")) \in {0, 1}
      BY <1>1, <2>1, GradleResult
    <2>3. Includes(appGradle', "dependency")
      BY <2>2, IncludesLines, FS_EmptySet
    <2> QED BY <1>1, <2>2, <2>3 DEF PluginInv, InjectedOnce, ChecksumFitsPod, Includes, LinesOf
  <1> QED BY <1>2, <1>3

\* Every step keeps the invariant: those beside the three mods write no file.
LEMMA PluginNext == PluginInv /\ [Next]_vars => PluginInv'
PROOF
  <1> SUFFICES ASSUME PluginInv, [Next]_vars PROVE PluginInv'
    OBVIOUS
  <1>1. CASE UNCHANGED files /\ version' \in Nat
    BY <1>1 DEF PluginInv, files, InjectedOnce, ChecksumFitsPod, Includes, LinesOf
  <1>2. CASE WithExpoLibsignal \/ Aborted \/ Upgrade \/ UNCHANGED vars
    <2>1. UNCHANGED files /\ version' \in {version, version + 1} /\ version \in Nat
      BY <1>2 DEF WithExpoLibsignal, Aborted, Upgrade, vars, PluginInv
    <2> QED BY <2>1, <1>1
  <1> QED BY <1>2, PodfilePluginInv, GradlePluginInv, AppGradlePluginInv DEF Next

\* Files that prebuilds of any versions have written, however often and wherever they were
\* aborted: a file is the template or has each of its lines once, and the checksum and the
\* pod are of one version.
THEOREM PluginInvariant == Spec => []PluginInv
PROOF
  BY PluginInit, PluginNext, PTL DEF Spec

\* Nothing is injected twice (includes(MARKER) in each injection).
THEOREM PluginInjectedOnce == Spec => []InjectedOnce
PROOF
  <1>1. PluginInv => InjectedOnce
    BY DEF PluginInv
  <1> QED BY <1>1, PluginInvariant, PTL

\* The checksum in a Podfile is that of the pod it names, and is set before it.
THEOREM PluginChecksumFitsPod == Spec => []ChecksumFitsPod
PROOF
  <1>1. PluginInv => ChecksumFitsPod
    BY DEF PluginInv
  <1> QED BY <1>1, PluginInvariant, PTL

-----------------------------------------------------------------------------
(* Where it lands *)

\* A line that opens and ends nothing, put in at k, is in the block of o if the lines
\* between them are.
LEMMA WithinInserted ==
  ASSUME NEW f \in Seq(AnyLine), NEW g, NEW k, NEW e, Inserted(g, f, k, e), Change(e) = 0,
         NEW o \in 1 .. (k - 1), \A j \in o .. (k - 1) : Depth(f, j) >= Depth(f, o)
  PROVE  Within(g, o, k)
PROOF
  <1>1. k \in 1 .. Len(g) /\ Len(g) = Len(f) + 1 /\ Len(f) \in Nat
    BY DEF Inserted
  <1>2. \A j \in 1 .. (k - 1) : Depth(g, j) = Depth(f, j)
    <2> SUFFICES ASSUME NEW j \in 1 .. (k - 1) PROVE Depth(g, j) = Depth(f, j)
      OBVIOUS
    <2>1. j \in 0 .. Len(g) /\ j < k
      BY <1>1
    <2> QED BY <1>1, <2>1, DepthInserted
  <1>3. Depth(g, k) = Depth(f, k - 1)
    <2>1. Depth(g, k) = Depth(f, k - 1) + Change(e)
      BY <1>1, DepthInserted
    <2>2. k - 1 \in Nat
      BY <1>1
    <2>3. Depth(f, k - 1) \in Int
      BY <2>2, DepthNext
    <2> QED BY <2>1, <2>3
  <1>4. ASSUME NEW j \in o .. k PROVE Depth(g, j) >= Depth(g, o)
    <2>1. o \in 1 .. (k - 1) /\ Depth(g, o) = Depth(f, o)
      BY <1>2
    <2>2. CASE j = k
      <3>1. k - 1 \in o .. (k - 1)
        BY <1>1
      <3> QED BY <2>1, <2>2, <3>1, <1>3
    <2>3. CASE j # k
      <3>1. j \in o .. (k - 1) /\ j \in 1 .. (k - 1)
        BY <1>1, <2>3
      <3> QED BY <2>1, <3>1, <1>2
    <2> QED BY <2>2, <2>3
  <1>5. o < k
    BY <1>1
  <1> QED BY <1>4, <1>5 DEF Within

\* A file that had no line of a kind has at most the one that is put in.
LEMMA OnlyInserted ==
  ASSUME NEW f \in Seq(AnyLine), NEW g, NEW k, NEW e, Inserted(g, f, k, e),
         NEW kind, LinesOf(f, kind) = {}
  PROVE  \A i \in LinesOf(g, kind) : i = k /\ e.kind = kind
PROOF
  <1> SUFFICES ASSUME NEW i \in LinesOf(g, kind) PROVE i = k /\ e.kind = kind
    OBVIOUS
  <1>1. /\ Len(g) = Len(f) + 1 /\ DOMAIN g = 1 .. Len(g) /\ Len(f) \in Nat /\ k \in 1 .. Len(g)
        /\ DOMAIN f = 1 .. Len(f)
    BY DEF Inserted
  <1>2. i \in 1 .. Len(g) /\ g[i].kind = kind
    BY <1>1 DEF LinesOf
  <1>3. g[i] = IF i < k THEN f[i] ELSE IF i = k THEN e ELSE f[i - 1]
    BY <1>2 DEF Inserted
  <1>4. \A j \in 1 .. Len(f) : f[j].kind # kind
    BY <1>1 DEF LinesOf
  <1>5. CASE i < k
    BY <1>1, <1>2, <1>3, <1>4, <1>5
  <1>6. CASE i > k
    <2>1. i - 1 \in 1 .. Len(f) /\ g[i] = f[i - 1]
      BY <1>1, <1>2, <1>3, <1>6
    <2> QED BY <2>1, <1>2, <1>4
  <1>7. CASE i = k
    BY <1>2, <1>3, <1>7
  <1> QED BY <1>1, <1>2, <1>5, <1>6, <1>7

\* A block of one line, put in at n: the file stays well formed, and the line is in it.
LEMMA BlockInserted ==
  ASSUME NEW f \in Seq(AnyLine), WellFormed(f), NEW n \in 1 .. (Len(f) + 1),
         NEW x, NEW y, NEW z, Change(x) = 1, Change(y) = 0, Change(z) = -1,
         NEW g1, NEW g2, NEW g,
         Inserted(g1, f, n, z), Inserted(g2, g1, n, y), Inserted(g, g2, n, x)
  PROVE  /\ WellFormed(g) /\ Within(g, n, n + 1)
         /\ n + 1 \in DOMAIN g /\ g[n] = x
         /\ \A i \in 1 .. (n - 1) : g[i] = f[i] /\ Depth(g, i) = Depth(f, i)
         /\ Depth(g, n) = Depth(f, n - 1) + 1 /\ Depth(g, n + 1) = Depth(f, n - 1) + 1
PROOF
  <1>1. /\ Len(g) = Len(f) + 3 /\ Len(g2) = Len(f) + 2 /\ Len(g1) = Len(f) + 1 /\ Len(f) \in Nat
        /\ g1 \in Seq(AnyLine) /\ g2 \in Seq(AnyLine) /\ g \in Seq(AnyLine)
    BY DEF Inserted
  <1>2. \A i \in Nat : Depth(f, i) \in Int /\ Depth(g1, i) \in Int /\ Depth(g2, i) \in Int
    BY DepthNext
  <1>3. \A i \in 0 .. Len(g1) :
          Depth(g1, i) = IF i < n THEN Depth(f, i) ELSE Depth(f, i - 1) + Change(z)
    BY <1>1, DepthInserted
  <1>4. \A i \in 0 .. Len(g2) :
          Depth(g2, i) = IF i < n THEN Depth(g1, i) ELSE Depth(g1, i - 1) + Change(y)
    BY <1>1, DepthInserted
  <1>5. \A i \in 0 .. Len(g) :
          Depth(g, i) = IF i < n THEN Depth(g2, i) ELSE Depth(g2, i - 1) + Change(x)
    BY <1>1, DepthInserted
  <1>6. \A i \in 0 .. (n - 1) : Depth(g1, i) = Depth(f, i) /\ Depth(g2, i) = Depth(f, i)
                                /\ Depth(g, i) = Depth(f, i)
    BY <1>1, <1>3, <1>4, <1>5
  <1>7. Depth(g2, n) = Depth(f, n - 1)
    <2>1. n - 1 \in 0 .. (n - 1) /\ n \in 0 .. Len(g2) /\ n - 1 \in Nat
      BY <1>1
    <2> QED BY <2>1, <1>2, <1>4, <1>6
  <1>8. Depth(g, n) = Depth(f, n - 1) + 1 /\ Depth(g, n + 1) = Depth(f, n - 1) + 1
    <2>1. /\ n - 1 \in 0 .. (n - 1) /\ n \in 0 .. Len(g) /\ n + 1 \in 0 .. Len(g) /\ (n + 1) - 1 = n
          /\ ~(n < n) /\ ~(n + 1 < n)
      BY <1>1
    <2>2. Depth(g, n) = Depth(g2, n - 1) + 1
      BY <2>1, <1>5
    <2>3. Depth(g, n + 1) = Depth(g2, n) + 1
      BY <2>1, <1>5
    <2> QED BY <2>1, <2>2, <2>3, <1>6, <1>7
  <1>9. \A i \in (n + 2) .. Len(g) : Depth(g, i) = Depth(f, i - 3)
    <2> SUFFICES ASSUME NEW i \in (n + 2) .. Len(g) PROVE Depth(g, i) = Depth(f, i - 3)
      OBVIOUS
    <2>1. /\ i \in 0 .. Len(g) /\ ~(i < n)
          /\ i - 1 \in 0 .. Len(g2) /\ ~(i - 1 < n) /\ (i - 1) - 1 = i - 2
          /\ i - 2 \in 0 .. Len(g1) /\ ~(i - 2 < n) /\ (i - 2) - 1 = i - 3 /\ i - 3 \in Nat
      BY <1>1
    <2>2. Depth(g, i) = Depth(g2, i - 1) + 1
      BY <2>1, <1>5
    <2>3. Depth(g2, i - 1) = Depth(g1, i - 2) + 0
      BY <2>1, <1>4
    <2>4. Depth(g1, i - 2) = Depth(f, i - 3) + (-1)
      BY <2>1, <1>3
    <2>5. Depth(f, i - 3) \in Int
      BY <2>1, <1>2
    <2> QED BY <2>2, <2>3, <2>4, <2>5
  <1>10. WellFormed(g)
    <2>1. \A i \in 0 .. Len(f) : Depth(f, i) >= 0 /\ Depth(f, i) \in Int
      <3>1. Depth(f, 0) = 0
        BY DepthNext
      <3>2. \A i \in 1 .. Len(f) : Depth(f, i) >= 0
        BY DEF WellFormed
      <3> QED BY <3>1, <3>2, <1>1, <1>2
    <2>2. Depth(f, Len(f)) = 0
      <3>1. CASE f = <<>>
        BY <3>1, DepthNext
      <3>2. CASE f # <<>>
        BY <3>2 DEF WellFormed
      <3> QED BY <3>1, <3>2
    <2>3. ASSUME NEW i \in 1 .. Len(g) PROVE Depth(g, i) >= 0
      <3>1. CASE i \in 0 .. (n - 1)
        BY <3>1, <2>1, <1>1, <1>6
      <3>2. CASE i \in {n, n + 1}
        <4>1. n - 1 \in 0 .. Len(f)
          BY <1>1
        <4> QED BY <3>2, <4>1, <2>1, <1>8
      <3>3. CASE i \in (n + 2) .. Len(g)
        <4>1. i - 3 \in 0 .. Len(f)
          BY <3>3, <1>1
        <4> QED BY <3>3, <4>1, <2>1, <1>9
      <3> QED BY <3>1, <3>2, <3>3, <1>1
    <2>4. Depth(g, Len(g)) = 0
      <3>1. Len(g) \in (n + 2) .. Len(g) /\ Len(g) - 3 = Len(f)
        BY <1>1
      <3> QED BY <3>1, <2>2, <1>9
    <2> QED BY <2>3, <2>4, <1>1 DEF WellFormed
  <1>11. Within(g, n, n + 1)
    <2>1. \A j \in n .. (n + 1) : Depth(g, j) = Depth(g, n)
      BY <1>8
    <2>2. n \in Nat
      BY <1>1
    <2>3. Depth(g, n) \in Int
      BY <2>2, DepthNext
    <2> QED BY <2>1, <2>2, <2>3 DEF Within
  <1>12. g[n] = x /\ \A i \in 1 .. (n - 1) : g[i] = f[i]
    BY <1>1 DEF Inserted
  <1>13. n + 1 \in DOMAIN g
    BY <1>1
  <1> QED BY <1>6, <1>8, <1>10, <1>11, <1>12, <1>13

\* A file that had no line of a kind has at most the one in the block.
LEMMA OnlyInBlock ==
  ASSUME NEW f \in Seq(AnyLine), NEW n \in 1 .. (Len(f) + 1), NEW x, NEW y, NEW z,
         NEW g1, NEW g2, NEW g,
         Inserted(g1, f, n, z), Inserted(g2, g1, n, y), Inserted(g, g2, n, x),
         NEW kind, LinesOf(f, kind) = {}, x.kind # kind, z.kind # kind
  PROVE  \A i \in LinesOf(g, kind) : i = n + 1
PROOF
  <1>1. /\ g1 \in Seq(AnyLine) /\ Len(g2) = Len(f) + 2 /\ Len(g) = Len(f) + 3 /\ Len(f) \in Nat
        /\ DOMAIN g2 = 1 .. Len(g2) /\ DOMAIN g = 1 .. Len(g)
        /\ \A i \in 1 .. Len(g) : g[i] = IF i < n THEN g2[i] ELSE IF i = n THEN x ELSE g2[i - 1]
    BY DEF Inserted
  <1>2. LinesOf(g1, kind) = {}
    BY OnlyInserted
  <1>3. \A i \in LinesOf(g2, kind) : i = n
    BY <1>1, <1>2, OnlyInserted
  <1> SUFFICES ASSUME NEW i \in LinesOf(g, kind) PROVE i = n + 1
    OBVIOUS
  <1>4. i \in 1 .. Len(g) /\ g[i].kind = kind
    BY <1>1 DEF LinesOf
  <1>5. CASE i < n
    <2>1. i \in DOMAIN g2 /\ g[i] = g2[i]
      BY <1>1, <1>4, <1>5
    <2>2. i \in LinesOf(g2, kind)
      BY <2>1, <1>4 DEF LinesOf
    <2> QED BY <2>2, <1>3, <1>5
  <1>6. CASE i = n
    BY <1>1, <1>4, <1>6
  <1>7. CASE i > n
    <2>1. i - 1 \in DOMAIN g2 /\ g[i] = g2[i - 1]
      BY <1>1, <1>4, <1>7
    <2>2. i - 1 \in LinesOf(g2, kind)
      BY <2>1, <1>4 DEF LinesOf
    <2>3. i - 1 = n
      BY <2>2, <1>3
    <2> QED BY <2>3, <1>4
  <1> QED BY <1>4, <1>5, <1>6, <1>7

\* The hook is the last in a post_install: the first end at the indent of blockRegex that
\* follows one is the first that leaves it, or is before that one; and it is not before it
\* where no end in the block has that indent.
LEMMA HookLands ==
  ASSUME version \in Nat, NEW p \in Seq(AnyLine), WellFormed(p), LinesOf(p, "ldflags") = {},
         Spliceable(p)
  PROVE  LET l == InjectLdflagsHook(p)
         IN  WellFormed(l) /\ \A i \in LinesOf(l, "ldflags") : LastInside(l, "post_install", i)
PROOF
  <1> DEFINE l == InjectLdflagsHook(p)
             e == Injected("ldflags")
             b == First(BlockEnds(p))
  <1>1. /\ Change(e) = 0 /\ Change(Line("post_install")) = 1 /\ Change(Line("end")) = -1
        /\ Line("post_install").kind = "post_install"
        /\ Line("post_install").kind # "ldflags" /\ Line("end").kind # "ldflags"
    BY DEF Change, Injected, Line, Opening
  <1>2. Len(p) \in Nat /\ DOMAIN p = 1 .. Len(p)
    OBVIOUS
  <1>3. ~Includes(p, "ldflags")
    BY IncludesLines
  <1>4. CASE BlockEnds(p) # {}
    <2>1. BlockEnds(p) \in SUBSET (1 .. Len(p))
      BY <1>2 DEF BlockEnds, LinesOf
    <2>2. b \in BlockEnds(p) /\ \A y \in BlockEnds(p) : b <= y
      BY <1>2, <1>4, <2>1, FirstIsLeast
    <2> HIDE DEF b, l, e
    <2>3. b \in 1 .. Len(p)
      BY <2>1, <2>2
    <2>4. PICK o \in LinesOf(p, "post_install") : o < b
      BY <2>2 DEF BlockEnds
    <2>5. o \in 1 .. (b - 1) /\ p[o].kind = "post_install" /\ Depth(p, o) \in {2, 3}
      <3>1. o \in 1 .. Len(p) /\ p[o].kind = "post_install"
        BY <2>4, <1>2 DEF LinesOf
      <3>2. Depth(p, o) \in {2, 3}
        BY <2>4 DEF Spliceable
      <3> QED BY <3>1, <3>2, <2>3, <2>4
    <2>6. ASSUME NEW j \in o .. (b - 1), Depth(p, j) < Depth(p, o) PROVE FALSE
      <3> DEFINE S == {i \in o .. (b - 1) : Depth(p, i) < Depth(p, o)}
                 s == First(S)
      <3>1. S \in SUBSET (1 .. Len(p)) /\ S # {}
        BY <1>2, <2>3, <2>5, <2>6
      <3>2. s \in S /\ \A i \in S : s <= i
        <4> HIDE DEF S
        <4> QED BY <3>1, <1>2, FirstIsLeast
      <3> HIDE DEF s
      <3>3. s \in o .. (b - 1) /\ Depth(p, s) < Depth(p, o) /\ s # o
        <4>1. s \in o .. (b - 1) /\ Depth(p, s) < Depth(p, o)
          BY <3>2
        <4>2. ~(Depth(p, o) < Depth(p, o))
          BY <2>5
        <4> QED BY <4>1, <4>2
      <3>4. s - 1 \in o .. (b - 1) /\ s - 1 \in Nat /\ (s - 1) + 1 = s
        BY <3>3, <2>3, <2>5
      <3>5. s - 1 \notin S
        <4> HIDE DEF S
        <4> QED BY <3>2, <3>4
      <3>6. Depth(p, s) = Depth(p, s - 1) + Change(p[s]) /\ Depth(p, s - 1) \in Int
        BY <3>4, DepthNext
      <3>7. Depth(p, s - 1) >= Depth(p, o)
        BY <3>4, <3>5, <3>6, <2>5
      <3>8. Change(p[s]) = -1 /\ Depth(p, s) = Depth(p, o) - 1
        <4>1. Change(p[s]) \in {-1, 0, 1}
          BY DEF Change
        <4> QED BY <4>1, <3>3, <3>6, <3>7, <2>5
      <3>9. p[s].kind = "end"
        BY <3>8 DEF Change
      <3>10. s \in LinesOf(p, "end")
        <4>1. s \in DOMAIN p
          BY <1>2, <2>3, <2>5, <3>3
        <4> QED BY <4>1, <3>9 DEF LinesOf
      <3>11. 2 * Depth(p, s) \in 2 .. 4
        BY <3>8, <2>5
      <3>12. o < s
        BY <3>3, <2>3, <2>5
      <3>13. s \in BlockEnds(p)
        BY <3>10, <3>11, <3>12 DEF BlockEnds
      <3> QED BY <3>3, <3>13, <2>2, <2>3, <2>5
    <2>7. \A j \in o .. (b - 1) : Depth(p, j) >= Depth(p, o)
      <3> SUFFICES ASSUME NEW j \in o .. (b - 1) PROVE Depth(p, j) >= Depth(p, o)
        OBVIOUS
      <3>1. j \in Nat
        BY <2>3, <2>5
      <3>2. Depth(p, j) \in Int
        BY <3>1, DepthNext
      <3> QED BY <3>2, <2>5, <2>6
    <2>8. Inserted(l, p, b, e)
      BY <1>3, <1>4, HookSteps DEF l, e, b
    <2>9. WellFormed(l)
      BY <2>8, <1>1, WellFormedInserted
    <2>10. Within(l, o, b)
      BY <2>5, <2>7, <2>8, <1>1, WithinInserted
    <2>11. o \in LinesOf(l, "post_install")
      <3>1. /\ Len(l) = Len(p) + 1 /\ l \in Seq(AnyLine)
            /\ \A i \in 1 .. Len(l) : l[i] = IF i < b THEN p[i] ELSE IF i = b THEN e ELSE p[i - 1]
        BY <2>8 DEF Inserted
      <3>2. o \in 1 .. Len(l) /\ o < b
        BY <3>1, <2>3, <2>5, <1>2
      <3>3. l[o] = p[o]
        BY <3>1, <3>2
      <3> QED BY <3>1, <3>2, <3>3, <2>5 DEF LinesOf
    <2>12. \A i \in LinesOf(l, "ldflags") : i = b
      BY <2>8, OnlyInserted
    <2>13. Depth(p, b) < Depth(p, o)
      <3> SUFFICES ASSUME ~(Depth(p, b) < Depth(p, o)) PROVE FALSE
        OBVIOUS
      <3>1. Depth(p, b) \in Int
        BY <2>3, DepthNext
      <3>2. \A j \in o .. b : Depth(p, j) >= Depth(p, o)
        BY <3>1, <2>3, <2>5, <2>7
      <3>3. Within(p, o, b)
        BY <2>4, <3>2 DEF Within
      <3>4. b \in LinesOf(p, "end") /\ 2 * Depth(p, b) \in 2 .. 4
        BY <2>2 DEF BlockEnds
      <3>5. Depth(p, b) > 2
        BY <2>4, <3>3, <3>4 DEF Spliceable
      <3> QED BY <3>1, <3>4, <3>5
    <2>14. ~Within(l, o, b + 1)
      <3>1. Len(l) = Len(p) + 1
        BY <2>8 DEF Inserted
      <3>2. b + 1 \in 0 .. Len(l) /\ ~(b + 1 < b) /\ (b + 1) - 1 = b
        BY <3>1, <2>3, <1>2
      <3>3. Depth(l, b + 1) = Depth(p, b) + Change(e)
        BY <2>8, <1>2, <3>2, DepthInserted
      <3>4. o \in 0 .. Len(l) /\ o < b
        BY <3>1, <2>3, <2>5, <1>2
      <3>5. Depth(l, o) = Depth(p, o)
        BY <2>8, <1>2, <3>4, DepthInserted
      <3>6. Depth(p, b) \in Int
        BY <2>3, DepthNext
      <3>7. ~(Depth(l, b + 1) >= Depth(l, o))
        BY <3>3, <3>5, <3>6, <2>5, <2>13, <1>1
      <3>8. b + 1 \in o .. (b + 1)
        BY <2>3, <2>5
      <3> QED BY <3>7, <3>8 DEF Within
    <2> QED BY <2>9, <2>10, <2>11, <2>12, <2>14 DEF LastInside, l
  <1>5. CASE BlockEnds(p) = {}
    <2> DEFINE n == Len(p) + 1
    <2>1. PICK g1, g2 : /\ Inserted(g1, p, n, Line("end"))
                        /\ Inserted(g2, g1, n, e)
                        /\ Inserted(l, g2, n, Line("post_install"))
      BY <1>3, <1>5, HookSteps
    <2> HIDE DEF l, e
    <2>2. n \in 1 .. (Len(p) + 1)
      BY <1>2
    <2>3. WellFormed(l) /\ Within(l, n, n + 1) /\ n + 1 \in DOMAIN l /\ l[n] = Line("post_install")
      BY <2>1, <2>2, <1>1, BlockInserted
    <2>4. DOMAIN l = 1 .. Len(l) /\ n + 1 \in DOMAIN l
      BY <2>1, <2>3 DEF Inserted
    <2>7. \A i \in LinesOf(l, "ldflags") : i = n + 1
      BY <2>1, <2>2, <1>1, OnlyInBlock
    <2>8. n \in LinesOf(l, "post_install")
      <3>1. n \in DOMAIN l
        BY <2>3, <2>2, <2>4
      <3> QED BY <3>1, <2>3, <1>1 DEF LinesOf
    <2>9. ~Within(l, n, n + 2)
      <3>1. Len(l) = n + 2 /\ l # <<>>
        BY <2>1, <1>2 DEF Inserted
      <3>2. Depth(l, n + 2) = 0
        BY <2>3, <3>1 DEF WellFormed
      <3>3. n - 1 = Len(p) /\ n - 1 \in Nat
        BY <1>2
      <3>4. Depth(p, n - 1) = 0
        <4>1. CASE p = <<>>
          BY <3>3, <4>1, DepthNext
        <4>2. CASE p # <<>>
          BY <3>3, <4>2 DEF WellFormed
        <4> QED BY <4>1, <4>2
      <3>5. Depth(l, n) = 1
        BY <2>1, <2>2, <1>1, <3>4, BlockInserted
      <3>6. n + 2 \in n .. (n + 2) /\ ~(0 >= 1)
        BY <2>2, <1>2
      <3> QED BY <3>2, <3>5, <3>6 DEF Within
    <2>10. n + 2 = (n + 1) + 1
      BY <1>2
    <2> QED BY <2>3, <2>7, <2>8, <2>9, <2>10 DEF LastInside, l
  <1> QED BY <1>4, <1>5

\* Where a line of f is after another, which opens and ends nothing, was put in at k.
Place(i, k) == IF i < k THEN i ELSE i + 1

\* It is the same line there, of the same depth, and g has no other lines of its kind.
LEMMA PlaceInserted ==
  ASSUME NEW f \in Seq(AnyLine), NEW g, NEW k, NEW e, Inserted(g, f, k, e), Change(e) = 0
  PROVE  /\ \A j \in 1 .. Len(f) :
              /\ Place(j, k) \in 1 .. Len(g)
              /\ g[Place(j, k)] = f[j] /\ Depth(g, Place(j, k)) = Depth(f, j)
         /\ \A kind : e.kind # kind =>
              \A i \in LinesOf(g, kind) : \E j \in LinesOf(f, kind) : i = Place(j, k)
PROOF
  <1>1. /\ Len(g) = Len(f) + 1 /\ DOMAIN g = 1 .. Len(g) /\ Len(f) \in Nat /\ k \in 1 .. Len(g)
        /\ DOMAIN f = 1 .. Len(f)
        /\ \A i \in 1 .. Len(g) :
             g[i] = IF i < k THEN f[i] ELSE IF i = k THEN e ELSE f[i - 1]
    BY DEF Inserted
  <1>2. ASSUME NEW j \in 1 .. Len(f)
        PROVE  /\ Place(j, k) \in 1 .. Len(g)
               /\ g[Place(j, k)] = f[j] /\ Depth(g, Place(j, k)) = Depth(f, j)
    <2>1. Place(j, k) \in 1 .. Len(g) /\ Place(j, k) \in 0 .. Len(g)
      BY <1>1 DEF Place
    <2>2. Depth(g, Place(j, k)) = IF Place(j, k) < k THEN Depth(f, Place(j, k))
                                  ELSE Depth(f, Place(j, k) - 1) + Change(e)
      BY <2>1, <1>1, DepthInserted
    <2>3. Depth(f, j) \in Int
      BY DepthNext
    <2>4. CASE j < k
      BY <2>1, <2>2, <2>4, <1>1 DEF Place
    <2>5. CASE ~(j < k)
      <3>1. Place(j, k) = j + 1 /\ ~(j + 1 < k) /\ j + 1 # k /\ (j + 1) - 1 = j
        BY <2>5, <1>1 DEF Place
      <3> QED BY <3>1, <2>1, <2>2, <2>3, <1>1
    <2> QED BY <2>4, <2>5
  <1>3. ASSUME NEW kind, e.kind # kind, NEW i \in LinesOf(g, kind)
        PROVE  \E j \in LinesOf(f, kind) : i = Place(j, k)
    <2>1. i \in 1 .. Len(g) /\ g[i].kind = kind /\ i # k
      BY <1>1, <1>3 DEF LinesOf
    <2>2. CASE i < k
      <3>1. i \in LinesOf(f, kind)
        BY <2>1, <2>2, <1>1 DEF LinesOf
      <3> QED BY <3>1, <2>2 DEF Place
    <2>3. CASE ~(i < k)
      <3>1. i - 1 \in LinesOf(f, kind)
        BY <2>1, <2>3, <1>1 DEF LinesOf
      <3>2. i = Place(i - 1, k)
        BY <2>1, <2>3, <1>1 DEF Place
      <3> QED BY <3>1, <3>2
    <2> QED BY <2>2, <2>3
  <1> QED BY <1>2, <1>3

\* Neither the checksum nor the pod change how post_install is nested.
LEMMA NestingInserted ==
  ASSUME NEW f \in Seq(AnyLine), Spliceable(f),
         NEW g, NEW k, NEW e, Inserted(g, f, k, e), Change(e) = 0, e.kind # "end"
  PROVE  Spliceable(g)
PROOF
  <1> SUFFICES ASSUME NEW x \in LinesOf(g, "post_install")
               PROVE  /\ Depth(g, x) \in {2, 3}
                      /\ \A i \in LinesOf(g, "end") : Within(g, x, i) => Depth(g, i) > 2
    BY DEF Spliceable
  <1>1. e.kind # "post_install"
    BY DEF Change, Opening
  <1>2. PICK o \in LinesOf(f, "post_install") : x = Place(o, k)
    BY <1>1, PlaceInserted
  <1>3. o \in 1 .. Len(f) /\ DOMAIN f = 1 .. Len(f) /\ k \in Nat
    BY DEF LinesOf, Inserted
  <1>4. Depth(g, x) = Depth(f, o) /\ Depth(f, o) \in {2, 3}
    BY <1>2, <1>3, PlaceInserted DEF Spliceable
  <1>5. ASSUME NEW y \in LinesOf(g, "end"), Within(g, x, y) PROVE Depth(g, y) > 2
    <2>1. PICK i \in LinesOf(f, "end") : y = Place(i, k)
      BY PlaceInserted
    <2>2. i \in 1 .. Len(f)
      BY <1>3 DEF LinesOf
    <2>3. Depth(g, y) = Depth(f, i)
      BY <2>1, <2>2, PlaceInserted
    <2>4. o < i
      BY <1>2, <1>3, <1>5, <2>1, <2>2 DEF Within, Place
    <2>5. ASSUME NEW j \in o .. i PROVE Depth(f, j) >= Depth(f, o)
      <3>1. j \in 1 .. Len(f)
        BY <1>3, <2>2
      <3>2. Place(j, k) \in x .. y
        BY <1>2, <1>3, <2>1, <2>2, <3>1 DEF Place
      <3>3. Depth(g, Place(j, k)) >= Depth(g, x)
        BY <3>2, <1>5 DEF Within
      <3> QED BY <3>1, <3>3, <1>4, PlaceInserted
    <2>6. Within(f, o, i)
      BY <2>4, <2>5 DEF Within
    <2> QED BY <2>3, <2>6, <2>1 DEF Spliceable
  <1> QED BY <1>4, <1>5

\* The Podfile that one prebuild makes of a template.
LEMMA PodfileLands ==
  ASSUME version \in Nat, NestedTemplates, NEW f \in Podfiles
  PROVE  LET l == InjectLdflagsHook(InjectPodLine(InjectChecksum(f)))
         IN  WellFormed(l) /\ \A i \in LinesOf(l, "ldflags") : LastInside(l, "post_install", i)
PROOF
  <1> DEFINE c == InjectChecksum(f)
             p == InjectPodLine(c)
  <1>1. Inserted(c, f, 1, Injected("checksum"))
    BY ChecksumAndPod
  <1>2. PICK k \in Nat : k > 1 /\ Inserted(p, c, k, Injected("pod"))
    BY ChecksumAndPod
  <1>3. /\ f \in Seq(AnyLine) /\ WellFormed(f) /\ LinesOf(f, "ldflags") = {}
        /\ Spliceable(f)
    BY TemplateLines DEF Templates, Marks, NestedTemplates
  <1>4. /\ Change(Injected("checksum")) = 0 /\ Change(Injected("pod")) = 0
        /\ Injected("checksum").kind \notin {"ldflags", "end"}
        /\ Injected("pod").kind \notin {"ldflags", "end"}
    BY DEF Change, Injected, Opening
  <1> HIDE DEF c, p
  <1>5. c \in Seq(AnyLine) /\ p \in Seq(AnyLine)
    BY <1>1, <1>2 DEF Inserted
  <1>6. WellFormed(c) /\ Spliceable(c)
    BY <1>1, <1>3, <1>4, WellFormedInserted, NestingInserted
  <1>7. WellFormed(p) /\ Spliceable(p)
    BY <1>2, <1>4, <1>5, <1>6, WellFormedInserted, NestingInserted
  <1>8. LinesOf(c, "ldflags") = {}
    BY <1>1, <1>3, <1>4, OnlyInserted
  <1>9. LinesOf(p, "ldflags") = {}
    BY <1>2, <1>4, <1>5, <1>8, OnlyInserted
  <1> QED BY <1>5, <1>7, <1>9, HookLands DEF c, p

\* A line put in behind a line of its block is in the block.
LEMMA InsideInserted ==
  ASSUME NEW f \in Seq(AnyLine), NEW kind, NEW r \in 1 .. Len(f), Inside(f, kind, r),
         NEW g, NEW e, Inserted(g, f, r + 1, e), Change(e) = 0
  PROVE  Inside(g, kind, r + 1)
PROOF
  <1>1. PICK o \in LinesOf(f, kind) : Within(f, o, r)
    BY DEF Inside
  <1>2. /\ Len(g) = Len(f) + 1 /\ DOMAIN g = 1 .. Len(g) /\ Len(f) \in Nat
        /\ DOMAIN f = 1 .. Len(f) /\ \A i \in 1 .. Len(g) : i < r + 1 => g[i] = f[i]
    BY DEF Inserted
  <1>3. o \in 1 .. Len(f) /\ f[o].kind = kind /\ o < r
        /\ \A j \in o .. r : Depth(f, j) >= Depth(f, o)
    BY <1>1, <1>2 DEF Within, LinesOf
  <1>4. o \in 1 .. ((r + 1) - 1) /\ (r + 1) - 1 = r
    BY <1>3
  <1>5. Within(g, o, r + 1)
    BY <1>3, <1>4, WithinInserted
  <1>6. o \in LinesOf(g, kind)
    BY <1>2, <1>3 DEF LinesOf
  <1> QED BY <1>5, <1>6 DEF Inside

\* So is a line behind the one that opens the block.
LEMMA InsideOpened ==
  ASSUME NEW f \in Seq(AnyLine), NEW kind, NEW r \in LinesOf(f, kind),
         NEW g, NEW e, Inserted(g, f, r + 1, e), Change(e) = 0
  PROVE  Inside(g, kind, r + 1)
PROOF
  <1>1. /\ Len(g) = Len(f) + 1 /\ DOMAIN g = 1 .. Len(g) /\ Len(f) \in Nat
        /\ DOMAIN f = 1 .. Len(f) /\ \A i \in 1 .. Len(g) : i < r + 1 => g[i] = f[i]
    BY DEF Inserted
  <1>2. r \in 1 .. Len(f) /\ f[r].kind = kind
    BY <1>1 DEF LinesOf
  <1>3. r \in 1 .. ((r + 1) - 1) /\ (r + 1) - 1 = r
    BY <1>2
  <1>4. \A j \in r .. r : Depth(f, j) >= Depth(f, r)
    <2>1. Depth(f, r) \in Int
      BY <1>2, DepthNext
    <2>2. \A j \in r .. r : j = r
      BY <1>2
    <2> QED BY <2>1, <2>2
  <1>5. Within(g, r, r + 1)
    BY <1>3, <1>4, WithinInserted
  <1>6. r \in LinesOf(g, kind)
    BY <1>1, <1>2 DEF LinesOf
  <1> QED BY <1>5, <1>6 DEF Inside

\* The project's Gradle file that one prebuild makes of a template.
LEMMA GradleLands ==
  ASSUME version \in Nat, NestedTemplates, NEW f \in ProjectGradles
  PROVE  LET g == InjectSignalMaven(f)
         IN  WellFormed(g) /\ \A i \in LinesOf(g, "maven") : Inside(g, "allprojects", i)
PROOF
  <1> DEFINE g == InjectSignalMaven(f)
             r == First(Openers(f))
  <1>1. /\ f \in Seq(AnyLine) /\ WellFormed(f) /\ LinesOf(f, "maven") = {}
        /\ Openers(f) # {} => Inside(f, "allprojects", r)
    BY TemplateLines DEF Templates, Marks, NestedTemplates
  <1>2. CASE g = f
    BY <1>1, <1>2
  <1>3. CASE Openers(f) # {} /\ Inserted(g, f, r + 1, Injected("maven"))
    <2>1. Openers(f) \in SUBSET (1 .. Len(f)) /\ Len(f) \in Nat
      <3>1. Len(f) \in Nat /\ DOMAIN f = 1 .. Len(f)
        BY <1>1
      <3> QED BY <3>1 DEF Openers, LinesOf
    <2>2. r \in Openers(f)
      BY <1>3, <2>1, FirstIsLeast
    <2>3. r \in 1 .. Len(f)
      BY <2>1, <2>2
    <2>4. Change(Injected("maven")) = 0
      BY DEF Change, Injected, Opening
    <2> HIDE DEF g, r
    <2>5. WellFormed(g)
      BY <1>1, <1>3, <2>4, WellFormedInserted
    <2>6. \A i \in LinesOf(g, "maven") : i = r + 1
      BY <1>1, <1>3, OnlyInserted
    <2>7. Inside(g, "allprojects", r + 1)
      BY <1>1, <1>3, <2>3, <2>4, InsideInserted
    <2> QED BY <2>5, <2>6, <2>7 DEF g
  <1> QED BY <1>2, <1>3, MavenSteps

\* A line after the end of a block stays out of what is said of the lines in it.
LEMMA InsideAppended ==
  ASSUME NEW f \in Seq(AnyLine), NEW e \in AnyLine, NEW kind, NEW i \in DOMAIN f,
         Inside(f, kind, i)
  PROVE  Inside(Append(f, e), kind, i)
PROOF
  <1> DEFINE g == Append(f, e)
  <1>1. Inserted(g, f, Len(f) + 1, e)
    BY AppendInserts
  <1>2. PICK o \in LinesOf(f, kind) : Within(f, o, i)
    BY DEF Inside
  <1>3. /\ Len(g) = Len(f) + 1 /\ DOMAIN g = 1 .. Len(g) /\ Len(f) \in Nat
        /\ DOMAIN f = 1 .. Len(f) /\ \A j \in 1 .. Len(f) : g[j] = f[j]
    OBVIOUS
  <1>4. o \in 1 .. Len(f) /\ i \in 1 .. Len(f) /\ f[o].kind = kind
    BY <1>3 DEF LinesOf
  <1> HIDE DEF g
  <1>5. ASSUME NEW j \in 1 .. Len(f) PROVE Depth(g, j) = Depth(f, j)
    <2>1. j \in 0 .. Len(g) /\ j < Len(f) + 1
      BY <1>3
    <2> QED BY <2>1, <1>1, <1>3, DepthInserted
  <1>6. Within(g, o, i)
    <2>1. \A j \in o .. i : j \in 1 .. Len(f)
      BY <1>4
    <2> QED BY <2>1, <1>2, <1>4, <1>5 DEF Within
  <1>7. o \in LinesOf(g, kind)
    BY <1>3, <1>4 DEF LinesOf
  <1> QED BY <1>6, <1>7 DEF Inside, g

\* The compile options of a template are in a block of that name, which is in android.
LEMMA CompileOptionsLand ==
  ASSUME version \in Nat, NestedTemplates, NEW f \in AppGradles
  PROVE  LET c == CompileOptions(f)
         IN  /\ c \in Seq(AnyLine) /\ WellFormed(c)
             /\ \A i \in LinesOf(c, "desugaring") :
                  Inside(c, "android", i) /\ Inside(c, "compileOptions", i)
PROOF
  <1> DEFINE c == CompileOptions(f)
             o == First(LinesOf(f, "compileOptions"))
             n == First(LinesOf(f, "android")) + 1
             x == Line("compileOptions")
             y == Injected("desugaring")
             z == Line("end")
  <1>1. /\ f \in Seq(AnyLine) /\ WellFormed(f) /\ LinesOf(f, "desugaring") = {}
        /\ HasOptions(f) => Inside(f, "android", o)
    BY TemplateLines DEF Templates, Marks, NestedTemplates
  <1>2. Len(f) \in Nat /\ DOMAIN f = 1 .. Len(f)
    BY <1>1
  <1>3. Change(x) = 1 /\ Change(y) = 0 /\ Change(z) = -1
        /\ x.kind = "compileOptions" /\ x.kind # "desugaring" /\ z.kind # "desugaring"
    BY DEF Change, Injected, Line, Opening
  <1>4. ASSUME HasOptions(f), o \in LinesOf(f, "compileOptions"), Inserted(c, f, o + 1, y)
        PROVE  /\ c \in Seq(AnyLine) /\ WellFormed(c)
               /\ \A i \in LinesOf(c, "desugaring") :
                    Inside(c, "android", i) /\ Inside(c, "compileOptions", i)
    <2> HIDE DEF c, o, x, y, z
    <2>1. o \in 1 .. Len(f)
      BY <1>2, <1>4 DEF LinesOf
    <2>2. c \in Seq(AnyLine)
      BY <1>4 DEF Inserted
    <2>3. WellFormed(c)
      BY <1>1, <1>3, <1>4, WellFormedInserted
    <2>4. \A i \in LinesOf(c, "desugaring") : i = o + 1
      BY <1>1, <1>4, OnlyInserted
    <2>5. Inside(c, "android", o + 1)
      BY <1>1, <1>3, <1>4, <2>1, InsideInserted
    <2>6. Inside(c, "compileOptions", o + 1)
      BY <1>1, <1>3, <1>4, InsideOpened
    <2> QED BY <2>2, <2>3, <2>4, <2>5, <2>6
  <1>5. ASSUME n - 1 \in LinesOf(f, "android"), NEW g1, NEW g2,
               Inserted(g1, f, n, z), Inserted(g2, g1, n, y), Inserted(c, g2, n, x)
        PROVE  /\ c \in Seq(AnyLine) /\ WellFormed(c)
               /\ \A i \in LinesOf(c, "desugaring") :
                    Inside(c, "android", i) /\ Inside(c, "compileOptions", i)
    <2> HIDE DEF c, n, x, y, z
    <2>1. n - 1 \in 1 .. Len(f) /\ f[n - 1].kind = "android"
      BY <1>2, <1>5 DEF LinesOf
    <2>2. n \in 1 .. (Len(f) + 1) /\ n - 1 \in 1 .. (n - 1) /\ n - 1 \in Nat /\ n - 1 < n + 1
          /\ n \in 1 .. (n + 1)
      <3>1. n \in Int
        BY <1>5 DEF Inserted
      <3> QED BY <1>2, <2>1, <3>1
    <2>3. /\ WellFormed(c) /\ Within(c, n, n + 1) /\ n + 1 \in DOMAIN c /\ c[n] = x
          /\ c[n - 1] = f[n - 1] /\ Depth(c, n - 1) = Depth(f, n - 1)
          /\ Depth(c, n) = Depth(f, n - 1) + 1 /\ Depth(c, n + 1) = Depth(f, n - 1) + 1
      BY <1>1, <1>3, <1>5, <2>2, BlockInserted
    <2>4. c \in Seq(AnyLine) /\ DOMAIN c = 1 .. Len(c)
      BY <1>5 DEF Inserted
    <2>5. \A i \in LinesOf(c, "desugaring") : i = n + 1
      BY <1>1, <1>3, <1>5, <2>2, OnlyInBlock
    <2>6. n - 1 \in DOMAIN c /\ n \in DOMAIN c
      BY <2>2, <2>3, <2>4
    <2>7. Inside(c, "compileOptions", n + 1)
      <3>1. n \in LinesOf(c, "compileOptions")
        BY <2>3, <2>6, <1>3 DEF LinesOf
      <3> QED BY <3>1, <2>3 DEF Inside
    <2>8. Inside(c, "android", n + 1)
      <3>1. n - 1 \in LinesOf(c, "android")
        BY <2>1, <2>3, <2>6 DEF LinesOf
      <3>2. Depth(f, n - 1) \in Int
        BY <2>2, DepthNext
      <3>3. ASSUME NEW j \in (n - 1) .. (n + 1) PROVE Depth(c, j) >= Depth(c, n - 1)
        <4>1. j \in {n - 1, n, n + 1}
          BY <2>2
        <4> QED BY <4>1, <3>2, <2>3
      <3>4. Within(c, n - 1, n + 1)
        BY <3>3, <2>2 DEF Within
      <3> QED BY <3>1, <3>4 DEF Inside
    <2> QED BY <2>3, <2>4, <2>5, <2>7, <2>8
  <1>6. ASSUME c = f
        PROVE  /\ c \in Seq(AnyLine) /\ WellFormed(c)
               /\ \A i \in LinesOf(c, "desugaring") :
                    Inside(c, "android", i) /\ Inside(c, "compileOptions", i)
    BY <1>1, <1>6
  <1> QED BY <1>4, <1>5, <1>6, CompileOptionsSteps

\* The app's Gradle file that one prebuild makes of a template.
LEMMA AppGradleLands ==
  ASSUME version \in Nat, NestedTemplates, NEW f \in AppGradles
  PROVE  LET g == InjectAppDesugaring(f)
         IN  /\ WellFormed(g)
             /\ \A i \in LinesOf(g, "desugaring") :
                  Inside(g, "android", i) /\ Inside(g, "compileOptions", i)
PROOF
  <1> DEFINE c == CompileOptions(f)
             e == Injected("dependency")
             g == InjectAppDesugaring(f)
  <1>1. /\ c \in Seq(AnyLine) /\ WellFormed(c)
        /\ \A i \in LinesOf(c, "desugaring") :
             Inside(c, "android", i) /\ Inside(c, "compileOptions", i)
    BY CompileOptionsLand
  <1>2. LinesOf(f, "desugaring") = {} /\ LinesOf(f, "dependency") = {}
    BY TemplateLines DEF Templates, Marks
  <1>3. g = Append(c, e)
    BY <1>2, IncludesLines DEF InjectAppDesugaring
  <1>4. e \in AnyLine /\ e.kind = "dependency" /\ Change(e) = 0
    <2>1. e \in AnyLine /\ e.kind = "dependency"
      BY LineType, WrittenKinds
    <2> QED BY <2>1 DEF Change, Opening
  <1> HIDE DEF c, e, g
  <1>5. Inserted(g, c, Len(c) + 1, e)
    BY <1>1, <1>3, <1>4, AppendInserts
  <1>6. WellFormed(g)
    BY <1>1, <1>4, <1>5, WellFormedInserted
  <1>7. ASSUME NEW i \in LinesOf(g, "desugaring") PROVE i \in LinesOf(c, "desugaring") /\ i \in DOMAIN c
    <2>1. DOMAIN g = 1 .. (Len(c) + 1) /\ DOMAIN c = 1 .. Len(c) /\ Len(c) \in Nat
          /\ g[Len(c) + 1] = e /\ \A j \in 1 .. Len(c) : g[j] = c[j]
      BY <1>1, <1>3
    <2>2. i \in 1 .. (Len(c) + 1) /\ g[i].kind = "desugaring"
      BY <2>1 DEF LinesOf
    <2>3. i # Len(c) + 1
      BY <2>1, <2>2, <1>4
    <2>4. i \in 1 .. Len(c)
      BY <2>1, <2>2, <2>3
    <2> QED BY <2>1, <2>2, <2>4 DEF LinesOf
  <1>8. ASSUME NEW i \in LinesOf(g, "desugaring")
        PROVE  Inside(g, "android", i) /\ Inside(g, "compileOptions", i)
    <2>1. i \in DOMAIN c /\ Inside(c, "android", i) /\ Inside(c, "compileOptions", i)
      BY <1>1, <1>7
    <2> QED BY <2>1, <1>1, <1>3, <1>4, InsideAppended
  <1> QED BY <1>6, <1>8 DEF g

\* On templates in which the regular expressions find what they are meant to, what prebuilds
\* of any versions inject is in its block, and the files stay well formed: the hook is the
\* last in post_install, the repository in allprojects, the options in android.
THEOREM PluginLandsInBlock == NestedTemplates => (Spec => []LandsInBlock)
PROOF
  <1> SUFFICES ASSUME NestedTemplates PROVE Spec => []LandsInBlock
    OBVIOUS
  <1>1. Init => LandsInBlock
    <2> SUFFICES ASSUME Init PROVE LandsInBlock
      OBVIOUS
    <2>1. podfile \in Templates /\ projectGradle \in Templates /\ appGradle \in Templates
      BY DEF Init, Templates
    <2>2. /\ WellFormed(podfile) /\ LinesOf(podfile, "ldflags") = {}
          /\ WellFormed(projectGradle) /\ LinesOf(projectGradle, "maven") = {}
          /\ WellFormed(appGradle) /\ LinesOf(appGradle, "desugaring") = {}
      BY <2>1, TemplateLines DEF Marks
    <2> QED BY <2>2 DEF LandsInBlock
  <1>2. PluginInv /\ LandsInBlock /\ [Next]_vars => LandsInBlock'
    <2> SUFFICES ASSUME PluginInv, LandsInBlock, [Next]_vars PROVE LandsInBlock'
      OBVIOUS
    <2> DEFINE Landed(p, g, a) ==
                 /\ WellFormed(p) /\ WellFormed(g) /\ WellFormed(a)
                 /\ \A i \in LinesOf(p, "ldflags") : LastInside(p, "post_install", i)
                 /\ \A i \in LinesOf(g, "maven") : Inside(g, "allprojects", i)
                 /\ \A i \in LinesOf(a, "desugaring") :
                      Inside(a, "android", i) /\ Inside(a, "compileOptions", i)
    <2>1. Landed(podfile, projectGradle, appGradle) /\ version \in Nat
      BY DEF LandsInBlock, PluginInv
    <2>2. Landed(podfile', projectGradle', appGradle')
      <3>1. CASE WithLibsignalPodfile
        <4>1. CASE podfile \in Podfiles
          BY <3>1, <4>1, <2>1, PodfileLands DEF WithLibsignalPodfile
        <4>2. CASE podfile \notin Podfiles
          <5>1. \A kind \in {"checksum", "pod", "ldflags"} : Includes(podfile, kind)
            BY <4>2 DEF PluginInv
          <5>2. podfile' = podfile
            BY <3>1, <5>1
            DEF WithLibsignalPodfile, InjectChecksum, InjectPodLine, InjectLdflagsHook
          <5> QED BY <3>1, <5>2, <2>1 DEF WithLibsignalPodfile
        <4> QED BY <4>1, <4>2
      <3>2. CASE WithLibsignalGradle
        <4>1. CASE projectGradle \in ProjectGradles
          BY <3>2, <4>1, <2>1, GradleLands DEF WithLibsignalGradle
        <4>2. CASE projectGradle \notin ProjectGradles
          <5>1. projectGradle' = projectGradle
            BY <3>2, <4>2 DEF PluginInv, WithLibsignalGradle, InjectSignalMaven
          <5> QED BY <3>2, <5>1, <2>1 DEF WithLibsignalGradle
        <4> QED BY <4>1, <4>2
      <3>3. CASE WithLibsignalAppGradle
        <4>1. CASE appGradle \in AppGradles
          BY <3>3, <4>1, <2>1, AppGradleLands DEF WithLibsignalAppGradle
        <4>2. CASE appGradle \notin AppGradles
          <5>1. appGradle' = appGradle
            BY <3>3, <4>2 DEF PluginInv, WithLibsignalAppGradle, InjectAppDesugaring
          <5> QED BY <3>3, <5>1, <2>1 DEF WithLibsignalAppGradle
        <4> QED BY <4>1, <4>2
      <3>4. CASE WithExpoLibsignal \/ Aborted \/ Upgrade \/ UNCHANGED vars
        BY <3>4, <2>1 DEF WithExpoLibsignal, Aborted, Upgrade, vars, files
      <3> QED BY <3>1, <3>2, <3>3, <3>4 DEF Next
    <2>3. Landed(podfile', projectGradle', appGradle') <=> LandsInBlock'
      BY DEF LandsInBlock, LinesOf, Inside, LastInside, WellFormed, Within, Depth
    <2> QED BY <2>2, <2>3
  <1> QED BY <1>1, <1>2, PluginInvariant, PTL DEF Spec
=============================================================================
