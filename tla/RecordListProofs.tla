-------------------------- MODULE RecordListProofs --------------------------
(***************************************************************************)
(* Proofs about the framing of records, for every number of values of a    *)
(* byte, every width of a length and every blob: the decoder of Kotlin,    *)
(* which reads signed lengths, answers what the others answer, and what is *)
(* encoded is read back.                                                   *)
(*                                                                         *)
(* The loops of the code are recursive functions.  Induction is the        *)
(* well-foundedness of < on Nat, stated for sets; Recursion and            *)
(* RecursionUpto turn it into the existence of the functions, and each     *)
(* function of RecordList has a lemma (PowerDef, ReadUintIs, UintIs,       *)
(* EncodeIs, DecodeIs) that gives its equations.  The only product,        *)
(* n * Base, is kept behind Times and WithByte.                            *)
(***************************************************************************)
EXTENDS RecordList, WellFoundedInduction, TLAPS

-----------------------------------------------------------------------------
(* Induction and recursion *)

\* A set that holds 0 and with every number its successor holds all numbers.
LEMMA Induction ==
  ASSUME NEW S, 0 \in S, \A n \in Nat : n \in S => n + 1 \in S
  PROVE  Nat \subseteq S
<1> DEFINE R == {ss \in Nat \X Nat : ss[1] < ss[2]}
           T == Nat \ S
<1>1. SUFFICES ASSUME T # {} PROVE FALSE
  OBVIOUS
<1>2. PICK n \in T : \A m \in T : <<m, n>> \notin R
  <2>1. IsWellFoundedOn(R, Nat)
    BY NatLessThanWellFounded DEF OpToRel
  <2>2. T \subseteq Nat
    OBVIOUS
  <2> HIDE DEF R, T
  <2> QED BY <1>1, <2>1, <2>2, WFMin
<1>3. n # 0 /\ n \in Nat
  BY <1>2
<1>4. n - 1 \in Nat /\ (n - 1) + 1 = n
  BY <1>3
<1>5. n - 1 \notin S
  BY <1>2, <1>4
<1>6. <<n - 1, n>> \in R
  BY <1>3, <1>4
<1> QED
  BY <1>2, <1>4, <1>5, <1>6

\* f starts with a and goes on by step, up to N.
Iterates(f, N, S, a, step) ==
  /\ f \in [0 .. N -> S] /\ f[0] = a
  /\ \A n \in 0 .. N - 1 : f[n + 1] = step[<<n, f[n]>>]

\* And without end.
Always(f, S, a, step) ==
  /\ f \in [Nat -> S] /\ f[0] = a
  /\ \A n \in Nat : f[n + 1] = step[<<n, f[n]>>]

\* Base, the number of values of a byte, and Prefix, the number of bytes of a length.
LEMMA Sizes == Base \in Nat /\ Base > 1 /\ Prefix \in Nat /\ Prefix > 0
  BY FramingAssumption

\* A value and a step make a function on all numbers.
LEMMA Recursion ==
  ASSUME NEW S, NEW a \in S, NEW step \in [Nat \X S -> S]
  PROVE  \E f : Always(f, S, a, step)
<1> DEFINE Upto(f, m) == /\ f \in [0 .. m -> S] /\ f[0] = a
                         /\ \A n \in 0 .. (m - 1) : f[n + 1] = step[<<n, f[n]>>]
           Good == {m \in Nat : \E f : Upto(f, m)}
<1>1. Nat \subseteq Good
  <2>1. 0 \in Good
    <3> DEFINE g == [n \in 0 .. 0 |-> a]
    <3>1. g \in [0 .. 0 -> S] /\ g[0] = a /\ 0 .. (0 - 1) = {}
      OBVIOUS
    <3> HIDE DEF g
    <3>2. Upto(g, 0)
      BY <3>1
    <3> QED BY <3>2
  <2>2. ASSUME NEW m \in Nat, m \in Good PROVE m + 1 \in Good
    <3>1. PICK f : Upto(f, m)
      BY <2>2
    <3>2. step[<<m, f[m]>>] \in S
      BY <3>1
    <3> DEFINE g == [n \in 0 .. m + 1 |-> IF n <= m THEN f[n] ELSE step[<<m, f[m]>>]]
    <3>3. g \in [0 .. m + 1 -> S] /\ g[0] = a
      BY <3>1, <3>2
    <3>4. ASSUME NEW n \in 0 .. m PROVE g[n + 1] = step[<<n, g[n]>>]
      <4>1. g[n] = f[n]
        <5>1. n \in 0 .. m + 1 /\ n <= m
          BY <3>4
        <5> QED BY <5>1
      <4>2. CASE n = m
        BY <4>1, <4>2
      <4>3. CASE n < m
        <5>1. n \in 0 .. m - 1 /\ g[n + 1] = f[n + 1]
          BY <4>3
        <5> QED BY <3>1, <4>1, <5>1
      <4> QED BY <4>2, <4>3
    <3> HIDE DEF g
    <3>5. Upto(g, m + 1)
      BY <3>3, <3>4
    <3> QED BY <3>5
  <2> HIDE DEF Good
  <2> QED BY <2>1, <2>2, Induction
<1>2. ASSUME NEW m \in Nat, NEW f, Upto(f, m), NEW k \in Nat, NEW g, Upto(g, k)
      PROVE  \A n \in Nat : n <= m /\ n <= k => f[n] = g[n]
  <2> DEFINE Same == {n \in Nat : n <= m /\ n <= k => f[n] = g[n]}
  <2>1. 0 \in Same
    BY <1>2
  <2>2. ASSUME NEW n \in Nat, n \in Same PROVE n + 1 \in Same
    <3>1. CASE n + 1 <= m /\ n + 1 <= k
      <4>1. n \in 0 .. m - 1 /\ n \in 0 .. k - 1 /\ f[n] = g[n]
        BY <2>2, <3>1
      <4>2. f[n + 1] = step[<<n, f[n]>>] /\ g[n + 1] = step[<<n, g[n]>>]
        BY <1>2, <4>1
      <4> QED BY <4>1, <4>2
    <3> QED BY <3>1
  <2>3. Nat \subseteq Same
    <3> HIDE DEF Same
    <3> QED BY <2>1, <2>2, Induction
  <2> QED BY <2>3
<1> DEFINE F(m) == CHOOSE f : Upto(f, m)
           h == [n \in Nat |-> F(n)[n]]
<1>3. \A m \in Nat : Upto(F(m), m)
  <2> HIDE DEF Upto
  <2> QED BY <1>1
<1>4. \A n \in Nat : h[n] \in S
  BY <1>3
<1>5. h[0] = a
  BY <1>3
<1>6. ASSUME NEW n \in Nat PROVE h[n + 1] = step[<<n, h[n]>>]
  <2>1. Upto(F(n), n) /\ Upto(F(n + 1), n + 1)
    <3> HIDE DEF Upto
    <3> QED BY <1>3
  <2> HIDE DEF F
  <2>2. F(n)[n] = F(n + 1)[n]
    <3> HIDE DEF Upto
    <3> QED BY <2>1, <1>2
  <2>3. F(n + 1)[n + 1] = step[<<n, F(n + 1)[n]>>]
    BY <2>1
  <2> QED BY <2>2, <2>3
<1>7. h \in [Nat -> S]
  BY <1>4
<1> HIDE DEF h
<1> QED
  BY <1>5, <1>6, <1>7 DEF Always

\* And one on the numbers up to N.
LEMMA RecursionUpto ==
  ASSUME NEW N \in Nat, NEW S, NEW a \in S, NEW step \in [Nat \X S -> S]
  PROVE  \E f : Iterates(f, N, S, a, step)
<1>1. PICK f : Always(f, S, a, step)
  BY Recursion
<1> DEFINE g == [n \in 0 .. N |-> f[n]]
<1>2. g \in [0 .. N -> S] /\ g[0] = a
  BY <1>1 DEF Always
<1>3. \A n \in 0 .. N - 1 : g[n + 1] = f[n + 1] /\ g[n] = f[n]
  OBVIOUS
<1> HIDE DEF g
<1>4. \A n \in 0 .. N - 1 : g[n + 1] = step[<<n, g[n]>>]
  BY <1>1, <1>3 DEF Always
<1> QED
  BY <1>2, <1>4 DEF Iterates

-----------------------------------------------------------------------------
(* Numbers to the base *)

Times(n) == n * Base

\* A product with the base is a number, and 0 only if its factor is.
LEMMA TimesRange == \A n \in Nat : Times(n) \in Nat /\ (n # 0 => Times(n) # 0)
  BY Sizes DEF Times

\* A byte more multiplies the bound by the base.
LEMMA WithByteRange ==
  ASSUME NEW n \in Nat, NEW m \in Nat, n < m, NEW byte \in Byte
  PROVE  WithByte(n, byte) \in Nat /\ WithByte(n, byte) < Times(m)
<1>1. byte \in 0 .. Base - 1
  BY DEF Byte
<1>2. (n + 1) * Base <= m * Base
  BY Sizes
<1>3. (n + 1) * Base = n * Base + Base /\ n * Base \in Nat /\ m * Base \in Nat
  BY Sizes
<1> DEFINE nb == n * Base
           mb == m * Base
           sb == (n + 1) * Base
<1>4. nb + byte \in Nat /\ nb + byte < mb
  <2> HIDE DEF nb, mb, sb
  <2>1. sb <= mb /\ sb = nb + Base /\ nb \in Nat /\ mb \in Nat
    BY <1>2, <1>3 DEF nb, mb, sb
  <2> QED BY <1>1, <2>1, Sizes
<1> QED
  BY <1>4 DEF WithByte, Times

\* What Power computes: positive numbers, each the one before it times the base.
LEMMA PowerDef ==
  /\ Power[0] = 1
  /\ \A n \in Nat : Power[n] \in Nat \ {0} /\ Power[n + 1] = Times(Power[n])
<1> DEFINE S == Nat \ {0}
           step == [p \in Nat \X S |-> Times(p[2])]
<1>1. step \in [Nat \X S -> S]
  <2>1. \A n \in S : Times(n) \in S
    BY TimesRange
  <2> QED BY <2>1
<1>2. 1 \in S
  OBVIOUS
<1>3. PICK f : Always(f, S, 1, step)
  <2> HIDE DEF S, step
  <2> QED BY <1>1, <1>2, Recursion
<1>4. f \in [Nat -> S] /\ f[0] = 1 /\ \A n \in Nat : f[n + 1] = Times(f[n])
  BY <1>3 DEF Always
<1>5. f = [n \in Nat |-> IF n = 0 THEN 1 ELSE Times(f[n - 1])]
  <2>1. ASSUME NEW n \in Nat PROVE f[n] = IF n = 0 THEN 1 ELSE Times(f[n - 1])
    <3>1. CASE n = 0
      BY <1>4, <3>1
    <3>2. CASE n # 0
      <4>1. PICK m \in Nat : n = m + 1
        <5>1. n - 1 \in Nat /\ n = (n - 1) + 1
          BY <3>2
        <5> QED BY <5>1
      <4>2. m = n - 1 /\ f[m + 1] = Times(f[m])
        BY <1>4, <4>1
      <4> QED BY <3>2, <4>1, <4>2
    <3> QED BY <3>1, <3>2
  <2> QED BY <1>4, <2>1
<1>6. Power = [n \in Nat |-> IF n = 0 THEN 1 ELSE Times(Power[n - 1])]
  BY <1>5 DEF Power, Times
<1>7. Power[0] = 1
  BY <1>6
<1>8. \A n \in Nat : Power[n + 1] = Times(Power[n])
  <2> TAKE n \in Nat
  <2>1. n + 1 \in Nat /\ n + 1 # 0 /\ (n + 1) - 1 = n
    OBVIOUS
  <2> QED BY <1>6, <2>1
<1> DEFINE Good == {n \in Nat : Power[n] \in Nat \ {0}}
<1>9. 0 \in Good
  BY <1>7
<1>10. ASSUME NEW n \in Nat, n \in Good PROVE n + 1 \in Good
  BY <1>8, <1>10, TimesRange
<1>11. Nat \subseteq Good
  <2> HIDE DEF Good
  <2> QED BY <1>9, <1>10, Induction
<1> QED
  BY <1>7, <1>8, <1>11

\* The loop of the readers: the values of the first 0, 1, ... bytes of a length.
LEMMA ReadUintIs ==
  ASSUME NEW blob \in Seq(Byte), NEW offset \in Nat, offset + Prefix <= Len(blob)
  PROVE  \E v \in [0 .. Prefix -> Nat] :
           /\ v[0] = 0
           /\ \A i \in 0 .. Prefix - 1 : v[i + 1] = WithByte(v[i], blob[offset + i + 1])
           /\ ReadUint(blob, offset) = v[Prefix]
<1> DEFINE step == [p \in Nat \X Nat |->
                      IF p[1] < Prefix THEN WithByte(p[2], blob[offset + p[1] + 1]) ELSE 0]
<1>1. \A i \in 0 .. Prefix - 1 : blob[offset + i + 1] \in Byte
  BY Sizes
<1>2. step \in [Nat \X Nat -> Nat]
  <2>1. ASSUME NEW i \in Nat, NEW n \in Nat, i < Prefix PROVE WithByte(n, blob[offset + i + 1]) \in Nat
    <3>1. n + 1 \in Nat /\ n < n + 1 /\ i \in 0 .. Prefix - 1
      BY <2>1, Sizes
    <3> QED BY <1>1, <3>1, WithByteRange
  <2> QED BY <2>1
<1>3. PICK v : Iterates(v, Prefix, Nat, 0, step)
  <2> HIDE DEF step
  <2> QED BY <1>2, RecursionUpto, Sizes
<1>4. /\ v \in [0 .. Prefix -> Nat] /\ v[0] = 0
      /\ \A i \in 0 .. Prefix - 1 : v[i + 1] = WithByte(v[i], blob[offset + i + 1])
  <2>1. \A i \in 0 .. Prefix - 1 : v[i + 1] = step[<<i, v[i]>>] /\ v \in [0 .. Prefix -> Nat]
    BY <1>3 DEF Iterates
  <2>2. ASSUME NEW i \in 0 .. Prefix - 1 PROVE v[i + 1] = WithByte(v[i], blob[offset + i + 1])
    <3>1. i \in Nat /\ i \in 0 .. Prefix /\ i < Prefix
      BY Sizes
    <3>2. v \in [0 .. Prefix -> Nat] /\ v[i + 1] = step[<<i, v[i]>>]
      BY <2>1
    <3>3. v[i] \in Nat
      BY <3>1, <3>2
    <3> QED BY <3>1, <3>2, <3>3
  <2> HIDE DEF step
  <2> QED BY <1>3, <2>2 DEF Iterates
<1> DEFINE Body(w) == [i \in 0 .. Prefix |-> IF i = 0 THEN 0 ELSE WithByte(w[i - 1], blob[offset + i])]
           value == CHOOSE w : w = Body(w)
<1>5. v = Body(v)
  <2>1. ASSUME NEW i \in 0 .. Prefix
        PROVE  v[i] = IF i = 0 THEN 0 ELSE WithByte(v[i - 1], blob[offset + i])
    <3>1. CASE i = 0
      BY <1>4, <3>1
    <3>2. CASE i # 0
      <4>1. PICK m \in 0 .. Prefix - 1 : i = m + 1
        <5>1. i - 1 \in 0 .. Prefix - 1 /\ i = (i - 1) + 1
          BY <3>2, Sizes
        <5> QED BY <5>1
      <4>2. m = i - 1 /\ v[m + 1] = WithByte(v[m], blob[offset + m + 1]) /\ offset + m + 1 = offset + i
        BY <1>4, <4>1
      <4> QED BY <3>2, <4>1, <4>2
    <3> QED BY <3>1, <3>2
  <2> QED BY <1>4, <2>1
<1>6. value = Body(value)
  <2> HIDE DEF Body
  <2> QED BY <1>5
<1>7. ReadUint(blob, offset) = value[Prefix]
  BY DEF ReadUint
<1> HIDE DEF value
<1> DEFINE Good == {i \in Nat : i <= Prefix => value[i] = v[i]}
<1>8. 0 \in Good
  BY <1>4, <1>6, Sizes
<1>9. ASSUME NEW i \in Nat, i \in Good PROVE i + 1 \in Good
  <2>1. CASE i + 1 <= Prefix
    <3>1. i \in 0 .. Prefix - 1 /\ i + 1 \in 0 .. Prefix /\ i + 1 # 0 /\ (i + 1) - 1 = i
      BY <2>1, Sizes
    <3>2. value[i + 1] = WithByte(value[i], blob[offset + (i + 1)])
      BY <1>6, <3>1
    <3>3. v[i + 1] = WithByte(v[i], blob[offset + i + 1])
      BY <1>4, <3>1
    <3>4. value[i] = v[i]
      BY <1>9, <2>1, Sizes
    <3> QED BY <3>2, <3>3, <3>4
  <2> QED BY <2>1
<1>10. value[Prefix] = v[Prefix]
  <2>1. Nat \subseteq Good
    <3> HIDE DEF Good
    <3> QED BY <1>8, <1>9, Induction
  <2> QED BY <2>1, Sizes
<1> QED
  BY <1>4, <1>7, <1>10

\* A length that is read fits a prefix.
LEMMA ReadUintRange ==
  ASSUME NEW blob \in Seq(Byte), NEW offset \in Nat, offset + Prefix <= Len(blob)
  PROVE  ReadUint(blob, offset) \in 0 .. Words - 1
<1>1. PICK v \in [0 .. Prefix -> Nat] :
           /\ v[0] = 0
           /\ \A i \in 0 .. Prefix - 1 : v[i + 1] = WithByte(v[i], blob[offset + i + 1])
           /\ ReadUint(blob, offset) = v[Prefix]
  BY ReadUintIs
<1> DEFINE Good == {i \in Nat : i <= Prefix => v[i] < Power[i]}
<1>2. 0 \in Good
  <2>1. v[0] = 0 /\ Power[0] = 1
    BY <1>1, PowerDef
  <2> QED BY <2>1
<1>3. ASSUME NEW i \in Nat, i \in Good PROVE i + 1 \in Good
  <2>1. CASE i + 1 <= Prefix
    <3>1. i \in 0 .. Prefix - 1 /\ v[i] < Power[i] /\ v[i] \in Nat
      BY <1>1, <1>3, <2>1, Sizes
    <3>2. blob[offset + i + 1] \in Byte
      BY <3>1, Sizes
    <3>3. v[i + 1] = WithByte(v[i], blob[offset + i + 1]) /\ Power[i + 1] = Times(Power[i]) /\ Power[i] \in Nat
      BY <1>1, <3>1, PowerDef
    <3>4. v[i + 1] < Power[i + 1]
      BY <3>1, <3>2, <3>3, WithByteRange
    <3> QED BY <3>4
  <2> QED BY <2>1
<1>4. Nat \subseteq Good
  <2> HIDE DEF Good
  <2> QED BY <1>2, <1>3, Induction
<1>5. v[Prefix] \in Nat /\ v[Prefix] < Power[Prefix]
  BY <1>4, Sizes
<1>6. Power[Prefix] \in Nat /\ ReadUint(blob, offset) = v[Prefix]
  BY <1>1, PowerDef, Sizes
<1> QED
  BY <1>5, <1>6 DEF Words

\* The remainders of numbers that are less than one width away from 0.
LEMMA Modulo ==
  ASSUME NEW w \in Nat, w > 0, NEW n \in Int
  PROVE  /\ 0 <= n /\ n < w => n % w = n
         /\ -w < n /\ n < 0 => n % w = n + w
<1>1. CASE 0 <= n /\ n < w
  BY <1>1
<1>2. CASE -w < n /\ n < 0
  BY <1>2
<1> QED
  BY <1>1, <1>2

\* The number of lengths, and the half of it that a signed Int can hold.
LEMMA WordsRange == Words \in Nat /\ Words > 0 /\ Words \div 2 \in Nat /\ 2 * (Words \div 2) <= Words
<1>1. Words \in Nat \ {0}
  BY PowerDef, Sizes DEF Words
<1> QED
  BY <1>1

-----------------------------------------------------------------------------
(* The decoders agree *)

\* Kotlin takes the same record at the same place: a length that a signed Int cannot hold, or
\* whose end it cannot, gives an end before the start, and the record is cut off for the others.
LEMMA SignedRead ==
  ASSUME NEW blob \in Seq(Byte), Len(blob) < Words \div 2,
         NEW start \in Nat, start <= Len(blob), NEW len \in 0 .. Words - 1
  PROVE  SignedRecordAt(blob, start, len) = RecordAt(blob, start, len)
<1> DEFINE half == Words \div 2
           size == Len(blob)
           end == SignedInt(start + SignedInt(len))
<1>0. Words \in Nat /\ Words > 0 /\ half \in Nat /\ 2 * half <= Words /\ size \in Nat /\ size < half
  BY WordsRange
<1>1. \A n \in Int : /\ 0 <= n /\ n < Words => n % Words = n
                     /\ -Words < n /\ n < 0 => n % Words = n + Words
  BY <1>0, Modulo
<1>2. ASSUME NEW n \in Int, -Words < n, n < Words
      PROVE  /\ 0 <= n /\ n < half => SignedInt(n) = n
             /\ half <= n => SignedInt(n) = n - Words
             /\ n < 0 /\ n + Words >= half => SignedInt(n) = n
  <2>1. /\ 0 <= n => n % Words = n
        /\ n < 0 => n % Words = n + Words
    BY <1>1, <1>2
  <2> QED BY <1>0, <1>2, <2>1 DEF SignedInt
<1>3. CASE len < half
  <2>1. SignedInt(len) = len /\ start + len \in Int /\ start + len < Words
    BY <1>0, <1>2, <1>3
  <2>2. CASE start + len < half
    <3>1. end = start + len
      BY <1>0, <1>2, <2>1, <2>2
    <3> HIDE DEF end
    <3> QED BY <1>0, <1>3, <3>1 DEF SignedRecordAt, RecordAt, end
  <2>3. CASE start + len >= half
    <3>1. end = start + len - Words
      BY <1>0, <1>2, <2>1, <2>3
    <3>2. end < start /\ start + len > size
      BY <1>0, <2>1, <2>3, <3>1
    <3> QED BY <3>2 DEF SignedRecordAt, RecordAt
  <2> QED BY <1>0, <2>2, <2>3
<1>4. CASE len >= half
  <2>1. SignedInt(len) = len - Words
    BY <1>0, <1>2, <1>4
  <2>2. end = start + (len - Words)
    BY <1>0, <1>2, <1>4, <2>1
  <2>3. end < start /\ start + len > size
    BY <1>0, <1>4, <2>2
  <2> QED BY <2>3 DEF SignedRecordAt, RecordAt
<1> QED
  BY <1>0, <1>3, <1>4

\* The decoders of TypeScript and Swift and the one of Kotlin answer alike on every blob that
\* is shorter than the largest Int, whatever its bytes are.
THEOREM AllDecodersAgree == DecodersAgree
<1> SUFFICES ASSUME NEW blob \in Blobs
             PROVE  DecodeRecordList(blob) = DecodeRecordListKotlin(blob)
  BY DEF DecodersAgree
<1>1. blob \in Seq(Byte) /\ Len(blob) < Words \div 2
  <2>1. PICK n \in 0 .. Words \div 2 - 1 : blob \in [1 .. n -> Byte]
    BY DEF Blobs, BoundedSeq, SeqOf
  <2> QED BY <2>1, WordsRange
<1>2. ASSUME NEW offset \in Offsets(blob)
      PROVE  Records(blob)[offset] = SignedRecords(blob)[offset]
  <2>1. offset \in Nat /\ offset + Prefix \in Nat /\ offset + Prefix <= Len(blob)
    BY <1>1, Sizes DEF Offsets
  <2>2. ReadUint(blob, offset) \in 0 .. Words - 1
    BY <1>1, <2>1, ReadUintRange
  <2>3. SignedRecordAt(blob, offset + Prefix, ReadUint(blob, offset))
          = RecordAt(blob, offset + Prefix, ReadUint(blob, offset))
    BY <1>1, <2>1, <2>2, SignedRead
  <2> QED BY <2>3 DEF Records, SignedRecords
<1>3. Records(blob) = SignedRecords(blob)
  BY <1>2 DEF Records, SignedRecords
<1> QED
  BY <1>3 DEF DecodeRecordList, DecodeRecordListKotlin

-----------------------------------------------------------------------------
(* Lengths are read as they were written *)

\* The last byte of a number and what remains of it.
LEMMA LastByte ==
  ASSUME NEW n \in Nat
  PROVE  /\ n \div Base \in Nat /\ n % Base \in Byte /\ n = WithByte(n \div Base, n % Base)
         /\ \A m \in Nat : n < Times(m) => n \div Base < m
<1>1. n \div Base \in Nat /\ n % Base \in 0 .. Base - 1 /\ n % Base = n - Base * (n \div Base)
  <2>1. n \div Base \in Nat
    BY Sizes
  <2>2. n % Base \in 0 .. Base - 1
    BY Sizes
  <2>3. n % Base = n - Base * (n \div Base)
    BY Sizes
  <2> QED BY <2>1, <2>2, <2>3
<1> DEFINE q == n \div Base
           r == n % Base
<1>2. n = q * Base + r
  <2> HIDE DEF q, r
  <2>1. q \in Nat /\ r \in Int /\ r = n - Base * q
    BY <1>1 DEF q, r
  <2>2. Base * q = q * Base /\ Base * q \in Nat
    BY <2>1, Sizes
  <2> DEFINE bq == Base * q
             qb == q * Base
  <2> HIDE DEF bq, qb
  <2>3. r = n - bq /\ bq = qb /\ bq \in Nat
    BY <2>1, <2>2 DEF bq, qb
  <2>4. n = qb + r
    BY <2>1, <2>3
  <2> QED BY <2>4 DEF qb
<1>3. ASSUME NEW m \in Nat, n < Times(m) PROVE q < m
  <2> HIDE DEF q, r
  <2>1. q \in Nat /\ r \in Nat
    BY <1>1 DEF q, r
  <2>2. m <= q => m * Base <= q * Base
    BY <2>1, Sizes
  <2> DEFINE qb == q * Base
             mb == m * Base
  <2> HIDE DEF qb, mb
  <2>3. (m <= q => mb <= qb) /\ n = qb + r /\ n < mb /\ qb \in Nat /\ mb \in Nat
    <3>1. q * Base \in Nat /\ m * Base \in Nat
      BY <2>1, Sizes
    <3>2. n < m * Base
      BY <1>3 DEF Times
    <3> QED BY <1>2, <2>2, <3>1, <3>2 DEF qb, mb
  <2> QED BY <2>1, <2>3
<1> QED
  BY <1>1, <1>2, <1>3 DEF WithByte, Byte

\* The loop of setUint32: what the shifts leave, and the bytes of a length made of it.
LEMMA UintIs ==
  ASSUME NEW len \in Nat
  PROVE  \E s \in [0 .. Prefix -> Nat] :
           /\ s[0] = len
           /\ \A k \in 0 .. Prefix - 1 : s[k + 1] = s[k] \div Base
           /\ Uint(len) = [i \in 1 .. Prefix |-> s[Prefix - i] % Base]
<1> DEFINE step == [p \in Nat \X Nat |-> p[2] \div Base]
<1>1. step \in [Nat \X Nat -> Nat]
  <2>1. \A n \in Nat : n \div Base \in Nat
    BY LastByte
  <2> QED BY <2>1
<1>2. PICK s : Iterates(s, Prefix, Nat, len, step)
  <2> HIDE DEF step
  <2> QED BY <1>1, RecursionUpto, Sizes
<1>3. /\ s \in [0 .. Prefix -> Nat] /\ s[0] = len
      /\ \A k \in 0 .. Prefix - 1 : s[k + 1] = step[<<k, s[k]>>]
  BY <1>2 DEF Iterates
<1>4. ASSUME NEW k \in 0 .. Prefix - 1 PROVE s[k + 1] = s[k] \div Base
  <2>1. k \in Nat /\ k \in 0 .. Prefix
    BY Sizes
  <2>2. s[k] \in Nat /\ s[k + 1] = step[<<k, s[k]>>]
    BY <1>3, <2>1
  <2> QED BY <2>1, <2>2
<1> DEFINE Body(w) == [k \in 0 .. Prefix |-> IF k = 0 THEN len ELSE w[k - 1] \div Base]
           shifted == CHOOSE w : w = Body(w)
<1>5. s = Body(s)
  <2>1. ASSUME NEW k \in 0 .. Prefix PROVE s[k] = IF k = 0 THEN len ELSE s[k - 1] \div Base
    <3>1. CASE k = 0
      BY <1>3, <3>1
    <3>2. CASE k # 0
      <4>1. PICK m \in 0 .. Prefix - 1 : k = m + 1
        <5>1. k - 1 \in 0 .. Prefix - 1 /\ k = (k - 1) + 1
          BY <3>2, Sizes
        <5> QED BY <5>1
      <4>2. m = k - 1 /\ s[m + 1] = s[m] \div Base
        BY <1>4, <4>1
      <4> QED BY <3>2, <4>1, <4>2
    <3> QED BY <3>1, <3>2
  <2> QED BY <1>3, <2>1
<1>6. shifted = Body(shifted)
  <2> HIDE DEF Body
  <2> QED BY <1>5
<1>7. Uint(len) = [i \in 1 .. Prefix |-> shifted[Prefix - i] % Base]
  BY DEF Uint
<1> HIDE DEF shifted
<1> DEFINE Good == {k \in Nat : k <= Prefix => shifted[k] = s[k]}
<1>8. 0 \in Good
  BY <1>3, <1>6, Sizes
<1>9. ASSUME NEW k \in Nat, k \in Good PROVE k + 1 \in Good
  <2>1. CASE k + 1 <= Prefix
    <3>1. k \in 0 .. Prefix - 1 /\ k + 1 \in 0 .. Prefix /\ k + 1 # 0 /\ (k + 1) - 1 = k
      BY <2>1, Sizes
    <3>2. shifted[k + 1] = shifted[k] \div Base
      BY <1>6, <3>1
    <3>3. s[k + 1] = s[k] \div Base
      BY <1>4, <3>1
    <3>4. shifted[k] = s[k]
      BY <1>9, <2>1, Sizes
    <3> QED BY <3>2, <3>3, <3>4
  <2> QED BY <2>1
<1>10. \A k \in 0 .. Prefix : shifted[k] = s[k]
  <2>1. Nat \subseteq Good
    <3> HIDE DEF Good
    <3> QED BY <1>8, <1>9, Induction
  <2> QED BY <2>1, Sizes
<1>11. \A i \in 1 .. Prefix : shifted[Prefix - i] = s[Prefix - i]
  BY <1>10, Sizes
<1>12. Uint(len) = [i \in 1 .. Prefix |-> s[Prefix - i] % Base]
  BY <1>7, <1>11
<1> QED
  BY <1>3, <1>4, <1>12

\* The readers read the length that setUint32 wrote.
LEMMA ReadBack ==
  ASSUME NEW blob \in Seq(Byte), NEW offset \in Nat, offset + Prefix <= Len(blob),
         NEW len \in Nat, len < Words,
         \A i \in 1 .. Prefix : blob[offset + i] = Uint(len)[i]
  PROVE  ReadUint(blob, offset) = len
<1>1. PICK s \in [0 .. Prefix -> Nat] :
           /\ s[0] = len
           /\ \A k \in 0 .. Prefix - 1 : s[k + 1] = s[k] \div Base
           /\ Uint(len) = [i \in 1 .. Prefix |-> s[Prefix - i] % Base]
  BY UintIs
<1>2. PICK v \in [0 .. Prefix -> Nat] :
           /\ v[0] = 0
           /\ \A i \in 0 .. Prefix - 1 : v[i + 1] = WithByte(v[i], blob[offset + i + 1])
           /\ ReadUint(blob, offset) = v[Prefix]
  BY ReadUintIs
<1>3. s[Prefix] = 0
  <2> DEFINE Good == {k \in Nat : k <= Prefix => s[k] < Power[Prefix - k]}
  <2>1. 0 \in Good
    BY <1>1, Sizes DEF Words
  <2>2. ASSUME NEW k \in Nat, k \in Good PROVE k + 1 \in Good
    <3>1. CASE k + 1 <= Prefix
      <4>1. k \in 0 .. Prefix - 1 /\ k \in 0 .. Prefix
        BY <3>1, Sizes
      <4>2. s[k] < Power[Prefix - k]
        BY <2>2, <3>1, Sizes
      <4>3. PICK m \in Nat : Prefix - k = m + 1 /\ m = Prefix - (k + 1)
        <5>1. Prefix - (k + 1) \in Nat /\ Prefix - k = (Prefix - (k + 1)) + 1
          BY <3>1, Sizes
        <5> QED BY <5>1
      <4>4. Power[m + 1] = Times(Power[m]) /\ Power[m] \in Nat
        BY PowerDef
      <4>5. s[k] \in Nat /\ s[k] < Times(Power[m])
        BY <4>1, <4>2, <4>3, <4>4
      <4>6. s[k] \div Base < Power[m]
        BY <4>4, <4>5, LastByte
      <4>7. s[k + 1] < Power[Prefix - (k + 1)]
        BY <1>1, <4>1, <4>3, <4>6
      <4> QED BY <4>7
    <3> QED BY <3>1
  <2>3. Nat \subseteq Good
    <3> HIDE DEF Good
    <3> QED BY <2>1, <2>2, Induction
  <2>4. s[Prefix] < Power[0]
    <3>1. Prefix - Prefix = 0
      BY Sizes
    <3>2. Prefix \in Nat
      BY Sizes
    <3>3. s[Prefix] < Power[Prefix - Prefix]
      BY <2>3, <3>2
    <3> QED BY <3>1, <3>3
  <2>5. Power[0] = 1 /\ s[Prefix] \in Nat
    BY PowerDef, Sizes
  <2> QED BY <2>4, <2>5
<1> DEFINE Good == {i \in Nat : i <= Prefix => v[i] = s[Prefix - i]}
<1>4. 0 \in Good
  <2>1. Prefix - 0 = Prefix
    BY Sizes
  <2> QED BY <1>2, <1>3, <2>1
<1>5. ASSUME NEW i \in Nat, i \in Good PROVE i + 1 \in Good
  <2>1. CASE i + 1 <= Prefix
    <3>1. v[i] = s[Prefix - i] /\ i \in 0 .. Prefix - 1 /\ i + 1 \in 1 .. Prefix
      BY <1>5, <2>1, Sizes
    <3>2. PICK m \in 0 .. Prefix - 1 : m = Prefix - (i + 1) /\ Prefix - i = m + 1
      <4>1. Prefix - (i + 1) \in 0 .. Prefix - 1 /\ Prefix - i = (Prefix - (i + 1)) + 1
        BY <2>1, Sizes
      <4> QED BY <4>1
    <3>3. s[m + 1] = s[m] \div Base /\ s[m] \in Nat
      <4>1. m \in 0 .. Prefix
        BY <3>2, Sizes
      <4> QED BY <1>1, <3>2, <4>1
    <3>4. Uint(len)[i + 1] = s[m] % Base
      BY <1>1, <3>1, <3>2
    <3>5. offset + i + 1 = offset + (i + 1)
      BY <3>1
    <3>6. v[i + 1] = WithByte(v[i], blob[offset + i + 1]) /\ blob[offset + i + 1] = s[m] % Base
      BY <1>2, <3>1, <3>4, <3>5
    <3>7. s[m] = WithByte(s[m] \div Base, s[m] % Base)
      BY <3>3, LastByte
    <3>8. v[i + 1] = s[m]
      BY <3>1, <3>2, <3>3, <3>6, <3>7
    <3> QED BY <3>2, <3>8
  <2> QED BY <2>1
<1>6. v[Prefix] = s[0]
  <2>1. Nat \subseteq Good
    <3> HIDE DEF Good
    <3> QED BY <1>4, <1>5, Induction
  <2>2. Prefix - Prefix = 0 /\ Prefix \in Nat
    BY Sizes
  <2> QED BY <2>1, <2>2
<1> QED
  BY <1>1, <1>2, <1>6

\* A length takes Prefix bytes.
LEMMA UintType ==
  ASSUME NEW len \in Nat
  PROVE  Uint(len) \in Seq(Byte) /\ Len(Uint(len)) = Prefix
<1>1. PICK s \in [0 .. Prefix -> Nat] : Uint(len) = [i \in 1 .. Prefix |-> s[Prefix - i] % Base]
  BY UintIs
<1>2. \A i \in 1 .. Prefix : s[Prefix - i] % Base \in Byte
  <2> TAKE i \in 1 .. Prefix
  <2>1. Prefix - i \in 0 .. Prefix
    BY Sizes
  <2>2. s[Prefix - i] \in Nat
    BY <2>1
  <2> QED BY <2>2, LastByte
<1>3. Uint(len) \in [1 .. Prefix -> Byte]
  BY <1>1, <1>2
<1> QED
  BY <1>3, Sizes

-----------------------------------------------------------------------------
(* Records are read as they were written *)

\* A list of records whose lengths fit a prefix.
Framed(records) ==
  records \in Seq(Seq(Byte)) /\ \A n \in 1 .. Len(records) : Len(records[n]) < Words

\* The loop of encodeRecordList: the blobs of the first 0, 1, ... records.
LEMMA EncodeIs ==
  ASSUME NEW records, Framed(records)
  PROVE  \E out \in [0 .. Len(records) -> Seq(Byte)] :
           /\ out[0] = <<>>
           /\ \A n \in 0 .. Len(records) - 1 :
                out[n + 1] = out[n] \o Uint(Len(records[n + 1])) \o records[n + 1]
           /\ EncodeRecordList(records) = out[Len(records)]
<1> DEFINE size == Len(records)
           S == Seq(Byte)
           step == [p \in Nat \X S |->
                      IF p[1] < size THEN p[2] \o Uint(Len(records[p[1] + 1])) \o records[p[1] + 1]
                      ELSE <<>>]
<1>0. size \in Nat /\ \A n \in 1 .. size : records[n] \in S /\ Len(records[n]) \in Nat
  BY DEF Framed
<1>1. \A n \in 1 .. size : Uint(Len(records[n])) \in S
  BY <1>0, UintType
<1>2. step \in [Nat \X S -> S]
  <2>1. ASSUME NEW n \in Nat, NEW b \in S, n < size
        PROVE  b \o Uint(Len(records[n + 1])) \o records[n + 1] \in S
    <3>1. n + 1 \in 1 .. size
      BY <1>0, <2>1
    <3>2. records[n + 1] \in Seq(Byte) /\ Uint(Len(records[n + 1])) \in Seq(Byte)
      BY <1>0, <1>1, <3>1
    <3> QED BY <3>2
  <2>2. <<>> \in S
    OBVIOUS
  <2> HIDE DEF S, size
  <2> QED BY <2>1, <2>2
<1>3. PICK out : Iterates(out, size, S, <<>>, step)
  <2>1. <<>> \in S
    OBVIOUS
  <2> HIDE DEF step, S, size
  <2> QED BY <1>0, <1>2, <2>1, RecursionUpto
<1>4. /\ out \in [0 .. size -> S] /\ out[0] = <<>>
      /\ \A n \in 0 .. size - 1 : out[n + 1] = step[<<n, out[n]>>]
  <2> HIDE DEF step, S, size
  <2> QED BY <1>3 DEF Iterates
<1>5. ASSUME NEW n \in 0 .. size - 1
      PROVE  out[n + 1] = out[n] \o Uint(Len(records[n + 1])) \o records[n + 1]
  <2>1. n \in Nat /\ n \in 0 .. size /\ n < size
    BY <1>0
  <2>2. out[n] \in S /\ out[n + 1] = step[<<n, out[n]>>]
    <3> HIDE DEF step, S, size
    <3> QED BY <1>4, <1>5, <2>1
  <2> HIDE DEF S, size
  <2> QED BY <2>1, <2>2
<1> DEFINE Body(w) == [n \in 0 .. size |->
                        IF n = 0 THEN <<>>
                        ELSE w[n - 1] \o Uint(Len(records[n])) \o records[n]]
           encoded == CHOOSE w : w = Body(w)
<1>6. out = Body(out)
  <2>1. ASSUME NEW n \in 0 .. size
        PROVE  out[n] = IF n = 0 THEN <<>>
                        ELSE out[n - 1] \o Uint(Len(records[n])) \o records[n]
    <3>1. CASE n = 0
      BY <1>4, <3>1
    <3>2. CASE n # 0
      <4>1. PICK m \in 0 .. size - 1 : n = m + 1 /\ m = n - 1
        <5>1. n - 1 \in 0 .. size - 1 /\ n = (n - 1) + 1
          BY <1>0, <3>2
        <5> QED BY <5>1
      <4>2. out[m + 1] = out[m] \o Uint(Len(records[m + 1])) \o records[m + 1]
        BY <1>5
      <4> HIDE DEF size
      <4> QED BY <3>2, <4>1, <4>2
    <3> QED BY <3>1, <3>2
  <2> HIDE DEF S, size
  <2> QED BY <1>4, <2>1
<1>7. encoded = Body(encoded)
  <2> HIDE DEF Body
  <2> QED BY <1>6
<1>8. EncodeRecordList(records) = encoded[size]
  BY DEF EncodeRecordList
<1> HIDE DEF encoded
<1> DEFINE Good == {n \in Nat : n <= size => encoded[n] = out[n]}
<1>9. 0 \in Good
  BY <1>0, <1>4, <1>7
<1>10. ASSUME NEW n \in Nat, n \in Good PROVE n + 1 \in Good
  <2>1. CASE n + 1 <= size
    <3> HIDE DEF size
    <3>1. n \in 0 .. size - 1 /\ n + 1 \in 0 .. size /\ n + 1 # 0 /\ (n + 1) - 1 = n
      BY <1>0, <2>1
    <3>2. encoded[n + 1] = encoded[n] \o Uint(Len(records[n + 1])) \o records[n + 1]
      BY <1>7, <3>1
    <3>3. out[n + 1] = out[n] \o Uint(Len(records[n + 1])) \o records[n + 1]
      BY <1>5, <3>1
    <3>4. encoded[n] = out[n]
      BY <1>0, <1>10, <2>1
    <3>5. encoded[n + 1] = out[n + 1]
      BY <3>2, <3>3, <3>4, Zenon
    <3> QED BY <3>5
  <2> QED BY <2>1
<1>11. encoded[size] = out[size]
  <2>1. Nat \subseteq Good
    <3> HIDE DEF Good
    <3> QED BY <1>9, <1>10, Induction
  <2>2. size \in Nat
    BY <1>0
  <2> HIDE DEF size
  <2> QED BY <2>1, <2>2
<1> QED
  BY <1>4, <1>5, <1>8, <1>11

\* c is a, then b.
Joins(c, a, b, S) ==
  /\ c \in Seq(S) /\ Len(c) = Len(a) + Len(b)
  /\ Len(a) \in Nat /\ Len(b) \in Nat
  /\ \A i \in 1 .. Len(a) : c[i] = a[i]
  /\ \A i \in 1 .. Len(b) : c[Len(a) + i] = b[i]

\* What concatenation does, in one predicate.
LEMMA Concat ==
  ASSUME NEW S, NEW a \in Seq(S), NEW b \in Seq(S)
  PROVE  Joins(a \o b, a, b, S)
BY DEF Joins

\* It is associative.
LEMMA ConcatAssoc ==
  ASSUME NEW a \in Seq(Byte), NEW b \in Seq(Byte), NEW c \in Seq(Byte)
  PROVE  (a \o b) \o c = a \o (b \o c)
<1> DEFINE left == (a \o b) \o c
           right == a \o (b \o c)
<1>1. /\ left \in Seq(Byte) /\ right \in Seq(Byte)
      /\ Len(left) = Len(a) + Len(b) + Len(c) /\ Len(right) = Len(left)
      /\ Len(a) \in Nat /\ Len(b) \in Nat /\ Len(c) \in Nat
  OBVIOUS
<1>2. ASSUME NEW i \in 1 .. Len(left) PROVE left[i] = right[i]
  OBVIOUS
<1> HIDE DEF left, right
<1>3. left = right
  BY <1>1, <1>2
<1> QED
  BY <1>3 DEF left, right

\* What is written stays: longer starts with all of blob.
Continues(longer, blob) ==
  Len(blob) <= Len(longer) /\ \A j \in 1 .. Len(blob) : longer[j] = blob[j]

\* A blob with something behind it starts with the blob.
LEMMA AppendContinues ==
  ASSUME NEW blob \in Seq(Byte), NEW end \in Seq(Byte)
  PROVE  Continues(blob \o end, blob)
BY DEF Continues

\* Starting with is transitive.
LEMMA ContinuesTrans ==
  ASSUME NEW a \in Seq(Byte), NEW b \in Seq(Byte), NEW c \in Seq(Byte),
         Continues(b, a), Continues(c, b)
  PROVE  Continues(c, a)
<1>1. Len(a) \in Nat /\ Len(b) \in Nat /\ Len(c) \in Nat
  OBVIOUS
<1> QED
  BY <1>1 DEF Continues

\* The blobs the encoder builds, one record after another.
Builds(out, records) ==
  /\ out \in [0 .. Len(records) -> Seq(Byte)] /\ out[0] = <<>>
  /\ \A n \in 0 .. Len(records) - 1 :
       out[n + 1] = out[n] \o Uint(Len(records[n + 1])) \o records[n + 1]

\* In the encoded list, the record after the first n is where the blob of the first n ends.
LEMMA RecordInBlob ==
  ASSUME NEW records, Framed(records), NEW out, Builds(out, records),
         NEW n \in 0 .. Len(records) - 1, NEW blob, blob = out[Len(records)]
  PROVE  /\ Len(out[n]) \in Offsets(blob)
         /\ Records(blob)[Len(out[n])] = records[n + 1]
         /\ Len(out[n + 1]) = Len(out[n]) + Prefix + Len(records[n + 1])
<1> DEFINE size == Len(records)
           record == records[n + 1]
           len == Len(record)
           offset == Len(out[n])
           start == offset + Prefix
<1>0. size \in Nat /\ n \in Nat /\ n + 1 \in 1 .. size /\ n \in 0 .. size /\ n + 1 \in 0 .. size
  BY DEF Framed
<1>1. record \in Seq(Byte) /\ len \in Nat /\ len < Words
  BY <1>0 DEF Framed
<1>2. Uint(len) \in Seq(Byte) /\ Len(Uint(len)) = Prefix
  BY <1>1, UintType
<1>3. \A m \in 0 .. size : out[m] \in Seq(Byte)
  BY DEF Builds
<1>4. blob \in Seq(Byte) /\ out[n] \in Seq(Byte) /\ out[n + 1] \in Seq(Byte) /\ offset \in Nat
  <2>1. size \in 0 .. size
    BY <1>0
  <2>2. out[n] \in Seq(Byte) /\ out[n + 1] \in Seq(Byte) /\ blob \in Seq(Byte)
    BY <1>0, <1>3, <2>1
  <2> QED BY <2>2
<1>5. out[n + 1] = out[n] \o Uint(len) \o record
  BY DEF Builds
<1>6. /\ Len(out[n + 1]) = start + len
      /\ \A i \in 1 .. Prefix : out[n + 1][offset + i] = Uint(len)[i]
      /\ \A i \in 1 .. len : out[n + 1][start + i] = record[i]
  <2> DEFINE both == out[n] \o Uint(len)
  <2>1. /\ both \in Seq(Byte) /\ Len(both) = offset + Prefix
        /\ \A i \in 1 .. Prefix : both[offset + i] = Uint(len)[i]
    <3> DEFINE prefix == Uint(len)
    <3>1. prefix \in Seq(Byte) /\ Len(prefix) = Prefix /\ out[n] \in Seq(Byte)
      BY <1>2, <1>4
    <3> HIDE DEF prefix
    <3>2. /\ out[n] \o prefix \in Seq(Byte) /\ Len(out[n] \o prefix) = Len(out[n]) + Len(prefix)
          /\ \A i \in 1 .. Len(prefix) : (out[n] \o prefix)[Len(out[n]) + i] = prefix[i]
      <4>1. Joins(out[n] \o prefix, out[n], prefix, Byte)
        BY <3>1, Concat
      <4> DEFINE c == out[n] \o prefix
      <4> HIDE DEF c
      <4>2. Joins(c, out[n], prefix, Byte)
        BY <4>1 DEF c
      <4>3. c \in Seq(Byte) /\ Len(c) = Len(out[n]) + Len(prefix)
            /\ \A i \in 1 .. Len(prefix) : c[Len(out[n]) + i] = prefix[i]
        BY <4>2 DEF Joins
      <4> QED BY <4>3 DEF c
    <3> QED BY <3>1, <3>2 DEF prefix
  <2>2. out[n + 1] = both \o record
    BY <1>5
  <2>3. /\ Len(out[n + 1]) = Len(both) + len
        /\ \A i \in 1 .. Len(both) : out[n + 1][i] = both[i]
        /\ \A i \in 1 .. len : out[n + 1][Len(both) + i] = record[i]
    <3>1. record \in Seq(Byte) /\ both \in Seq(Byte) /\ out[n + 1] = both \o record
      BY <1>1, <2>1, <2>2
    <3> HIDE DEF record, both
    <3>2. Joins(out[n + 1], both, record, Byte)
      BY <3>1, Concat
    <3> QED BY <3>2 DEF Joins, record
  <2> HIDE DEF record, both
  <2>4. \A i \in 1 .. Prefix : offset + i \in 1 .. Len(both)
    BY <1>4, <2>1, Sizes
  <2> QED BY <2>1, <2>3, <2>4
<1>7. Continues(blob, out[n + 1])
  <2> DEFINE Good == {m \in Nat : n + 1 + m <= size => Continues(out[n + 1 + m], out[n + 1])}
  <2>1. 0 \in Good
    <3>1. n + 1 + 0 = n + 1
      BY <1>0
    <3>2. Continues(out[n + 1], out[n + 1])
      BY <1>4 DEF Continues
    <3> QED BY <3>1, <3>2
  <2>2. ASSUME NEW m \in Nat, m \in Good PROVE m + 1 \in Good
    <3>1. CASE n + 1 + (m + 1) <= size
      <4> DEFINE k == n + 1 + m
      <4>1. k \in 0 .. size - 1 /\ k \in 0 .. size /\ k + 1 \in 1 .. size /\ n + 1 + (m + 1) = k + 1
        BY <1>0, <3>1
      <4>2. Continues(out[k], out[n + 1])
        BY <1>0, <2>2, <4>1
      <4> HIDE DEF k, Good
      <4>3. k + 1 \in 0 .. size
        BY <1>0, <4>1
      <4>4. out[k] \in Seq(Byte) /\ out[k + 1] \in Seq(Byte)
        BY <1>3, <4>1, <4>3
      <4> DEFINE next == records[k + 1]
      <4>5. next \in Seq(Byte) /\ Len(next) \in Nat
        BY <4>1 DEF Framed
      <4>6. Uint(Len(next)) \in Seq(Byte)
        BY <4>5, UintType
      <4>7. out[k + 1] = out[k] \o Uint(Len(next)) \o next
        BY <4>1 DEF Builds
      <4> HIDE DEF next
      <4>8. Uint(Len(next)) \o next \in Seq(Byte)
        BY <4>5, <4>6
      <4>9. out[k + 1] = out[k] \o (Uint(Len(next)) \o next)
        BY <4>4, <4>5, <4>6, <4>7, ConcatAssoc
      <4>10. Continues(out[k + 1], out[k])
        BY <4>4, <4>8, <4>9, AppendContinues
      <4>11. Continues(out[k + 1], out[n + 1])
        BY <1>4, <4>2, <4>4, <4>10, ContinuesTrans
      <4> QED BY <4>1, <4>11 DEF Good
    <3> QED BY <3>1
  <2>3. Nat \subseteq Good
    <3> HIDE DEF Good
    <3> QED BY <2>1, <2>2, Induction
  <2>4. PICK m \in Nat : n + 1 + m = size
    <3>1. size - (n + 1) \in Nat /\ n + 1 + (size - (n + 1)) = size
      BY <1>0
    <3> QED BY <3>1
  <2>5. Continues(out[n + 1 + m], out[n + 1])
    <3>1. m \in Good /\ n + 1 + m <= size
      BY <1>0, <2>3, <2>4
    <3> QED BY <3>1
  <2> QED BY <2>4, <2>5
<1>8. /\ start \in Nat /\ start + len <= Len(blob)
      /\ \A i \in 1 .. Prefix : blob[offset + i] = Uint(len)[i]
      /\ \A i \in 1 .. len : blob[start + i] = record[i]
  <2> HIDE DEF record
  <2>1. start \in Nat /\ offset \in Nat /\ len \in Nat /\ Len(blob) \in Nat /\ Prefix \in Nat
    BY <1>1, <1>4, Sizes
  <2>2. \A j \in 1 .. start + len : blob[j] = out[n + 1][j]
    BY <1>6, <1>7, <2>1 DEF Continues
  <2>3. start + len <= Len(blob)
    BY <1>6, <1>7 DEF Continues
  <2>4. \A i \in 1 .. Prefix : offset + i \in 1 .. start + len
    BY <2>1
  <2>5. \A i \in 1 .. len : start + i \in 1 .. start + len
    BY <2>1
  <2> QED BY <1>6, <2>1, <2>2, <2>3, <2>4, <2>5
<1>9. offset + Prefix <= Len(blob) /\ offset \in Offsets(blob)
  <2> HIDE DEF record
  <2>1. offset \in Nat /\ start \in Nat /\ len \in Nat /\ Len(blob) \in Nat
    BY <1>1, <1>4, <1>8
  <2> QED BY <1>8, <2>1, Sizes DEF Offsets
<1>10. ReadUint(blob, offset) = len
  <2> HIDE DEF record, offset
  <2> QED BY <1>1, <1>4, <1>8, <1>9, ReadBack
<1>11. Records(blob)[offset] = RecordAt(blob, start, len)
  BY <1>9, <1>10 DEF Records
<1>12. RecordAt(blob, start, len) = SubSeq(blob, start + 1, start + len)
  <2> HIDE DEF record, start
  <2>1. start \in Nat /\ len \in Nat /\ Len(blob) \in Nat /\ start + len <= Len(blob)
    BY <1>1, <1>4, <1>8
  <2>2. ~(start + len > Len(blob)) /\ (start + len < Len(blob) \/ start + len = Len(blob))
    BY <2>1
  <2> QED BY <2>2 DEF RecordAt, Slice
<1>13. SubSeq(blob, start + 1, start + len) = record
  <2> DEFINE part == SubSeq(blob, start + 1, start + len)
  <2> HIDE DEF record, start
  <2>1. start \in Nat /\ len \in Nat /\ Len(blob) \in Nat /\ start + len <= Len(blob)
    BY <1>1, <1>4, <1>8
  <2>2. part = [i \in 1 .. len |-> blob[start + i]]
    <3>1. start + len - (start + 1) + 1 = len /\ \A i \in 1 .. len : start + 1 + i - 1 = start + i
      BY <2>1
    <3>2. part \in Seq(Byte) /\ Len(part) = len
      BY <1>4, <2>1, <3>1
    <3>3. \A i \in 1 .. len : part[i] = blob[start + i]
      BY <1>4, <2>1, <3>1
    <3> HIDE DEF part
    <3> QED BY <2>1, <3>2, <3>3
  <2>3. record = [i \in 1 .. len |-> record[i]]
    BY <1>1
  <2>4. \A i \in 1 .. len : blob[start + i] = record[i]
    BY <1>8
  <2> HIDE DEF part
  <2>5. part = record
    BY <2>2, <2>3, <2>4
  <2> QED BY <2>5 DEF part
<1> QED
  BY <1>6, <1>9, <1>11, <1>12, <1>13

\* from is what the decoder reads at each offset.
Decodes(blob, records, from) ==
  \A offset \in 0 .. Len(blob) :
    from[offset] =
      IF offset = Len(blob) THEN <<>>
      ELSE IF offset \notin Offsets(blob) \/ records[offset] = Error THEN <<Error>>
      ELSE <<records[offset]>> \o from[offset + Prefix + Len(records[offset])]

\* The recursion of decodeRecordList is well defined: a record that is not an error ends
\* later than it starts and within the blob.
LEMMA DecodeIs ==
  ASSUME NEW blob \in Seq(Byte), NEW records,
         \A offset \in Offsets(blob) :
           \/ records[offset] = Error
           \/ offset + Prefix + Len(records[offset]) \in offset + 1 .. Len(blob)
  PROVE  \E from : Decode(blob, records) = from[0] /\ Decodes(blob, records, from)
<1> DEFINE size == Len(blob)
           Next(w, offset) ==
             IF offset = size THEN <<>>
             ELSE IF offset \notin Offsets(blob) \/ records[offset] = Error THEN <<Error>>
             ELSE <<records[offset]>> \o w[offset + Prefix + Len(records[offset])]
           FromOn(f, m) == \A offset \in size - m .. size : f[offset] = Next(f, offset)
           Good == {m \in Nat : m <= size => \E f : FromOn(f, m)}
<1>0. size \in Nat
  OBVIOUS
<1>1. \A f, g, offset :
        (/\ offset \in 0 .. size
         /\ \A later \in offset + 1 .. size : g[later] = f[later]) => Next(g, offset) = Next(f, offset)
  <2> TAKE f, g, offset
  <2> SUFFICES ASSUME offset \in 0 .. size, \A later \in offset + 1 .. size : g[later] = f[later]
               PROVE  Next(g, offset) = Next(f, offset)
    OBVIOUS
  <2> HIDE DEF size
  <2>1. CASE offset = size \/ offset \notin Offsets(blob) \/ records[offset] = Error
    BY <2>1
  <2>2. CASE ~(offset = size \/ offset \notin Offsets(blob) \/ records[offset] = Error)
    <3>1. offset + Prefix + Len(records[offset]) \in offset + 1 .. size
      BY <2>2 DEF size
    <3> QED BY <2>2, <3>1
  <2> QED BY <2>1, <2>2
<1>2. Nat \subseteq Good
  <2>1. 0 \in Good
    <3> DEFINE g == [offset \in {size} |-> <<>>]
    <3>1. g[size] = <<>>
      OBVIOUS
    <3>2. FromOn(g, 0)
      <4> TAKE offset \in size - 0 .. size
      <4>1. offset = size
        BY <1>0
      <4> HIDE DEF g
      <4> QED BY <3>1, <4>1
    <3> HIDE DEF FromOn
    <3> QED BY <3>2
  <2>2. ASSUME NEW m \in Nat, m \in Good PROVE m + 1 \in Good
    <3>1. CASE m + 1 <= size
      <4>1. PICK f : FromOn(f, m)
        <5> HIDE DEF FromOn
        <5> QED BY <1>0, <2>2, <3>1
      <4> DEFINE first == size - (m + 1)
                 g == [offset \in first .. size |-> IF offset = first THEN Next(f, first) ELSE f[offset]]
      <4>2. first \in 0 .. size /\ first \in Int /\ size - m = first + 1
        BY <1>0, <3>1
      <4> HIDE DEF first, Next
      <4>3. g[first] = Next(f, first) /\ \A offset \in first + 1 .. size : g[offset] = f[offset]
        BY <1>0, <4>2
      <4> HIDE DEF g
      <4>4. Next(g, first) = Next(f, first)
        BY <1>1, <4>2, <4>3
      <4>5. ASSUME NEW offset \in first + 1 .. size PROVE g[offset] = Next(g, offset)
        <5>1. offset \in 0 .. size /\ \A later \in offset + 1 .. size : later \in first + 1 .. size
          BY <1>0, <4>2
        <5>2. Next(g, offset) = Next(f, offset)
          BY <1>1, <4>3, <5>1
        <5>3. f[offset] = Next(f, offset)
          BY <4>1, <4>2
        <5> QED BY <4>3, <5>2, <5>3
      <4>6. \A offset \in first .. size : offset = first \/ offset \in first + 1 .. size
        BY <1>0, <4>2
      <4>7. FromOn(g, m + 1)
        BY <4>3, <4>4, <4>5, <4>6 DEF first
      <4> HIDE DEF FromOn
      <4> QED BY <4>7
    <3> HIDE DEF FromOn
    <3> QED BY <3>1
  <2> HIDE DEF Good
  <2> QED BY <2>1, <2>2, Induction
<1>3. PICK f : FromOn(f, size)
  <2> HIDE DEF FromOn
  <2> QED BY <1>0, <1>2
<1> DEFINE g == [offset \in 0 .. size |-> f[offset]]
           Body(w) == [offset \in 0 .. size |-> Next(w, offset)]
           from == CHOOSE w : w = Body(w)
<1>4. \A offset \in 0 .. size : f[offset] = Next(f, offset)
  <2>1. size - size = 0
    BY <1>0
  <2> HIDE DEF Next
  <2> QED BY <1>3, <2>1
<1>5. ASSUME NEW offset \in 0 .. size PROVE g[offset] = Next(g, offset)
  <2>1. \A later \in offset + 1 .. size : g[later] = f[later]
    BY <1>0
  <2>2. g[offset] = f[offset]
    OBVIOUS
  <2> HIDE DEF g, Next
  <2>3. Next(g, offset) = Next(f, offset)
    BY <1>1, <2>1
  <2> QED BY <1>4, <2>2, <2>3
<1>6. g = Body(g)
  <2> HIDE DEF Next
  <2>1. g = [offset \in 0 .. size |-> g[offset]]
    OBVIOUS
  <2> HIDE DEF g
  <2> QED BY <1>5, <2>1
<1>7. from = Body(from)
  <2> HIDE DEF Body
  <2> QED BY <1>6
<1>8. Decode(blob, records) = from[0]
  BY DEF Decode
<1> HIDE DEF from
<1>9. \A offset \in 0 .. size : from[offset] = Next(from, offset)
  BY <1>7
<1>10. Decodes(blob, records, from)
  BY <1>9 DEF Decodes
<1> QED
  BY <1>8, <1>10

\* Such are the records that TypeScript and Swift read.
LEMMA RecordFits ==
  ASSUME NEW blob \in Seq(Byte), NEW offset \in Offsets(blob)
  PROVE  \/ Records(blob)[offset] = Error
         \/ offset + Prefix + Len(Records(blob)[offset]) \in offset + 1 .. Len(blob)
<1> DEFINE start == offset + Prefix
           len == ReadUint(blob, offset)
<1>1. offset \in Nat /\ start \in Nat /\ start <= Len(blob) /\ Len(blob) \in Nat
  BY Sizes DEF Offsets
<1>2. len \in Nat
  <2>1. len \in 0 .. Words - 1
    BY <1>1, ReadUintRange
  <2> QED BY <2>1, WordsRange
<1>3. Records(blob)[offset] = RecordAt(blob, start, len)
  BY DEF Records
<1> HIDE DEF len
<1>4. CASE start + len > Len(blob)
  BY <1>3, <1>4 DEF RecordAt
<1>5. CASE start + len <= Len(blob)
  <2>1. Records(blob)[offset] = SubSeq(blob, start + 1, start + len)
    <3> HIDE DEF start
    <3>1. ~(start + len > Len(blob)) /\ (start + len < Len(blob) \/ start + len = Len(blob))
      BY <1>1, <1>2, <1>5
    <3> QED BY <1>3, <3>1 DEF RecordAt, Slice
  <2>2. Len(SubSeq(blob, start + 1, start + len)) = len
    <3> HIDE DEF start
    <3>1. start + 1 \in Int /\ start + len \in Int
      BY <1>1, <1>2
    <3> QED BY <1>1, <1>2, <1>5, <3>1
  <2>3. start + len \in offset + 1 .. Len(blob)
    BY <1>1, <1>2, <1>5, Sizes
  <2> QED BY <2>1, <2>2, <2>3
<1> QED
  BY <1>1, <1>2, <1>4, <1>5

\* A list with one more record in front.
LEMMA Prepend ==
  ASSUME NEW S, NEW first \in S, NEW tail \in Seq(S), NEW k \in Nat, Len(tail) = k
  PROVE  LET joined == <<first>> \o tail
         IN  /\ joined \in Seq(S) /\ Len(joined) = k + 1 /\ joined[1] = first
             /\ \A i \in 1 .. k + 1 : i # 1 => joined[i] = tail[i - 1]
<1> DEFINE head == <<first>>
           joined == head \o tail
<1>1. head \in Seq(S) /\ Len(head) = 1 /\ head[1] = first
  OBVIOUS
<1> HIDE DEF head
<1>2. /\ joined \in Seq(S) /\ Len(joined) = 1 + k
      /\ joined[1] = head[1] /\ \A i \in 1 .. k : joined[1 + i] = tail[i]
  <2>1. /\ joined \in Seq(S) /\ Len(joined) = Len(head) + Len(tail)
        /\ \A i \in 1 .. Len(head) : joined[i] = head[i]
        /\ \A i \in 1 .. Len(tail) : joined[Len(head) + i] = tail[i]
    <3>1. Joins(head \o tail, head, tail, S)
      BY <1>1, Concat
    <3>2. Joins(joined, head, tail, S)
      BY <3>1
    <3> HIDE DEF joined
    <3> QED BY <3>2 DEF Joins
  <2> QED BY <1>1, <2>1
<1>3. ASSUME NEW i \in 1 .. k + 1, i # 1 PROVE joined[i] = tail[i - 1]
  <2>1. i - 1 \in 1 .. k /\ 1 + (i - 1) = i
    BY <1>3
  <2> QED BY <1>2, <2>1
<1> QED
  BY <1>1, <1>2, <1>3 DEF head

\* decodeRecordList returns the records that encodeRecordList was given, for every list of
\* records whose lengths fit a prefix.
THEOREM DecodesWhatItEncodes ==
  ASSUME NEW records, Framed(records)
  PROVE  DecodeRecordList(EncodeRecordList(records)) = records
<1> DEFINE size == Len(records)
           blob == EncodeRecordList(records)
<1>0. size \in Nat /\ records \in Seq(Seq(Byte)) /\ \A n \in 1 .. size : records[n] \in Seq(Byte)
  BY DEF Framed
<1>1. PICK out : Builds(out, records) /\ blob = out[size]
  BY EncodeIs DEF Builds
<1> HIDE DEF blob
<1>2. /\ \A n \in 0 .. size : out[n] \in Seq(Byte) /\ Len(out[n]) \in Nat
      /\ blob \in Seq(Byte) /\ Len(blob) \in Nat /\ Len(out[0]) = 0
  <2>1. \A n \in 0 .. size : out[n] \in Seq(Byte)
    BY <1>1 DEF Builds
  <2>2. size \in 0 .. size
    BY <1>0
  <2>3. out[0] = <<>>
    BY <1>1 DEF Builds
  <2> QED BY <1>1, <2>1, <2>2, <2>3
<1> DEFINE found == Records(blob)
<1>3. PICK from : Decode(blob, found) = from[0] /\ Decodes(blob, found, from)
  <2>1. \A offset \in Offsets(blob) :
           found[offset] = Error \/ offset + Prefix + Len(found[offset]) \in offset + 1 .. Len(blob)
    BY <1>2, RecordFits
  <2> HIDE DEF found
  <2> QED BY <1>2, <2>1, DecodeIs
<1> DEFINE Rest(n) == [i \in 1 .. size - n |-> records[n + i]]
<1>4. from[Len(out[size])] = Rest(size)
  <2>1. 0 .. Len(blob) # {} /\ Len(blob) \in 0 .. Len(blob)
    BY <1>2
  <2>2. from[Len(blob)] = <<>>
    BY <1>3, <2>1 DEF Decodes
  <2>3. Rest(size) = <<>>
    BY <1>0
  <2> HIDE DEF Rest
  <2> QED BY <1>1, <2>2, <2>3
<1>5. ASSUME NEW n \in 0 .. size - 1, from[Len(out[n + 1])] = Rest(n + 1)
      PROVE  from[Len(out[n])] = Rest(n)
  <2> DEFINE offset == Len(out[n])
             record == records[n + 1]
  <2>1. /\ offset \in Offsets(blob) /\ found[offset] = record
        /\ Len(out[n + 1]) = offset + Prefix + Len(record)
    BY <1>1, RecordInBlob
  <2>2. record \in Seq(Byte) /\ n + 1 \in 1 .. size /\ n \in 0 .. size
    BY <1>0
  <2> HIDE DEF offset, record
  <2>3. record # Error
    <3> SUFFICES ASSUME record = <<-1>> PROVE FALSE
      BY DEF Error
    <3>1. Len(record) = 1 /\ record[1] = -1
      OBVIOUS
    <3>2. record[1] \in Byte
      BY <2>2, <3>1
    <3> QED BY <3>1, <3>2, Sizes DEF Byte
  <2>4. offset \in 0 .. Len(blob) /\ offset # Len(blob)
    BY <1>2, <2>1, Sizes DEF Offsets
  <2>5. from[offset] = <<record>> \o Rest(n + 1)
    <3> HIDE DEF Rest, found
    <3>1. from[offset] = <<found[offset]>> \o from[offset + Prefix + Len(found[offset])]
      BY <1>3, <2>1, <2>3, <2>4 DEF Decodes
    <3>2. from[offset + Prefix + Len(record)] = Rest(n + 1)
      BY <1>5, <2>1
    <3> QED BY <2>1, <3>1, <3>2
  <2>6. <<record>> \o Rest(n + 1) = Rest(n)
    <3> DEFINE tail == Rest(n + 1)
               all == Rest(n)
               joined == <<record>> \o tail
    <3>1. PICK k \in Nat : size - (n + 1) = k /\ size - n = k + 1
      <4>1. size - (n + 1) \in Nat /\ size - n = (size - (n + 1)) + 1
        BY <1>0
      <4> HIDE DEF size
      <4> QED BY <4>1
    <3>2. tail \in Seq(Seq(Byte)) /\ Len(tail) = k
      <4>1. \A i \in 1 .. k : n + 1 + i \in 1 .. size
        BY <1>0, <3>1
      <4>2. tail \in [1 .. k -> Seq(Byte)]
        BY <1>0, <3>1, <4>1
      <4> HIDE DEF tail
      <4> QED BY <4>2
    <3>3. all = [i \in 1 .. k + 1 |-> all[i]] /\ all[1] = record
      <4>1. all = [i \in 1 .. k + 1 |-> records[n + i]]
        BY <3>1
      <4> HIDE DEF all
      <4> QED BY <4>1 DEF record
    <3>4. ASSUME NEW i \in 1 .. k + 1, i # 1 PROVE all[i] = tail[i - 1]
      <4>1. i - 1 \in 1 .. k /\ n + 1 + (i - 1) = n + i
        BY <1>0, <3>4
      <4> QED BY <3>1, <4>1
    <3> HIDE DEF tail, all
    <3>5. /\ joined \in Seq(Seq(Byte)) /\ Len(joined) = k + 1 /\ joined[1] = record
          /\ \A i \in 1 .. k + 1 : i # 1 => joined[i] = tail[i - 1]
      BY <2>2, <3>2, Prepend
    <3> HIDE DEF joined
    <3>6. \A i \in 1 .. k + 1 : joined[i] = all[i]
      BY <3>3, <3>4, <3>5
    <3>7. joined = [i \in 1 .. k + 1 |-> joined[i]]
      BY <3>5
    <3>8. joined = all
      BY <3>3, <3>6, <3>7
    <3> QED BY <3>8 DEF joined, tail, all
  <2> QED BY <2>5, <2>6 DEF offset
<1> DEFINE Good == {m \in Nat : m <= size => from[Len(out[size - m])] = Rest(size - m)}
<1> HIDE DEF Rest
<1>6. Nat \subseteq Good
  <2>1. 0 \in Good
    <3>1. size - 0 = size
      BY <1>0
    <3> QED BY <1>4, <3>1
  <2>2. ASSUME NEW m \in Nat, m \in Good PROVE m + 1 \in Good
    <3>1. CASE m + 1 <= size
      <4>1. PICK n \in 0 .. size - 1 : n = size - (m + 1) /\ n + 1 = size - m
        <5>1. size - (m + 1) \in 0 .. size - 1 /\ (size - (m + 1)) + 1 = size - m
          BY <1>0, <3>1
        <5> HIDE DEF size
        <5> QED BY <5>1
      <4>2. m <= size
        BY <1>0, <3>1
      <4>3. from[Len(out[n + 1])] = Rest(n + 1)
        BY <2>2, <4>1, <4>2
      <4> QED BY <1>5, <4>1, <4>3
    <3> QED BY <3>1
  <2> HIDE DEF Good
  <2> QED BY <2>1, <2>2, Induction
<1>7. from[0] = Rest(0)
  <2>1. size - size = 0 /\ size \in Good
    BY <1>0, <1>6
  <2> QED BY <1>0, <1>2, <2>1
<1>8. Rest(0) = records
  <2>1. \A i \in 1 .. size : 0 + i = i
    BY <1>0
  <2>2. size - 0 = size /\ records = [i \in 1 .. size |-> records[i]]
    BY <1>0
  <2> QED BY <2>1, <2>2 DEF Rest
<1> QED
  BY <1>3, <1>7, <1>8 DEF DecodeRecordList, blob

\* The round trip that TLC checks on short lists is an instance.
THEOREM RoundTrips == FramingRoundTrip
<1> SUFFICES ASSUME NEW records \in RecordLists
             PROVE  DecodeRecordList(EncodeRecordList(records)) = records
  BY DEF FramingRoundTrip
<1> DEFINE R == {r \in {<<>>, <<0>>, <<Base - 1>>, <<1, 0>>} : Len(r) < Words}
<1>1. \A r \in R : r \in Seq(Byte) /\ Len(r) < Words
  <2>1. 0 \in Byte /\ 1 \in Byte /\ Base - 1 \in Byte
    BY Sizes DEF Byte
  <2>2. <<>> \in Seq(Byte) /\ <<0>> \in Seq(Byte)
    BY <2>1
  <2>3. <<Base - 1>> \in Seq(Byte) /\ <<1, 0>> \in Seq(Byte)
    BY <2>1
  <2> QED BY <2>2, <2>3
<1> HIDE DEF R
<1>2. PICK n \in 0 .. 2 : records \in [1 .. n -> R]
  BY DEF RecordLists, BoundedSeq, SeqOf, R
<1>3. Framed(records)
  BY <1>1, <1>2 DEF Framed
<1> QED
  BY <1>3, DecodesWhatItEncodes

\* And Kotlin reads them too, if the blob is shorter than the largest Int.
THEOREM KotlinDecodesWhatIsEncoded ==
  ASSUME NEW records, Framed(records), Len(EncodeRecordList(records)) < Words \div 2
  PROVE  DecodeRecordListKotlin(EncodeRecordList(records)) = records
<1> DEFINE blob == EncodeRecordList(records)
<1>1. blob \in Seq(Byte)
  <2>1. PICK out \in [0 .. Len(records) -> Seq(Byte)] : blob = out[Len(records)]
    BY EncodeIs
  <2>2. Len(records) \in 0 .. Len(records)
    BY DEF Framed
  <2> QED BY <2>1, <2>2
<1> HIDE DEF blob
<1>2. blob \in Blobs
  <2> DEFINE n == Len(blob)
  <2>1. n \in Nat /\ n < Words \div 2 /\ blob \in [1 .. n -> Byte]
    BY <1>1 DEF blob
  <2> HIDE DEF n
  <2>2. n \in 0 .. Words \div 2 - 1
    BY <2>1, WordsRange
  <2> QED BY <2>1, <2>2 DEF Blobs, BoundedSeq, SeqOf
<1>3. DecodeRecordListKotlin(blob) = DecodeRecordList(blob)
  BY <1>2, AllDecodersAgree DEF DecodersAgree
<1> QED
  BY <1>3, DecodesWhatItEncodes DEF blob
=============================================================================
