----------------------------- MODULE RecordList -----------------------------
(***************************************************************************)
(* The framing of a list of records at the native boundary: every record   *)
(* is prefixed with its length, unsigned and big-endian.  TypeScript       *)
(* encodes; the decoders are those of TypeScript and Swift, which read the *)
(* length as an unsigned number, and of Kotlin, which reads a signed Int   *)
(* and adds it to an Int.                                                  *)
(*                                                                         *)
(* Prefix is the number of bytes of a length (4 in the code) and Base the  *)
(* number of values of a byte (256); an Int of Kotlin is as wide as a      *)
(* prefix.  The loops of the code are recursive functions.                 *)
(***************************************************************************)
EXTENDS Integers, SequencesExt

CONSTANTS Base, Prefix

ASSUME FramingAssumption == Base \in Nat /\ Base > 1 /\ Base % 2 = 0 /\ Prefix \in Nat \ {0}

Error == <<-1>>   \* no record
Byte  == 0 .. Base - 1

\* The number of values of n bytes, and of a length.
Power[n \in Nat] == IF n = 0 THEN 1 ELSE Power[n - 1] * Base
Words == Power[Prefix]

\* setUint32 and its readers: the last byte is what a shift by all others leaves.
Uint(len) ==
  LET shifted[k \in 0 .. Prefix] == IF k = 0 THEN len ELSE shifted[k - 1] \div Base
  IN  [i \in 1 .. Prefix |-> shifted[Prefix - i] % Base]

WithByte(n, byte) == n * Base + byte

ReadUint(blob, offset) ==
  LET value[i \in 0 .. Prefix] ==
        IF i = 0 THEN 0 ELSE WithByte(value[i - 1], blob[offset + i])
  IN  value[Prefix]

\* An Int of Kotlin: the values that do not fit wrap around.
SignedInt(n) == LET m == n % Words IN IF m < Words \div 2 THEN m ELSE m - Words

EncodeRecordList(records) ==
  LET out[n \in 0 .. Len(records)] ==
        IF n = 0 THEN <<>> ELSE out[n - 1] \o Uint(Len(records[n])) \o records[n]
  IN  out[Len(records)]

\* slice stops at the end of the array.
Slice(blob, from, to) == SubSeq(blob, from + 1, IF to < Len(blob) THEN to ELSE Len(blob))

\* Mutant: the end of the record is not checked.
RecordAtUnchecked(blob, start, len) == Slice(blob, start, start + len)

\* The record of length len at start, or Error if it is cut off: TypeScript and Swift.
RecordAt(blob, start, len) ==
  IF start + len > Len(blob) THEN Error ELSE Slice(blob, start, start + len)

\* Kotlin: the length may be negative and the sum wrap around; the range of copyOfRange is
\* then empty or reversed, and a reversed one throws.
SignedRecordAt(blob, start, len) ==
  LET end == SignedInt(start + SignedInt(len))
  IN  IF end > Len(blob) \/ end < start THEN Error ELSE Slice(blob, start, end)

\* The record whose prefix is at an offset.
Offsets(blob) == 0 .. Len(blob) - Prefix
Records(blob) ==
  [offset \in Offsets(blob) |-> RecordAt(blob, offset + Prefix, ReadUint(blob, offset))]
SignedRecords(blob) ==
  [offset \in Offsets(blob) |-> SignedRecordAt(blob, offset + Prefix, ReadUint(blob, offset))]

\* decodeRecordList: the records from the first on; what throws ends in Error.
Decode(blob, records) ==
  LET from[offset \in 0 .. Len(blob)] ==
        IF offset = Len(blob) THEN <<>>
        ELSE IF offset \notin Offsets(blob) \/ records[offset] = Error THEN <<Error>>
        ELSE <<records[offset]>> \o from[offset + Prefix + Len(records[offset])]
  IN  from[0]

DecodeRecordList(blob)       == Decode(blob, Records(blob))
DecodeRecordListKotlin(blob) == Decode(blob, SignedRecords(blob))

-----------------------------------------------------------------------------
\* A blob that is shorter than the largest Int: the only ones there are.
Blobs == BoundedSeq(Byte, Words \div 2 - 1)

\* The decoders of the two sides of the boundary agree on every blob, those cut off or with
\* a length that a signed Int cannot hold included.
DecodersAgree == \A blob \in Blobs : DecodeRecordList(blob) = DecodeRecordListKotlin(blob)

\* They return what was encoded.  RecordLists are the lists of up to two records of a few
\* bytes, whose lengths fit a prefix.
RecordLists ==
  BoundedSeq({r \in {<<>>, <<0>>, <<Base - 1>>, <<1, 0>>} : Len(r) < Words}, 2)
FramingRoundTrip ==
  \A records \in RecordLists : DecodeRecordList(EncodeRecordList(records)) = records
=============================================================================
