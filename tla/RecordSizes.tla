----------------------------- MODULE RecordSizes -----------------------------
(***************************************************************************)
(* The size of the record all tests encode, from its data and the formats: *)
(* the sizes README.md publishes.  An integer is known by its sign and the *)
(* bits of its magnitude: plus[b + 1] counts the integers n >= 0 with b    *)
(* bits, minus[b + 1] the negative n for which -n - 1 has b bits, except   *)
(* those in power[b + 1], where -n, a power of two, has one bit more.      *)
(***************************************************************************)
EXTENDS Naturals, SequencesExt

CONSTANTS
  Published,      \* the sizes by name of serializer
  Chunk,          \* avro: the bytes of a chunk of an output stream
  SegmentWords    \* capnproto: the words of a first segment

ASSUME UnitsAssumption == Chunk \in Nat \ {0} /\ SegmentWords \in Nat \ {0}

Serializers == DOMAIN Published

\* kIntegers, in three parts.
Integers1 ==
  [plus  |-> <<1, 0, 0, 1, 2, 6, 13, 15, 1, 0, 0, 1, 1, 2, 6, 16, 0, 0, 0, 0, 0, 0, 0, 1, 0,
               0, 0, 1, 2, 10, 13, 21, 0, 0, 0, 0, 0, 0, 0, 0, 0, 0, 0, 0, 0, 0, 0, 0, 0, 0, 0,
               0, 0, 0, 0, 0, 0, 0, 0, 1, 0, 8, 8, 23>>,
   minus |-> <<0, 0, 0, 0, 3, 6, 9, 25, 0, 0, 0, 1, 5, 6, 18, 16, 0, 0, 0, 0, 0, 0, 0, 0, 0,
               0, 1, 1, 2, 4, 17, 15, 0, 0, 0, 0, 0, 0, 0, 0, 0, 0, 0, 0, 0, 0, 0, 0, 0, 0, 0,
               0, 0, 0, 0, 0, 0, 2, 0, 0, 5, 6, 13, 25>>,
   power |-> <<0, 0, 0, 0, 0, 1, 2, 0>>]
Integers2 ==
  [plus  |-> <<0, 0, 0, 1, 1, 8, 4, 16, 0, 0, 0, 1, 0, 8, 15, 36, 0, 0, 0, 0, 0, 0, 0, 0, 0,
               0, 0, 1, 0, 3, 10, 18, 0, 0, 0, 0, 0, 0, 0, 0, 0, 0, 0, 0, 0, 0, 0, 0, 0, 0, 0,
               0, 0, 0, 0, 1, 0, 0, 0, 1, 2, 5, 10, 20>>,
   minus |-> <<0, 0, 0, 0, 3, 6, 15, 19, 0, 1, 1, 0, 2, 8, 9, 19, 0, 0, 0, 0, 0, 0, 0, 0, 0,
               1, 0, 0, 6, 7, 13, 20, 0, 0, 0, 0, 0, 0, 0, 0, 0, 0, 0, 0, 0, 0, 0, 0, 0, 0, 0,
               0, 0, 0, 0, 0, 0, 0, 1, 1, 4, 8, 10, 19>>,
   power |-> <<0, 1, 0, 0, 1, 0, 0, 0>>]
Integers3 ==
  [plus  |-> <<1, 0, 0, 1, 0, 5, 14, 31, 0, 0, 0, 1, 2, 9, 10, 9, 0, 0, 0, 0, 0, 0, 0, 0, 1,
               0, 0, 1, 1, 6, 8, 22, 0, 0, 0, 0, 0, 0, 0, 0, 0, 0, 0, 0, 0, 0, 0, 0, 0, 0, 0,
               0, 0, 0, 0, 0, 1, 0, 0, 1, 1, 6, 13, 18>>,
   minus |-> <<0, 0, 1, 1, 4, 5, 12, 15, 0, 1, 0, 0, 4, 4, 12, 24, 0, 0, 0, 0, 0, 0, 0, 0, 0,
               1, 0, 0, 3, 7, 9, 24, 0, 0, 0, 0, 0, 0, 0, 0, 0, 0, 0, 0, 0, 0, 0, 0, 0, 0, 0,
               0, 0, 0, 0, 0, 0, 0, 0, 0, 2, 4, 16, 15>>,
   power |-> <<0, 1, 0, 0, 0, 0, 1, 0>>]
Integers == <<Integers1, Integers2, Integers3>>

kStringsCount == 100
kStringValue == 86   \* its length

-----------------------------------------------------------------------------
(* How many bytes a number takes in each format. *)

Up(n, unit) == (n + unit - 1) \div unit
\* The second of the first pair whose condition holds.
First(choices) == Head(SelectSeq(choices, LAMBDA c : c[1]))[2]

\* A varint of seven bits per byte, and one whose lowest bit is the sign.
VarBits(b) == IF b = 0 THEN 1 ELSE Up(b, 7)
Zigzag_Plain(sign, b) == IF sign = "plus" THEN VarBits(b) ELSE 10
Zigzag(sign, b) == VarBits(b + 1)
Bits[n \in Nat] == IF n = 0 THEN 0 ELSE 1 + Bits[n \div 2]
Varint(n) == VarBits(Bits[n])

MsgpackWidth(sign, b) ==
  LET s == IF sign = "plus" THEN 0 ELSE 1
  IN  First(<< <<b <= 7 - 2 * s, 1>>, <<b <= 8 - s, 2>>, <<b <= 16 - s, 3>>, <<b <= 32 - s, 5>>, <<TRUE, 9>> >>)

\* The first byte holds the sign and six bits, or how many bytes follow.
YasWidth(sign, b) ==
  LET m == IF sign = "power" THEN b + 1 ELSE b
  IN  IF m <= 6 THEN 1 ELSE 1 + Up(m, 8)

Width(s, sign, b) ==
  CASE s \in {"thrift-compact", "avro"} -> Zigzag(sign, b)
    [] s = "protobuf" -> IF sign = "plus" THEN VarBits(b) ELSE 10
    [] s = "msgpack" -> MsgpackWidth(sign, b)
    [] s = "yas-compact" -> YasWidth(sign, b)
    [] OTHER -> 8

\* The bytes of a string, with its length, terminator, padding and offset.
Text(s) ==
  LET n == kStringValue
  IN  CASE s = "thrift-binary" -> 4 + n
        [] s = "protobuf" -> 1 + Varint(n) + n
        [] s = "thrift-compact" -> Varint(n) + n
        [] s = "avro" -> Zigzag("plus", Bits[n]) + n
        [] s = "msgpack" -> 2 + n
        [] s \in {"cereal", "yas"} -> 8 + n
        [] s = "yas-compact" -> 1 + n
        [] s = "flatbuffers" -> 4 + 4 * Up(4 + n + 1, 4)
        [] s = "capnproto" -> 8 + 8 * Up(n + 1, 8)

YasCount(n) == IF n < 128 THEN 1 ELSE 1 + Up(Bits[n], 8)

\* What is there besides: counts, types, field numbers, pointers, the vtable.
Frame(s, ids) ==
  LET n == 1000
      m == kStringsCount
  IN  CASE s = "thrift-binary" -> 3 + 5 + 3 + 5 + 1
        [] s = "thrift-compact" -> 2 + Varint(n) + 2 + Varint(m) + 1
        [] s = "protobuf" -> 1 + Varint(ids)
        [] s = "msgpack" -> 1 + 3 + 3
        [] s \in {"cereal", "yas"} -> 8 + 8
        [] s = "yas-compact" -> YasCount(n) + YasCount(m)
        [] s = "avro" -> Zigzag("plus", Bits[n]) + 1 + Zigzag("plus", Bits[m]) + 1
        [] s = "flatbuffers" -> 4 + 8 + 12 + 4 + 4
        [] s = "capnproto" -> 8 + 16

-----------------------------------------------------------------------------
VARIABLES
  serializer,
  size,      \* the bytes so far
  ids,       \* those of the integers
  part,      \* which part of kIntegers is encoded next, and which bits of it
  bits,
  texts,     \* the strings encoded
  room,      \* capnproto: words left in the segment of the list of strings
  done

vars == <<serializer, size, ids, part, bits, texts, room, done>>

Init ==
  /\ serializer \in Serializers
  /\ size = 0 /\ ids = 0
  /\ part = 1 /\ bits = 0
  /\ texts = 0 /\ room = 0 /\ done = FALSE

\* All integers of one part with as many bits.
Integer ==
  /\ part <= Len(Integers)
  /\ LET n == Integers[part]
         count(sign) == IF bits < Len(n[sign]) THEN n[sign][bits + 1] ELSE 0
         all == count("plus") * Width(serializer, "plus", bits)
                  + count("minus") * Width(serializer, "minus", bits)
                  + count("power") * Width(serializer, "power", bits)
     IN  size' = size + all /\ ids' = ids + all
  /\ bits' = (bits + 1) % 64
  /\ part' = IF bits = 63 THEN part + 1 ELSE part
  /\ UNCHANGED <<serializer, texts, room, done>>

\* A list or text of capnproto that its segment has no room for goes to another
\* one, behind a word that says where it is.
Word == IF serializer = "capnproto" THEN 8 ELSE 0

\* The list of strings, after root, record and integers in the first segment.
InitStrings ==
  /\ part > Len(Integers) /\ room = 0
  /\ LET used == 1 + 2 + ids \div 8
         fits == used + kStringsCount <= SegmentWords
     IN  /\ room' = SegmentWords - kStringsCount - IF fits THEN used ELSE 1
         /\ size' = size + Frame(serializer, ids) + IF fits THEN 0 ELSE Word
  /\ UNCHANGED <<serializer, ids, part, bits, texts, done>>

PutString ==
  /\ room > 0 /\ texts < kStringsCount
  /\ LET words == Up(kStringValue + 1, 8)
     IN  \/ /\ words <= room
            /\ room' = room - words
            /\ size' = size + Text(serializer)
         \/ /\ words > room
            /\ size' = size + Text(serializer) + Word
            /\ UNCHANGED room
  /\ texts' = texts + 1
  /\ UNCHANGED <<serializer, ids, part, bits, done>>

\* The size a test reports: avro that of the chunks.
Report ==
  /\ texts = kStringsCount /\ ~done
  /\ size' = IF serializer = "avro" THEN Chunk * Up(size, Chunk) ELSE size
  /\ done' = TRUE
  /\ UNCHANGED <<serializer, ids, part, bits, texts, room>>

Next == Integer \/ InitStrings \/ PutString \/ Report

Spec == Init /\ [][Next]_vars

-----------------------------------------------------------------------------
(* Properties *)

(***************************************************************************)
(* Every size in the tables of README.md is that of the record of data.hpp *)
(* in the format of its row: with what a test counts in excess (chunks of  *)
(* avro, words between the segments of capnproto), and nothing lost.       *)
(***************************************************************************)
SizesAsPublished == done => size = Published[serializer]
=============================================================================
