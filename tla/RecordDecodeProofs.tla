-------------------------- MODULE RecordDecodeProofs --------------------------
(***************************************************************************)
(* Decoding into a record that holds another one, for lists of any length, *)
(* any elements and any names of other fields.                             *)
(***************************************************************************)
EXTENDS RecordDecode, SequenceTheorems, TLAPS

USE RecordsAssumption, ElemAssumption, OthersAssumption

-----------------------------------------------------------------------------
(* The wire. *)

\* No layout has a member twice, and each member is decoded into itself.
Place(lib, l, k) ==
  IF lib = "avro resolving" THEN decode[Number(l[k])] ELSE Order(lib, decode)[k]
WellLaid(lib, l) ==
  /\ l \in Seq(Members \cup Others)
  /\ \A j, k \in DOMAIN l : l[j] \in Members /\ l[j] = l[k] => j = k
  /\ \A k \in DOMAIN l : l[k] \in Members => Place(lib, l, k) = l[k]

\* The schema numbers ids 1 and strings 2.
LEMMA NumberFacts == Number("ids") = 1 /\ Number("strings") = 2
<1>1. DOMAIN Schema = {1, 2} /\ Schema[1] = "ids" /\ Schema[2] = "strings"
  BY DEF Schema
<1>2. \A k \in DOMAIN Schema : Schema[k] = "ids" <=> k = 1
  BY <1>1
<1>3. \A k \in DOMAIN Schema : Schema[k] = "strings" <=> k = 2
  BY <1>1
<1> QED
  BY <1>1, <1>2, <1>3 DEF Number

\* A member decoded by its number may be anywhere.
LEMMA ResolvedPlace ==
  ASSUME NEW l, NEW k, l[k] \in Members
  PROVE  Place("avro resolving", l, k) = l[k]
BY NumberFacts DEF Place, decode, Members

\* Short sequences are tuples.
LEMMA Tuples ==
  ASSUME NEW S, NEW t \in Seq(S)
  PROVE  /\ Len(t) = 1 => t = <<t[1]>>
         /\ Len(t) = 3 => t = <<t[1], t[2], t[3]>>
<1>1. CASE Len(t) = 1
  <2>1. t[1] \in S
    BY <1>1
  <2>2. <<t[1]>> \in Seq(S) /\ Len(<<t[1]>>) = 1 /\ <<t[1]>>[1] = t[1]
    BY <2>1
  <2> QED
    BY <1>1, <2>2, SeqEqual
<1>2. CASE Len(t) = 3
  <2>1. t[1] \in S /\ t[2] \in S /\ t[3] \in S
    <3>1. 1 \in 1 .. Len(t) /\ 2 \in 1 .. Len(t) /\ 3 \in 1 .. Len(t)
      BY <1>2
    <3> QED
      BY <3>1, ElementOfSeq
  <2> DEFINE u == <<t[1], t[2], t[3]>>
  <2>2. u \in Seq(S) /\ Len(u) = 3 /\ u[1] = t[1] /\ u[2] = t[2] /\ u[3] = t[3]
    BY <2>1
  <2> HIDE DEF u
  <2>3. \A i \in 1 .. Len(t) : t[i] = u[i]
    BY <1>2, <2>2
  <2> QED
    BY <1>2, <2>2, <2>3, SeqEqual DEF u
<1> QED
  BY <1>1, <1>2

\* The parts of a pair.
LEMMA PairFacts ==
  ASSUME NEW a, NEW b
  PROVE  /\ SubSeq(<<a, b>>, 1, 0) = <<>> /\ SubSeq(<<a, b>>, 1, 1) = <<a>>
         /\ SubSeq(<<a, b>>, 1, 2) = <<a, b>> /\ SubSeq(<<a, b>>, 2, 2) = <<b>>
         /\ SubSeq(<<a, b>>, 3, 2) = <<>>
<1> DEFINE s == <<a, b>>
           S == {a, b}
<1>1. s \in Seq(S) /\ Len(s) = 2 /\ s[1] = a /\ s[2] = b
  OBVIOUS
<1> HIDE DEF s, S
<1>2. SubSeq(s, 1, 0) = <<>> /\ SubSeq(s, 3, 2) = <<>>
  BY SubSeqEmpty
<1>3. SubSeq(s, 1, 2) = s
  BY <1>1, SubSeqFull
<1>4. SubSeq(s, 1, 1) = <<a>>
  <2>1. SubSeq(s, 1, 1) \in Seq(S) /\ Len(SubSeq(s, 1, 1)) = 1 /\ SubSeq(s, 1, 1)[1] = a
    BY <1>1, SubSeqProperties
  <2> QED
    BY <2>1, Tuples
<1>5. SubSeq(s, 2, 2) = <<b>>
  <2>1. SubSeq(s, 2, 2) \in Seq(S) /\ Len(SubSeq(s, 2, 2)) = 1 /\ SubSeq(s, 2, 2)[1] = b
    BY <1>1, SubSeqProperties
  <2> QED
    BY <2>1, Tuples
<1> QED
  BY <1>2, <1>3, <1>4, <1>5 DEF s

\* The layouts of a writer that adds the field x.
LEMMA InsertedFacts ==
  ASSUME NEW a, NEW b, NEW x, NEW k \in 1 .. 3
  PROVE  InsertAt(<<a, b>>, k, x) \in {<<x, a, b>>, <<a, x, b>>, <<a, b, x>>}
<1> DEFINE s == <<a, b>>
           S == {a, b, x}
           t == InsertAt(s, k, x)
<1>1. s \in Seq(S) /\ Len(s) = 2 /\ s[1] = a /\ s[2] = b /\ <<x>> \in Seq(S)
  OBVIOUS
<1>2. t = (SubSeq(s, 1, k - 1) \o <<x>>) \o SubSeq(s, k, 2)
  BY <1>1 DEF InsertAt
<1> HIDE DEF s, S, t
<1>3. SubSeq(s, 1, k - 1) \in Seq(S) /\ Len(SubSeq(s, 1, k - 1)) = k - 1
      /\ \A i \in 1 .. k - 1 : SubSeq(s, 1, k - 1)[i] = s[i]
  BY <1>1, SubSeqProperties
<1>4. SubSeq(s, k, 2) \in Seq(S) /\ Len(SubSeq(s, k, 2)) = 3 - k
      /\ \A i \in 1 .. 3 - k : SubSeq(s, k, 2)[i] = s[k + i - 1]
  BY <1>1, SubSeqProperties
<1>5. t \in Seq(S) /\ Len(t) = 3
  BY <1>1, <1>2, <1>3, <1>4
<1>6. t[1] = IF k = 1 THEN x ELSE a
  BY <1>1, <1>2, <1>3, <1>4
<1>7. t[2] = IF k = 1 THEN a ELSE IF k = 2 THEN x ELSE b
  BY <1>1, <1>2, <1>3, <1>4
<1>8. t[3] = IF k = 3 THEN x ELSE b
  BY <1>1, <1>2, <1>3, <1>4
<1>9. t = <<t[1], t[2], t[3]>>
  BY <1>5, Tuples
<1> QED
  BY <1>6, <1>7, <1>8, <1>9 DEF s, t

\* What the writers put on the wire is well laid.
LEMMA LayoutFacts ==
  ASSUME NEW lib \in Codecs, NEW l \in Layouts(lib)
  PROVE  WellLaid(lib, l)
<1> DEFINE own == <<"ids", "strings">>
           swapped == <<"strings", "ids">>
           S == Members \cup Others
<1>1. Order(lib, encode) = own /\ Order(lib, decode) = own
  BY DEF Codecs, Order, boost_test, cereal_test, yas_test, msgpack_test, encode, decode
<1>m. /\ "ids" \in Members /\ "strings" \in Members /\ "ids" \in S /\ "strings" \in S
      /\ \A x \in Others : x \in S /\ x \notin Members
  BY DEF Members
<1>2. ASSUME NEW k, l[k] \in Members, lib # "avro resolving" => k \in {1, 2} /\ l[k] = own[k]
      PROVE  Place(lib, l, k) = l[k]
  <2>1. CASE lib = "avro resolving"
    BY <1>2, <2>1, ResolvedPlace
  <2>2. CASE lib # "avro resolving"
    BY <1>1, <1>2, <2>2 DEF Place
  <2> QED
    BY <2>1, <2>2
<1>3. ASSUME l \in {<<>>, <<"ids">>, own, swapped}, l = swapped => lib = "avro resolving"
      PROVE  WellLaid(lib, l)
  <2>1. CASE l = <<>>
    <3>1. l \in Seq(S) /\ DOMAIN l = {}
      BY <2>1
    <3> QED
      BY <3>1 DEF WellLaid
  <2>2. CASE l = <<"ids">>
    <3>1. l \in Seq(S) /\ DOMAIN l = {1} /\ l[1] = "ids"
      BY <1>m, <2>2
    <3>2. Place(lib, l, 1) = l[1]
      BY <1>m, <1>2, <3>1
    <3> QED
      BY <3>1, <3>2 DEF WellLaid
  <2>3. CASE l = own
    <3>1. l \in Seq(S) /\ DOMAIN l = {1, 2} /\ l[1] = "ids" /\ l[2] = "strings"
      BY <1>m, <2>3
    <3>2. Place(lib, l, 1) = l[1] /\ Place(lib, l, 2) = l[2]
      BY <1>m, <1>2, <3>1
    <3> QED
      BY <3>1, <3>2 DEF WellLaid
  <2>4. CASE l = swapped
    <3>1. l \in Seq(S) /\ DOMAIN l = {1, 2} /\ l[1] = "strings" /\ l[2] = "ids"
      BY <1>m, <2>4
    <3>2. Place(lib, l, 1) = l[1] /\ Place(lib, l, 2) = l[2]
      BY <1>m, <1>2, <1>3, <2>4, <3>1
    <3> QED
      BY <3>1, <3>2 DEF WellLaid
  <2> QED
    BY <1>3, <2>1, <2>2, <2>3, <2>4
<1>4. ASSUME NEW x \in Others,
             \/ l = <<"ids", "strings", x>>
             \/ /\ lib = "avro resolving"
                /\ l \in {<<x, "ids", "strings">>, <<"ids", x, "strings">>,
                          <<x, "strings", "ids">>, <<"strings", x, "ids">>, <<"strings", "ids", x>>}
      PROVE  WellLaid(lib, l)
  <2>1. x # "ids" /\ x # "strings" /\ x \notin Members
    BY DEF Members
  <2>2. l \in Seq(S) /\ DOMAIN l = {1, 2, 3}
    <3> HIDE DEF S
    <3>1. PICK a \in S, b \in S, c \in S : l = <<a, b, c>>
      BY <1>m, <1>4
    <3> QED
      BY <3>1
  <2>3. \A j, k \in DOMAIN l : l[j] \in Members /\ l[j] = l[k] => j = k
    <3>1. CASE l = <<"ids", "strings", x>>
      BY <2>1, <2>2, <3>1
    <3>2. CASE l = <<x, "ids", "strings">>
      BY <2>1, <2>2, <3>2
    <3>3. CASE l = <<"ids", x, "strings">>
      BY <2>1, <2>2, <3>3
    <3>4. CASE l = <<x, "strings", "ids">>
      BY <2>1, <2>2, <3>4
    <3>5. CASE l = <<"strings", x, "ids">>
      BY <2>1, <2>2, <3>5
    <3>6. CASE l = <<"strings", "ids", x>>
      BY <2>1, <2>2, <3>6
    <3> QED
      BY <1>4, <3>1, <3>2, <3>3, <3>4, <3>5, <3>6
  <2>4. \A k \in DOMAIN l : l[k] \in Members => Place(lib, l, k) = l[k]
    <3> SUFFICES ASSUME NEW k \in DOMAIN l, l[k] \in Members PROVE Place(lib, l, k) = l[k]
      OBVIOUS
    <3>1. CASE lib = "avro resolving"
      BY <1>2, <3>1
    <3>2. CASE l = <<"ids", "strings", x>>
      <4>1. l[1] = "ids" /\ l[2] = "strings" /\ l[3] = x
        BY <3>2
      <4>2. k \in {1, 2} /\ l[k] = own[k]
        BY <2>1, <2>2, <4>1
      <4> QED
        BY <1>2, <4>2
    <3> QED
      BY <1>4, <3>1, <3>2
  <2> QED
    BY <2>2, <2>3, <2>4 DEF WellLaid
<1>5. CASE lib = "avro resolving"
  <2>1. Reverse(own) = swapped
    <3>1. Reverse(own) \in Seq({"ids", "strings"}) /\ Len(Reverse(own)) = 2
          /\ Reverse(own)[1] = "strings" /\ Reverse(own)[2] = "ids"
      BY DEF Reverse
    <3>2. swapped \in Seq({"ids", "strings"}) /\ Len(swapped) = 2
          /\ swapped[1] = "strings" /\ swapped[2] = "ids"
      OBVIOUS
    <3> QED
      BY <3>1, <3>2, SeqEqual
  <2>2. Layouts(lib) = {own, Reverse(own)} \cup Inserted(own) \cup Inserted(Reverse(own))
    BY <1>1, <1>5 DEF Layouts
  <2>3. CASE l \in {own, swapped}
    BY <1>3, <1>5, <2>3
  <2>4. CASE l \in Inserted(own) \cup Inserted(swapped)
    <3>1. PICK o \in {own, swapped}, k \in 1 .. 3, x \in Others : l = InsertAt(o, k, x)
      BY <2>4 DEF Inserted
    <3>2. \/ l \in {<<x, "ids", "strings">>, <<"ids", x, "strings">>, <<"ids", "strings", x>>}
          \/ l \in {<<x, "strings", "ids">>, <<"strings", x, "ids">>, <<"strings", "ids", x>>}
      BY <3>1, InsertedFacts
    <3> QED
      BY <1>4, <1>5, <3>2
  <2> QED
    BY <2>1, <2>2, <2>3, <2>4
<1>6. CASE lib = "msgpack"
  <2>1. Layouts(lib) = {SubSeq(own, 1, n) : n \in 0 .. 2} \cup {Append(own, x) : x \in Others}
    BY <1>1, <1>6 DEF Layouts
  <2>2. \A n \in 0 .. 2 : SubSeq(own, 1, n) \in {<<>>, <<"ids">>, own}
    <3> TAKE n \in 0 .. 2
    <3>1. n = 0 \/ n = 1 \/ n = 2
      OBVIOUS
    <3> QED
      BY <3>1, PairFacts
  <2>3. \A x : Append(own, x) = <<"ids", "strings", x>>
    <3> TAKE x
    <3> DEFINE A == Append(own, x)
    <3>1. A \in Seq({"ids", "strings", x}) /\ Len(A) = 3 /\ A[1] = "ids" /\ A[2] = "strings" /\ A[3] = x
      OBVIOUS
    <3> HIDE DEF A
    <3>2. A = <<A[1], A[2], A[3]>>
      BY <3>1, Tuples
    <3> QED
      BY <3>1, <3>2 DEF A
  <2>4. CASE l \in {<<>>, <<"ids">>, own}
    BY <1>3, <1>6, <2>4
  <2>5. CASE \E x \in Others : l = <<"ids", "strings", x>>
    BY <1>4, <2>5
  <2> QED
    BY <2>1, <2>2, <2>3, <2>4, <2>5
<1>7. CASE lib \notin {"msgpack", "avro resolving"}
  <2>1. Layouts(lib) = {own}
    BY <1>1, <1>7 DEF Layouts, Codecs
  <2>2. l = own /\ own[1] # swapped[1]
    BY <2>1
  <2> HIDE DEF own, swapped
  <2> QED
    BY <1>3, <2>2
<1> QED
  BY <1>5, <1>6, <1>7

-----------------------------------------------------------------------------
(* The record. *)

\* While the member at pos is decoded, what is in it so far.
Prefix == \A j \in 1 .. done : record[layout[pos]][j] = Items[j]

IInv ==
  /\ codec \in Codecs /\ WellLaid(codec, layout)
  /\ sent \in Record /\ old \in Record
  /\ pos \in 1 .. Len(layout) + 1 /\ done \in Nat
  /\ pc \in {"member", "element", "returned", "failed"}
  /\ pc # "failed" => record \in Record
  /\ pc = "returned" => pos > Len(layout)
  /\ pc = "element" =>
       /\ Known /\ done <= Len(Items) /\ Prefix
       /\ Len(record[layout[pos]]) = IF Grows THEN done ELSE Len(Items)
  /\ \A m \in Members : ~OnWire(m) => record[m] = old[m]
  /\ \A k \in DOMAIN layout : layout[k] \in Members =>
       /\ k < pos => record[layout[k]] = sent[layout[k]]
       /\ k > pos => record[layout[k]] = old[layout[k]]
       /\ k = pos /\ pc = "member" => record[layout[k]] = old[layout[k]]

USE DEF IInv

\* A member is decoded into itself.
LEMMA TargetFacts ==
  ASSUME IInv, Known
  PROVE  /\ pos \in DOMAIN layout /\ Target = layout[pos] /\ Target \in Members
         /\ Items \in Seq(Elem) /\ sent[layout[pos]] = Items
         /\ \A k \in DOMAIN layout : layout[k] = Target => k = pos
<1>1. pos \in DOMAIN layout /\ layout[pos] \in Members
  BY DEF Known, More, WellLaid
<1>2. Target = Place(codec, layout, pos)
  BY DEF Target, Place
<1>3. Target = layout[pos]
  BY <1>1, <1>2 DEF WellLaid
<1>4. Items \in Seq(Elem)
  BY <1>1 DEF Items, Record
<1> QED
  BY <1>1, <1>3, <1>4 DEF WellLaid, Items

\* The invariant after a step that changed only the member at pos.
LEMMA OnlyTarget ==
  ASSUME IInv, Known, NEW r, \A m \in Members \ {layout[pos]} : r[m] = record[m]
  PROVE  /\ \A m \in Members : ~OnWire(m) => r[m] = old[m]
         /\ \A k \in DOMAIN layout : layout[k] \in Members =>
              /\ k < pos => r[layout[k]] = sent[layout[k]]
              /\ k > pos => r[layout[k]] = old[layout[k]]
<1>1. \A k \in DOMAIN layout : layout[k] = layout[pos] => k = pos
  BY TargetFacts
<1>2. \A m \in Members : ~OnWire(m) => m # layout[pos]
  BY TargetFacts DEF OnWire
<1>3. DOMAIN layout \subseteq Nat
  BY DEF WellLaid
<1> QED
  BY <1>1, <1>2, <1>3

\* A vector that was emptied or resized has nothing sent in it yet.
LEMMA BeginKeeps ==
  ASSUME IInv, BeginMember
  PROVE  IInv'
<1> DEFINE t == layout[pos]
           q == IF Grows THEN <<>> ELSE Resized(record[t], Len(Items))
<1>1. Known /\ pc = "member" /\ record \in Record
  BY DEF BeginMember
<1>2. Target = t /\ t \in Members /\ Items \in Seq(Elem)
  BY <1>1, TargetFacts
<1>3. record[t] \in Seq(Elem) /\ Len(Items) \in Nat
  BY <1>1, <1>2 DEF Record
<1>4. q \in Seq(Elem) /\ Len(q) = IF Grows THEN 0 ELSE Len(Items)
  <2>1. CASE Grows
    BY <2>1
  <2>2. CASE ~Grows
    <3>1. \A k \in 1 .. Len(Items) : (IF k <= Len(record[t]) THEN record[t][k] ELSE Blank) \in Elem
      BY <1>3
    <3> QED
      BY <1>3, <2>2, <3>1 DEF Resized
  <2> QED
    BY <2>1, <2>2
<1>5. record' = [record EXCEPT ![t] = q] /\ done' = 0 /\ pc' = "element"
      /\ UNCHANGED <<codec, layout, sent, old, pos>>
  BY <1>2 DEF BeginMember
<1> HIDE DEF q
<1>6. record' \in Record /\ record'[t] = q /\ \A m \in Members \ {t} : record'[m] = record[m]
  BY <1>1, <1>2, <1>4, <1>5 DEF Record
<1>7. Known' /\ Items' = Items /\ (Grows' <=> Grows)
  BY <1>1, <1>5 DEF Known, More, Items, Grows
<1>8. done' <= Len(Items') /\ Prefix' /\ Len(record'[layout'[pos']]) = IF Grows' THEN done' ELSE Len(Items')
  BY <1>3, <1>4, <1>5, <1>6, <1>7 DEF Prefix
<1>9. \A m \in Members : ~OnWire(m)' => record'[m] = old'[m]
  <2>1. \A m \in Members : ~OnWire(m) => record'[m] = old[m]
    BY <1>1, <1>6, OnlyTarget
  <2> QED
    BY <1>5, <2>1 DEF OnWire
<1>10. \A k \in DOMAIN layout' : layout'[k] \in Members =>
        /\ k < pos' => record'[layout'[k]] = sent'[layout'[k]]
        /\ k > pos' => record'[layout'[k]] = old'[layout'[k]]
  <2>1. \A k \in DOMAIN layout : layout[k] \in Members =>
          /\ k < pos => record'[layout[k]] = sent[layout[k]]
          /\ k > pos => record'[layout[k]] = old[layout[k]]
    BY <1>1, <1>6, OnlyTarget
  <2> QED
    BY <1>5, <2>1
<1> QED
  BY <1>5, <1>6, <1>7, <1>8, <1>9, <1>10

\* The prefix grows by the element decoded, at the end or in place.
LEMMA ElementKeeps ==
  ASSUME IInv, DecodeElement
  PROVE  IInv'
<1> DEFINE t == layout[pos]
           x == Items[done + 1]
           q == IF Grows THEN Append(record[t], x) ELSE [record[t] EXCEPT ![done + 1] = x]
<1>1. Known /\ pc = "element" /\ done < Len(Items) /\ record \in Record
  BY DEF DecodeElement
<1>2. Target = t /\ t \in Members /\ Items \in Seq(Elem)
  BY <1>1, TargetFacts
<1>3. record[t] \in Seq(Elem) /\ x \in Elem /\ done \in Nat /\ Len(Items) \in Nat
  BY <1>1, <1>2 DEF Record
<1>4. /\ q \in Seq(Elem) /\ Len(q) = IF Grows THEN done + 1 ELSE Len(Items)
      /\ \A j \in 1 .. done : q[j] = record[t][j]
      /\ q[done + 1] = x
  <2>1. CASE Grows
    <3>1. Len(record[t]) = done
      BY <1>1, <2>1
    <3> QED
      BY <1>3, <2>1, <3>1, AppendProperties
  <2>2. CASE ~Grows
    <3>1. Len(record[t]) = Len(Items) /\ done + 1 \in 1 .. Len(record[t])
      BY <1>1, <1>3, <2>2
    <3> QED
      BY <1>3, <2>2, <3>1, ExceptSeq
  <2> QED
    BY <2>1, <2>2
<1>5. record' = [record EXCEPT ![t] = q] /\ done' = done + 1 /\ pc' = "element"
      /\ UNCHANGED <<codec, layout, sent, old, pos>>
  BY <1>1, <1>2 DEF DecodeElement
<1>6. \A j \in 1 .. done : record[t][j] = Items[j]
  BY <1>1 DEF Prefix
<1> HIDE DEF q
<1>7. record' \in Record /\ record'[t] = q /\ \A m \in Members \ {t} : record'[m] = record[m]
  BY <1>1, <1>2, <1>4, <1>5 DEF Record
<1>8. Known' /\ Items' = Items /\ (Grows' <=> Grows)
  BY <1>1, <1>5 DEF Known, More, Items, Grows
<1>9. Prefix'
  <2> SUFFICES ASSUME NEW j \in 1 .. done + 1 PROVE q[j] = Items[j]
    BY <1>5, <1>7, <1>8 DEF Prefix
  <2>1. j \in 1 .. done \/ j = done + 1
    BY <1>3
  <2> QED
    BY <1>4, <1>6, <2>1
<1>10. done' <= Len(Items') /\ Len(record'[layout'[pos']]) = IF Grows' THEN done' ELSE Len(Items')
  BY <1>1, <1>3, <1>4, <1>5, <1>7, <1>8
<1>11. \A m \in Members : ~OnWire(m)' => record'[m] = old'[m]
  <2>1. \A m \in Members : ~OnWire(m) => record'[m] = old[m]
    BY <1>1, <1>7, OnlyTarget
  <2> QED
    BY <1>5, <2>1 DEF OnWire
<1>12. \A k \in DOMAIN layout' : layout'[k] \in Members =>
        /\ k < pos' => record'[layout'[k]] = sent'[layout'[k]]
        /\ k > pos' => record'[layout'[k]] = old'[layout'[k]]
  <2>1. \A k \in DOMAIN layout : layout[k] \in Members =>
          /\ k < pos => record'[layout[k]] = sent[layout[k]]
          /\ k > pos => record'[layout[k]] = old[layout[k]]
    BY <1>1, <1>7, OnlyTarget
  <2> QED
    BY <1>5, <2>1
<1> QED
  BY <1>3, <1>5, <1>7, <1>8, <1>9, <1>10, <1>11, <1>12

\* A member that has all its elements is the one sent.
LEMMA EndKeeps ==
  ASSUME IInv, EndMember
  PROVE  IInv'
<1>1. Known /\ pc = "element" /\ done = Len(Items) /\ record \in Record /\ Prefix
  BY DEF EndMember
<1>2. layout[pos] \in Members /\ Items \in Seq(Elem) /\ sent[layout[pos]] = Items
  BY <1>1, TargetFacts
<1>3. record[layout[pos]] = sent[layout[pos]]
  <2>1. record[layout[pos]] \in Seq(Elem) /\ Len(record[layout[pos]]) = Len(Items)
    BY <1>1, <1>2 DEF Record
  <2>2. \A j \in 1 .. Len(Items) : record[layout[pos]][j] = Items[j]
    BY <1>1 DEF Prefix
  <2> QED
    BY <1>2, <2>1, <2>2, SeqEqual
<1>4. pos' = pos + 1 /\ pc' = "member" /\ UNCHANGED <<codec, layout, sent, old, record, done>>
  BY DEF EndMember
<1>5. pos' \in 1 .. Len(layout) + 1
  BY <1>1, <1>4 DEF Known, More, WellLaid
<1>6. \A k \in DOMAIN layout : layout[k] \in Members =>
        /\ k < pos + 1 => record[layout[k]] = sent[layout[k]]
        /\ k >= pos + 1 => record[layout[k]] = old[layout[k]]
  <2> SUFFICES ASSUME NEW k \in DOMAIN layout, layout[k] \in Members
               PROVE  /\ k < pos + 1 => record[layout[k]] = sent[layout[k]]
                      /\ k >= pos + 1 => record[layout[k]] = old[layout[k]]
    OBVIOUS
  <2>1. k \in Nat /\ pos \in Nat /\ (k < pos \/ k = pos \/ k > pos)
    BY DEF WellLaid
  <2> QED
    BY <1>3, <2>1
<1>7. \A k \in DOMAIN layout' : layout'[k] \in Members =>
        /\ k < pos' => record'[layout'[k]] = sent'[layout'[k]]
        /\ k > pos' => record'[layout'[k]] = old'[layout'[k]]
        /\ k = pos' /\ pc' = "member" => record'[layout'[k]] = old'[layout'[k]]
  <2>1. DOMAIN layout \subseteq Nat /\ pos \in Nat
    BY DEF WellLaid
  <2>2. \A k \in Nat : k > pos + 1 => k >= pos + 1
    OBVIOUS
  <2> HIDE DEF IInv
  <2> QED
    BY <1>4, <1>6, <2>1, <2>2
<1>8. \A m \in Members : ~OnWire(m)' => record'[m] = old'[m]
  BY <1>4 DEF OnWire
<1> QED
  BY <1>1, <1>4, <1>5, <1>7, <1>8

\* A field of no member changes nothing.
LEMMA SkipKeeps ==
  ASSUME IInv, SkipOther
  PROVE  IInv'
<1>1. More /\ ~Known /\ pc = "member" /\ record \in Record
  BY DEF SkipOther
<1>2. pos' = pos + 1 /\ UNCHANGED <<codec, layout, sent, old, record, done, pc>>
  BY DEF SkipOther
<1>3. pos' \in 1 .. Len(layout) + 1 /\ layout[pos] \notin Members
  BY <1>1, <1>2 DEF Known, More, WellLaid
<1>4. \A k \in DOMAIN layout : layout[k] \in Members =>
        /\ k < pos + 1 => record[layout[k]] = sent[layout[k]]
        /\ k >= pos + 1 => record[layout[k]] = old[layout[k]]
  <2> SUFFICES ASSUME NEW k \in DOMAIN layout, layout[k] \in Members
               PROVE  /\ k < pos + 1 => record[layout[k]] = sent[layout[k]]
                      /\ k >= pos + 1 => record[layout[k]] = old[layout[k]]
    OBVIOUS
  <2>1. k \in Nat /\ pos \in Nat /\ (k < pos \/ k = pos \/ k > pos)
    BY DEF WellLaid
  <2>2. k # pos
    BY <1>3
  <2> QED
    BY <2>1, <2>2
<1>5. \A k \in DOMAIN layout' : layout'[k] \in Members =>
        /\ k < pos' => record'[layout'[k]] = sent'[layout'[k]]
        /\ k > pos' => record'[layout'[k]] = old'[layout'[k]]
        /\ k = pos' /\ pc' = "member" => record'[layout'[k]] = old'[layout'[k]]
  <2>1. DOMAIN layout \subseteq Nat /\ pos \in Nat
    BY DEF WellLaid
  <2>2. \A k \in Nat : k > pos + 1 => k >= pos + 1
    OBVIOUS
  <2> HIDE DEF IInv
  <2> QED
    BY <1>2, <1>4, <2>1, <2>2
<1>6. \A m \in Members : ~OnWire(m)' => record'[m] = old'[m]
  BY <1>2 DEF OnWire
<1> QED
  BY <1>1, <1>2, <1>3, <1>5, <1>6

\* A failure tears an element of the member being decoded, no other.
LEMMA FailKeeps ==
  ASSUME IInv, Fail
  PROVE  IInv'
<1>1. pc' = "failed" /\ UNCHANGED <<codec, layout, sent, old, pos, done>>
  BY DEF Fail
<1>2. CASE UNCHANGED record
  BY <1>1, <1>2 DEF OnWire
<1>3. CASE /\ pc = "element"
           /\ record' = [record EXCEPT ![Target][done + 1] = Torn]
  <2>1. Known /\ Target = layout[pos]
    BY <1>3, TargetFacts
  <2>2. \A m \in Members \ {layout[pos]} : record'[m] = record[m]
    BY <1>3, <2>1 DEF Record
  <2>3. \A m \in Members : ~OnWire(m)' => record'[m] = old'[m]
    BY <1>1, <2>1, <2>2, OnlyTarget DEF OnWire
  <2> QED
    BY <1>1, <2>1, <2>2, <2>3, OnlyTarget
<1> QED
  BY <1>2, <1>3 DEF Fail

(* The invariant holds at any time, whatever the codec and the writer. *)
THEOREM Inductive == Spec => []IInv
<1>1. Init => IInv
  <2> SUFFICES ASSUME Init PROVE IInv
    OBVIOUS
  <2>1. WellLaid(codec, layout) /\ Len(layout) \in Nat
    BY LayoutFacts DEF Init, WellLaid
  <2> QED
    BY <2>1 DEF Init, WellLaid
<1>2. IInv /\ [Next]_vars => IInv'
  <2> SUFFICES ASSUME IInv, [Next]_vars PROVE IInv'
    OBVIOUS
  <2>1. CASE Return
    BY <2>1 DEF Return, More, WellLaid, OnWire
  <2>2. CASE UNCHANGED vars
    BY <2>2 DEF vars, Known, More, Items, Grows, Prefix, OnWire
  <2> QED
    BY <2>1, <2>2, BeginKeeps, ElementKeeps, EndKeeps, SkipKeeps, FailKeeps DEF Next, Decode
<1> QED
  BY <1>1, <1>2, PTL DEF Spec

(***************************************************************************)
(* A decode that returns has replaced what was on the wire, in whatever    *)
(* order a resolving decoder gave it, and left alone what was not.         *)
(***************************************************************************)
THEOREM ReturnsTheSent == Spec => []ReturnsSent
<1>1. IInv => ReturnsSent
  <2> SUFFICES ASSUME IInv, pc = "returned", NEW m \in Members
               PROVE  record[m] = IF OnWire(m) THEN sent[m] ELSE old[m]
    BY DEF ReturnsSent
  <2>1. \A k \in DOMAIN layout : k < pos
    BY DEF WellLaid
  <2> QED
    BY <2>1 DEF OnWire
<1> QED
  BY <1>1, Inductive, PTL

(***************************************************************************)
(* However a decode ends, at most the member it was at is neither old nor  *)
(* as it was sent.                                                         *)
(***************************************************************************)
THEOREM DecodesOneMember == Spec => []OneMemberAtATime
<1>1. IInv => OneMemberAtATime
  <2> SUFFICES ASSUME IInv PROVE OneMemberAtATime
    OBVIOUS
  <2>1. ASSUME pc = "element"
        PROVE  SubSeq(record[layout[pos]], 1, done) = SubSeq(sent[layout[pos]], 1, done)
    <3> DEFINE r == record[layout[pos]]
    <3>1. Known /\ done <= Len(Items) /\ Prefix /\ record \in Record
      BY <2>1
    <3>2. layout[pos] \in Members /\ Items \in Seq(Elem) /\ sent[layout[pos]] = Items
      BY <3>1, TargetFacts
    <3>3. r \in Seq(Elem) /\ done <= Len(r) /\ done \in Nat
      BY <2>1, <3>1, <3>2 DEF Record
    <3>4. \A j \in 1 .. done : r[j] = Items[j] /\ r[j] \in Elem /\ Items[j] \in Elem
      BY <3>1, <3>2, <3>3 DEF Prefix
    <3> HIDE DEF r
    <3>5. /\ SubSeq(r, 1, done) \in Seq(Elem) /\ Len(SubSeq(r, 1, done)) = done
          /\ \A j \in 1 .. done : SubSeq(r, 1, done)[j] = r[j]
      BY <3>3, <3>4, SubSeqProperties
    <3>6. /\ SubSeq(Items, 1, done) \in Seq(Elem) /\ Len(SubSeq(Items, 1, done)) = done
          /\ \A j \in 1 .. done : SubSeq(Items, 1, done)[j] = Items[j]
      BY <3>3, <3>4, SubSeqProperties
    <3>7. SubSeq(r, 1, done) = SubSeq(Items, 1, done)
      BY <3>4, <3>5, <3>6, SeqEqual
    <3> QED
      BY <3>2, <3>7 DEF r
  <2> QED
    BY <2>1 DEF OneMemberAtATime
<1> QED
  BY <1>1, Inductive, PTL

(***************************************************************************)
(* Every step of a decode takes it on: to a later place on the wire, to    *)
(* the elements of the member there, or to a later one of them; and never  *)
(* past the end of the wire or of the member.                              *)
(***************************************************************************)
Stages == [member |-> 1, element |-> 2, returned |-> 3, failed |-> 3]
Advances ==
  [][\/ pos' > pos /\ pos' <= Len(layout) + 1
     \/ pos' = pos /\ Stages[pc'] > Stages[pc]
     \/ UNCHANGED <<pos, pc>> /\ done' > done /\ done' <= Len(Items)]_vars

(***************************************************************************)
(* No step of a decode goes back, stays or runs over: whatever fields the  *)
(* writer has added or left out, and however long the vectors are, a place *)
(* is taken once and so is each element, up to the last.                   *)
(***************************************************************************)
THEOREM AlwaysAdvances == Spec => Advances
<1> DEFINE Further == \/ pos' > pos /\ pos' <= Len(layout) + 1
                      \/ pos' = pos /\ Stages[pc'] > Stages[pc]
                      \/ UNCHANGED <<pos, pc>> /\ done' > done /\ done' <= Len(Items)
<1>1. ASSUME IInv, Next PROVE Further
  <2>1. pos \in Nat /\ done \in Nat /\ Len(layout) \in Nat
    BY <1>1 DEF WellLaid
  <2>2. CASE BeginMember
    <3>1. pos' = pos /\ pc = "member" /\ pc' = "element"
      BY <2>2, Zenon DEF BeginMember
    <3> QED
      BY <3>1 DEF Stages
  <2>3. CASE DecodeElement
    <3>1. UNCHANGED <<pos, pc>> /\ done' = done + 1 /\ done < Len(Items) /\ pc = "element"
      BY <2>3, Zenon DEF DecodeElement
    <3>2. Len(Items) \in Nat
      <4>1. Items \in Seq(Elem)
        BY <1>1, <3>1, TargetFacts
      <4> QED
        BY <4>1
    <3> QED
      BY <2>1, <3>1, <3>2
  <2>4. CASE EndMember
    <3>1. pos' = pos + 1 /\ More
      BY <1>1, <2>4 DEF EndMember, Known
    <3> QED
      BY <2>1, <3>1 DEF More
  <2>5. CASE SkipOther
    BY <2>1, <2>5 DEF SkipOther, More
  <2>6. CASE Return
    BY <2>6 DEF Return, Stages
  <2>7. CASE Fail
    <3>1. pos' = pos /\ pc \in {"member", "element"} /\ pc' = "failed"
      BY <2>7, Zenon DEF Fail
    <3> QED
      BY <3>1 DEF Stages
  <2> QED
    BY <1>1, <2>2, <2>3, <2>4, <2>5, <2>6, <2>7 DEF Next, Decode
<1> QED
  BY <1>1, Inductive, PTL DEF Spec, Advances
=============================================================================
