------------------------- MODULE ProtobufRecordProofs -------------------------
(***************************************************************************)
(* The types of ProtobufRecord and its three safety invariants, for any    *)
(* number of messages, calls and items, any strings, any integers of any   *)
(* size, and any strings from elsewhere.  A parse is followed field by     *)
(* field: Merging says what the message holds so far, so that Success is   *)
(* AcceptedIsMerged, and Fail, with a part of one more field, is           *)
(* RejectedForCause.  The fields so far are those the parser took, and     *)
(* TakenAsTheyAre says how far they are those of the string: up to a       *)
(* packed field whose length was taken for an id.  What a string of fields *)
(* stands for is a FlattenSeq, which the first lemmas take apart.          *)
(***************************************************************************)
EXTENDS ProtobufRecord, SequenceTheorems, WellFoundedInduction, TLAPS

-----------------------------------------------------------------------------
(* Lemmas about sequences. *)

\* A set that has 0 and, with a number, the next one has them all.
LEMMA Induction ==
  ASSUME NEW S, 0 \in S, \A n \in Nat : n \in S => n + 1 \in S
  PROVE  Nat \subseteq S
<1> SUFFICES ASSUME Nat \ S # {} PROVE FALSE
  OBVIOUS
<1> DEFINE R == {ss \in Nat \X Nat : ss[1] < ss[2]}
<1>1. IsWellFoundedOn(R, Nat)
  BY NatLessThanWellFounded DEF OpToRel
<1> HIDE DEF R
<1>2. PICK n \in Nat \ S : \A k \in Nat \ S : <<k, n>> \notin R
  BY <1>1, WFMin
<1>3. n - 1 \in Nat /\ (n - 1) + 1 = n
  BY <1>2
<1>4. <<n - 1, n>> \in R
  BY <1>3 DEF R
<1> QED
  BY <1>2, <1>3, <1>4

\* The function by which FlattenSeq is defined is one.
LEMMA FlattenIsDefined ==
  ASSUME NEW s, Len(s) \in Nat
  PROVE  \E g : /\ g = [i \in 1 .. Len(s) |-> IF i = 1 THEN s[i] ELSE g[i - 1] \o s[i]]
                /\ FlattenSeq(s) = IF Len(s) = 0 THEN s ELSE g[Len(s)]
<1> DEFINE Is(n, g) == g = [i \in 1 .. n |-> IF i = 1 THEN s[i] ELSE g[i - 1] \o s[i]]
           S == {n \in Nat : \E g : Is(n, g)}
<1>1. Nat \subseteq S
  <2>1. 0 \in S
    <3>1. Is(0, [i \in 1 .. 0 |-> s[i]])
      OBVIOUS
    <3> QED
      BY <3>1
  <2>2. ASSUME NEW n \in Nat, n \in S
        PROVE  n + 1 \in S
    <3>1. PICK g : Is(n, g)
      BY <2>2
    <3> DEFINE h == [i \in 1 .. n + 1 |-> IF i <= n THEN g[i] ELSE IF i = 1 THEN s[i] ELSE g[i - 1] \o s[i]]
    <3>2. \A i \in 1 .. n : h[i] = g[i]
      OBVIOUS
    <3>3. \A i \in 1 .. n : g[i] = IF i = 1 THEN s[i] ELSE g[i - 1] \o s[i]
      BY <3>1
    <3>4. \A i \in 1 .. n + 1 : h[i] = IF i = 1 THEN s[i] ELSE h[i - 1] \o s[i]
      <4> TAKE i \in 1 .. n + 1
      <4>1. CASE i <= n
        <5>1. i \in 1 .. n /\ (i # 1 => i - 1 \in 1 .. n)
          BY <4>1
        <5> HIDE DEF h
        <5> QED
          BY <5>1, <3>2, <3>3
      <4>2. CASE i = n + 1
        <5>1. ~(i <= n) /\ (i # 1 => i - 1 \in 1 .. n)
          BY <4>2
        <5>2. h[i] = IF i = 1 THEN s[i] ELSE g[i - 1] \o s[i]
          BY <5>1
        <5> HIDE DEF h
        <5> QED
          BY <5>1, <5>2, <3>2
      <4> QED
        BY <4>1, <4>2
    <3>5. h = [i \in 1 .. n + 1 |-> h[i]]
      OBVIOUS
    <3> HIDE DEF h
    <3>6. Is(n + 1, h)
      BY <3>4, <3>5
    <3> HIDE DEF Is
    <3> QED
      BY <3>6
  <2> HIDE DEF S
  <2> QED
    BY <2>1, <2>2, Induction
<1>2. \E g : Is(Len(s), g)
  BY <1>1
<1> DEFINE f == CHOOSE g : Is(Len(s), g)
<1>3. Is(Len(s), f)
  BY <1>2, Zenon
<1>4. FlattenSeq(s) = IF Len(s) = 0 THEN s ELSE f[Len(s)]
  BY Zenon DEF FlattenSeq
<1> HIDE DEF f
<1> QED
  BY <1>3, <1>4

\* FlattenSeq goes from the left to the right.
LEMMA FlattenAppend ==
  ASSUME NEW X, NEW s \in Seq(Seq(X)), NEW t \in Seq(X)
  PROVE  /\ FlattenSeq(s) \in Seq(X)
         /\ FlattenSeq(Append(s, t)) = FlattenSeq(s) \o t
<1> DEFINE n == Len(s)
           st == Append(s, t)
<1>1. n \in Nat /\ Len(st) = n + 1 /\ st[n + 1] = t /\ \A i \in 1 .. n : st[i] = s[i] /\ s[i] \in Seq(X)
  OBVIOUS
<1> HIDE DEF st, n
<1>2. PICK g : /\ g = [i \in 1 .. n |-> IF i = 1 THEN s[i] ELSE g[i - 1] \o s[i]]
               /\ FlattenSeq(s) = IF n = 0 THEN s ELSE g[n]
  BY <1>1, FlattenIsDefined DEF n
<1>3. PICK h : /\ h = [i \in 1 .. n + 1 |-> IF i = 1 THEN st[i] ELSE h[i - 1] \o st[i]]
               /\ FlattenSeq(st) = h[n + 1]
  <2>1. Len(st) \in Nat /\ Len(st) # 0
    BY <1>1
  <2> QED
    BY <2>1, <1>1, FlattenIsDefined
<1>4. \A i \in 1 .. n : g[i] = IF i = 1 THEN s[i] ELSE g[i - 1] \o s[i]
  BY <1>2
<1>5. \A i \in 1 .. n + 1 : h[i] = IF i = 1 THEN st[i] ELSE h[i - 1] \o st[i]
  BY <1>3
<1> DEFINE S == {i \in Nat : i \in 1 .. n => h[i] = g[i] /\ g[i] \in Seq(X)}
<1>6. Nat \subseteq S
  <2>1. 0 \in S
    OBVIOUS
  <2>2. ASSUME NEW i \in Nat, i \in S
        PROVE  i + 1 \in S
    <3> SUFFICES ASSUME i + 1 \in 1 .. n PROVE h[i + 1] = g[i + 1] /\ g[i + 1] \in Seq(X)
      OBVIOUS
    <3>1. st[i + 1] = s[i + 1] /\ s[i + 1] \in Seq(X) /\ i + 1 \in 1 .. n + 1 /\ (i + 1) - 1 = i
      BY <1>1
    <3>2. CASE i = 0
      <4>1. g[i + 1] = s[i + 1] /\ h[i + 1] = st[i + 1]
        BY <3>2, <3>1, <1>4, <1>5
      <4> QED
        BY <4>1, <3>1
    <3>3. CASE i # 0
      <4>1. h[i] = g[i] /\ g[i] \in Seq(X)
        BY <3>3, <2>2, <1>1
      <4>2. g[i + 1] = g[i] \o s[i + 1] /\ h[i + 1] = h[i] \o st[i + 1]
        <5>1. i + 1 # 1
          BY <3>3
        <5>2. /\ g[i + 1] = IF i + 1 = 1 THEN s[i + 1] ELSE g[(i + 1) - 1] \o s[i + 1]
              /\ h[i + 1] = IF i + 1 = 1 THEN st[i + 1] ELSE h[(i + 1) - 1] \o st[i + 1]
          BY <3>1, <1>4, <1>5
        <5> QED
          BY <5>1, <5>2, <3>1
      <4>3. g[i] \o s[i + 1] \in Seq(X)
        BY <4>1, <3>1
      <4> QED
        BY <4>1, <4>2, <4>3, <3>1
    <3> QED
      BY <3>2, <3>3
  <2> HIDE DEF S
  <2> QED
    BY <2>1, <2>2, Induction
<1> HIDE DEF S
<1>7. CASE n = 0
  <2>1. s = <<>> /\ <<>> \o t = t
    BY <1>7 DEF n
  <2>2. FlattenSeq(s) = <<>>
    BY <2>1, <1>2, <1>7
  <2>3. FlattenSeq(st) = t
    BY <1>1, <1>3, <1>5, <1>7
  <2> QED
    BY <2>1, <2>2, <2>3, EmptySeq DEF st
<1>8. CASE n # 0
  <2>1. n \in Nat
    BY <1>1
  <2>2. n \in 1 .. n /\ n + 1 \in 1 .. n + 1 /\ n + 1 # 1 /\ (n + 1) - 1 = n
    BY <2>1, <1>8
  <2>3. h[n] = g[n] /\ g[n] \in Seq(X)
    BY <1>6, <2>1, <2>2 DEF S
  <2>4. h[n + 1] = h[n] \o t
    BY <1>1, <1>5, <2>2
  <2> QED
    BY <2>3, <2>4, <1>2, <1>3, <1>8 DEF st
<1> QED
  BY <1>7, <1>8

\* An item appended to the second part is appended to the whole.
LEMMA AppendToConcat ==
  ASSUME NEW X, NEW s \in Seq(X), NEW t \in Seq(X), NEW e \in X
  PROVE  s \o Append(t, e) = Append(s \o t, e) /\ s \o t \in Seq(X)
<1>1. s \o t \in Seq(X) /\ <<e>> \in Seq(X)
  OBVIOUS
<1>2. Append(t, e) = t \o <<e>> /\ Append(s \o t, e) = (s \o t) \o <<e>>
  BY <1>1, AppendIsConcat
<1> QED
  BY <1>1, <1>2, ConcatAssociative

\* What is flattened in two parts is flattened as a whole.
LEMMA FlattenConcat ==
  ASSUME NEW X, NEW s \in Seq(Seq(X)), NEW t \in Seq(Seq(X))
  PROVE  FlattenSeq(s \o t) = FlattenSeq(s) \o FlattenSeq(t)
<1> DEFINE Good == {n \in Nat : n <= Len(t) =>
                      FlattenSeq(s \o SubSeq(t, 1, n)) = FlattenSeq(s) \o FlattenSeq(SubSeq(t, 1, n))}
<1>1. 0 \in Good
  <2>1. SubSeq(t, 1, 0) = <<>> /\ s \o <<>> = s
    OBVIOUS
  <2>2. FlattenSeq(<<>>) = <<>>
    BY DEF FlattenSeq
  <2>3. FlattenSeq(s) \o <<>> = FlattenSeq(s)
    BY FlattenAppend, EmptySeq, ConcatEmptySeq
  <2> QED
    BY <2>1, <2>2, <2>3
<1>2. ASSUME NEW n \in Nat, n \in Good
      PROVE  n + 1 \in Good
  <2> SUFFICES ASSUME n + 1 <= Len(t)
               PROVE  FlattenSeq(s \o SubSeq(t, 1, n + 1)) = FlattenSeq(s) \o FlattenSeq(SubSeq(t, 1, n + 1))
    OBVIOUS
  <2> DEFINE v == SubSeq(t, 1, n)
             e == t[n + 1]
  <2>1. v \in Seq(Seq(X)) /\ e \in Seq(X) /\ SubSeq(t, 1, n + 1) = Append(v, e)
    OBVIOUS
  <2>2. FlattenSeq(s \o v) = FlattenSeq(s) \o FlattenSeq(v)
    BY <1>2
  <2> HIDE DEF v, e
  <2>3. s \o Append(v, e) = Append(s \o v, e) /\ s \o v \in Seq(Seq(X))
    BY <2>1, AppendToConcat
  <2>4. /\ FlattenSeq(Append(s \o v, e)) = FlattenSeq(s \o v) \o e
        /\ FlattenSeq(Append(v, e)) = FlattenSeq(v) \o e
        /\ FlattenSeq(s) \in Seq(X) /\ FlattenSeq(v) \in Seq(X)
    BY <2>1, <2>3, FlattenAppend
  <2>5. (FlattenSeq(s) \o FlattenSeq(v)) \o e = FlattenSeq(s) \o (FlattenSeq(v) \o e)
    <3> DEFINE a == FlattenSeq(s)
               b == FlattenSeq(v)
    <3>1. a \in Seq(X) /\ b \in Seq(X) /\ e \in Seq(X)
      BY <2>1, <2>4
    <3> HIDE DEF a, b
    <3>2. (a \o b) \o e = a \o (b \o e)
      BY <3>1, ConcatAssociative, SMTT(30)
    <3> QED
      BY <3>2 DEF a, b
  <2>6. /\ FlattenSeq(s \o Append(v, e)) = (FlattenSeq(s) \o FlattenSeq(v)) \o e
        /\ FlattenSeq(s) \o FlattenSeq(Append(v, e)) = FlattenSeq(s) \o (FlattenSeq(v) \o e)
    BY <2>2, <2>3, <2>4, Zenon
  <2> QED
    BY <2>1, <2>5, <2>6, Zenon
<1> HIDE DEF Good
<1>3. Len(t) \in Good
  <2>1. Nat \subseteq Good
    BY <1>1, <1>2, Induction
  <2> QED
    BY <2>1
<1>4. FlattenSeq(s \o SubSeq(t, 1, Len(t))) = FlattenSeq(s) \o FlattenSeq(SubSeq(t, 1, Len(t)))
  BY <1>3 DEF Good
<1> QED
  BY <1>4, SubSeqFull

\* The size of a field of integers is a number.
LEMMA BytesIsNat ==
  ASSUME NEW ids \in Seq(Ids)
  PROVE  Bytes(ids) \in Nat
<1> DEFINE Is(n, g) == g = [k \in 0 .. n |-> IF k = 0 THEN 0 ELSE g[k - 1] + Int64Size(ids[k])]
           Defined(n) == \E g \in [0 .. n -> Nat] : Is(n, g)
           Good == {n \in Nat : n <= Len(ids) => Defined(n)}
<1>1. Len(ids) \in Nat /\ \A k \in 1 .. Len(ids) : Int64Size(ids[k]) \in Nat
  BY SizesAssumption
<1>2. 0 \in Good
  <2>1. Is(0, [k \in 0 .. 0 |-> 0]) /\ [k \in 0 .. 0 |-> 0] \in [0 .. 0 -> Nat]
    OBVIOUS
  <2>2. Defined(0)
    BY <2>1
  <2> HIDE DEF Defined
  <2> QED
    BY <2>2
<1>3. ASSUME NEW n \in Nat, n \in Good
      PROVE  n + 1 \in Good
  <2> SUFFICES ASSUME n + 1 <= Len(ids) PROVE Defined(n + 1)
    <3> HIDE DEF Defined
    <3> QED
      OBVIOUS
  <2>0. Defined(n)
    <3> HIDE DEF Defined
    <3> QED
      BY <1>1, <1>3
  <2>1. PICK g \in [0 .. n -> Nat] : Is(n, g)
    BY <2>0
  <2> DEFINE h == [k \in 0 .. n + 1 |-> IF k <= n THEN g[k] ELSE g[n] + Int64Size(ids[k])]
  <2>2. h \in [0 .. n + 1 -> Nat]
    <3>1. n + 1 \in 1 .. Len(ids) /\ Int64Size(ids[n + 1]) \in Nat
      BY <1>1
    <3>2. \A k \in 0 .. n + 1 : ~(k <= n) => k = n + 1
      OBVIOUS
    <3> QED
      BY <2>1, <3>1, <3>2
  <2>3. (\A k \in 0 .. n : h[k] = g[k]) /\ h[n + 1] = g[n] + Int64Size(ids[n + 1])
    OBVIOUS
  <2>4. \A k \in 0 .. n : g[k] = IF k = 0 THEN 0 ELSE g[k - 1] + Int64Size(ids[k])
    BY <2>1
  <2>5. h = [k \in 0 .. n + 1 |-> h[k]]
    OBVIOUS
  <2> HIDE DEF h
  <2>6. \A k \in 0 .. n + 1 : h[k] = IF k = 0 THEN 0 ELSE h[k - 1] + Int64Size(ids[k])
    <3> TAKE k \in 0 .. n + 1
    <3>1. CASE k <= n
      <4>1. k \in 0 .. n /\ (k # 0 => k - 1 \in 0 .. n)
        BY <3>1
      <4> QED
        BY <4>1, <2>3, <2>4
    <3>2. CASE k = n + 1
      <4>1. k # 0 /\ k - 1 = n /\ n \in 0 .. n
        BY <3>2
      <4> QED
        BY <3>2, <4>1, <2>3
    <3> QED
      BY <3>1, <3>2
  <2>7. Is(n + 1, h)
    BY <2>5, <2>6
  <2> HIDE DEF Is
  <2> QED
    BY <2>2, <2>7
<1> HIDE DEF Good
<1>4. Nat \subseteq Good
  BY <1>2, <1>3, Induction
<1>5. Defined(Len(ids))
  <2> HIDE DEF Defined
  <2> QED
    BY <1>1, <1>4 DEF Good
<1> DEFINE f == CHOOSE g : Is(Len(ids), g)
<1>6. Is(Len(ids), f)
  BY <1>5, Zenon
<1>7. Bytes(ids) = f[Len(ids)]
  BY Zenon DEF Bytes
<1> HIDE DEF f
<1>8. f = [k \in 0 .. Len(ids) |-> IF k = 0 THEN 0 ELSE f[k - 1] + Int64Size(ids[k])]
  BY <1>6
<1>9. \A k \in 0 .. Len(ids) : f[k] = IF k = 0 THEN 0 ELSE f[k - 1] + Int64Size(ids[k])
  BY <1>8
<1> DEFINE Num == {k \in Nat : k <= Len(ids) => f[k] \in Nat}
<1>10. Nat \subseteq Num
  <2>1. 0 \in Num
    BY <1>1, <1>9
  <2>2. ASSUME NEW k \in Nat, k \in Num
        PROVE  k + 1 \in Num
    <3> SUFFICES ASSUME k + 1 <= Len(ids) PROVE f[k + 1] \in Nat
      OBVIOUS
    <3>1. f[k] \in Nat /\ k + 1 \in 0 .. Len(ids) /\ k + 1 \in 1 .. Len(ids) /\ k + 1 # 0 /\ (k + 1) - 1 = k
      BY <1>1, <2>2
    <3>2. f[k + 1] = f[k] + Int64Size(ids[k + 1])
      BY <3>1, <1>9
    <3> QED
      BY <1>1, <3>1, <3>2
  <2> HIDE DEF Num
  <2> QED
    BY <2>1, <2>2, Induction
<1> QED
  BY <1>1, <1>7, <1>10

-----------------------------------------------------------------------------
(* Lemmas about fields and what they stand for. *)

Item == Ids \cup Strings \cup Foreign

\* What the parts of a message are, whatever items they are made of.
Parts == [ids : Seq(Item), strings : Seq(Item), unknown : Seq(Item)]

\* A field, its items if it is of one of the kinds.
Given(f, kinds) == IF f.kind \in kinds THEN f.items ELSE <<>>

\* What a string carries is what its two parts carry, one after the other.
LEMMA CarriedConcat ==
  ASSUME NEW v \in Seq(Field), NEW w \in Seq(Field), NEW kinds
  PROVE  /\ Carried(v, kinds) \in Seq(Item)
         /\ Carried(v \o w, kinds) = Carried(v, kinds) \o Carried(w, kinds)
<1> DEFINE G(u) == [k \in DOMAIN u |-> Given(u[k], kinds)]
<1>1. ASSUME NEW u \in Seq(Field)
      PROVE  G(u) \in Seq(Seq(Item)) /\ Len(G(u)) = Len(u) /\ Carried(u, kinds) = FlattenSeq(G(u))
  <2>1. DOMAIN u = 1 .. Len(u) /\ Len(u) \in Nat /\ \A k \in 1 .. Len(u) : u[k] \in Field
    OBVIOUS
  <2>2. \A k \in 1 .. Len(u) : Given(u[k], kinds) \in Seq(Item)
    BY <2>1 DEF Given, Field, Item
  <2>3. G(u) = [k \in 1 .. Len(u) |-> Given(u[k], kinds)]
    BY <2>1
  <2>4. G(u) \in Seq(Seq(Item)) /\ Len(G(u)) = Len(u)
    BY <2>1, <2>2, <2>3
  <2>5. Carried(u, kinds) = FlattenSeq(G(u))
    BY DEF Carried, Given
  <2> QED
    BY <2>4, <2>5
<1>2. v \o w \in Seq(Field) /\ Len(v \o w) = Len(v) + Len(w) /\ Len(v) \in Nat /\ Len(w) \in Nat
  OBVIOUS
<1>3. G(v \o w) = G(v) \o G(w)
  <2>1. /\ G(v \o w) \in Seq(Seq(Item)) /\ Len(G(v \o w)) = Len(v) + Len(w)
        /\ G(v) \in Seq(Seq(Item)) /\ Len(G(v)) = Len(v)
        /\ G(w) \in Seq(Seq(Item)) /\ Len(G(w)) = Len(w)
    BY <1>1, <1>2
  <2>2. /\ G(v) \o G(w) \in Seq(Seq(Item)) /\ Len(G(v) \o G(w)) = Len(v) + Len(w)
        /\ \A k \in 1 .. Len(v) + Len(w) :
             (G(v) \o G(w))[k] = IF k <= Len(v) THEN G(v)[k] ELSE G(w)[k - Len(v)]
    <3> DEFINE a == G(v)
               b == G(w)
    <3> SUFFICES /\ a \o b \in Seq(Seq(Item)) /\ Len(a \o b) = Len(a) + Len(b)
                 /\ \A k \in 1 .. Len(a) + Len(b) :
                      (a \o b)[k] = IF k <= Len(a) THEN a[k] ELSE b[k - Len(a)]
      <4> HIDE DEF G
      <4> QED
        BY <2>1
    <3>1. a \in Seq(Seq(Item)) /\ b \in Seq(Seq(Item))
      BY <2>1
    <3> HIDE DEF a, b
    <3> QED
      BY <3>1, ConcatProperties
  <2>3. \A k \in 1 .. Len(v) + Len(w) :
          G(v \o w)[k] = IF k <= Len(v) THEN G(v)[k] ELSE G(w)[k - Len(v)]
    <3> TAKE k \in 1 .. Len(v) + Len(w)
    <3>1. G(v \o w)[k] = Given((v \o w)[k], kinds)
      BY <1>2
    <3>2. (v \o w)[k] = IF k <= Len(v) THEN v[k] ELSE w[k - Len(v)]
      BY <1>2
    <3>3. k <= Len(v) => G(v)[k] = Given(v[k], kinds)
      BY <1>2
    <3>4. ~(k <= Len(v)) => G(w)[k - Len(v)] = Given(w[k - Len(v)], kinds)
      BY <1>2
    <3> HIDE DEF G
    <3> QED
      BY <3>1, <3>2, <3>3, <3>4
  <2> HIDE DEF G
  <2> QED
    BY <2>1, <2>2, <2>3, SeqEqual
<1> HIDE DEF G
<1>4. /\ FlattenSeq(G(v)) \in Seq(Item)
      /\ FlattenSeq(G(v) \o G(w)) = FlattenSeq(G(v)) \o FlattenSeq(G(w))
  BY <1>1, FlattenConcat, FlattenAppend, EmptySeq
<1> QED
  BY <1>1, <1>2, <1>3, <1>4

\* A string without fields carries nothing.
LEMMA CarriedNone ==
  ASSUME NEW kinds
  PROVE  Carried(<<>>, kinds) = <<>>
BY DEF Carried, FlattenSeq

\* A field alone carries its items, if it is of one of the kinds.
LEMMA CarriedOne ==
  ASSUME NEW f \in Field, NEW kinds
  PROVE  Carried(<<f>>, kinds) = Given(f, kinds)
<1>1. Given(f, kinds) \in Seq(Item)
  BY DEF Given, Field, Item
<1>2. Carried(<<f>>, kinds) = FlattenSeq(<<Given(f, kinds)>>)
  <2>1. [k \in DOMAIN <<f>> |-> IF <<f>>[k].kind \in kinds THEN <<f>>[k].items ELSE <<>>]
          = <<Given(f, kinds)>>
    BY DEF Given
  <2> QED
    BY <2>1 DEF Carried
<1>3. FlattenSeq(<<>>) = <<>>
  BY DEF FlattenSeq
<1>4. /\ <<>> \in Seq(Seq(Item)) /\ Append(<<>>, Given(f, kinds)) = <<Given(f, kinds)>>
      /\ <<>> \o Given(f, kinds) = Given(f, kinds)
  BY <1>1
<1> QED
  BY <1>1, <1>2, <1>3, <1>4, FlattenAppend

\* Fields of one kind, with an item of q each.
Ones(kind, q) == [k \in DOMAIN q |-> One(kind, q[k])]

\* They carry these items to whoever asks for their kind.
LEMMA CarriedOfOnes ==
  ASSUME NEW q \in Seq(Item), NEW kind \in Kinds, NEW kinds
  PROVE  /\ Ones(kind, q) \in Seq(Field)
         /\ Carried(Ones(kind, q), kinds) = IF kind \in kinds THEN q ELSE <<>>
<1> DEFINE v == Ones(kind, q)
<1>1. Len(q) \in Nat /\ DOMAIN q = 1 .. Len(q) /\ \A k \in 1 .. Len(q) : q[k] \in Item
  OBVIOUS
<1>2. \A k \in 1 .. Len(q) : One(kind, q[k]) \in Field
  BY <1>1 DEF One, Field, Item
<1>3. v \in Seq(Field) /\ Len(v) = Len(q) /\ \A k \in 1 .. Len(q) : v[k] = One(kind, q[k])
  BY <1>1, <1>2 DEF Ones
<1> HIDE DEF v
<1> DEFINE
  Is(n) == Carried(SubSeq(v, 1, n), kinds) = IF kind \in kinds THEN SubSeq(q, 1, n) ELSE <<>>
  Good == {n \in Nat : n <= Len(q) => Is(n)}
<1>4. 0 \in Good
  <2>1. SubSeq(v, 1, 0) = <<>> /\ SubSeq(q, 1, 0) = <<>>
    BY <1>1, <1>3
  <2>2. Is(0)
    BY <2>1, CarriedNone
  <2> HIDE DEF Is
  <2> QED
    BY <2>2
<1>5. ASSUME NEW n \in Nat, n \in Good
      PROVE  n + 1 \in Good
  <2> SUFFICES ASSUME n + 1 <= Len(q) PROVE Is(n + 1)
    <3> HIDE DEF Is
    <3> QED
      OBVIOUS
  <2>1. Is(n)
    <3> HIDE DEF Is
    <3> QED
      BY <1>1, <1>5
  <2> DEFINE vn == SubSeq(v, 1, n)
             qn == SubSeq(q, 1, n)
             x == q[n + 1]
  <2>2. n + 1 \in 1 .. Len(q) /\ 1 \in 1 .. Len(q) /\ n + 1 \in 1 .. Len(v) /\ (n + 1) - 1 = n
    BY <1>1, <1>3
  <2>3. /\ SubSeq(v, 1, n + 1) = vn \o <<One(kind, x)>>
        /\ SubSeq(q, 1, n + 1) = qn \o <<x>>
    BY <1>3, <2>2, SubSeqRecursiveSecond
  <2>4. vn \in Seq(Field) /\ qn \in Seq(Item) /\ One(kind, x) \in Field
    BY <1>1, <1>2, <1>3, <2>2
  <2>5. Given(One(kind, x), kinds) = IF kind \in kinds THEN <<x>> ELSE <<>>
    BY DEF Given, One
  <2>6. Carried(vn, kinds) = IF kind \in kinds THEN qn ELSE <<>>
    BY <2>1
  <2> HIDE DEF vn, qn, x
  <2>7. <<One(kind, x)>> \in Seq(Field)
    BY <2>4
  <2>8. Carried(vn \o <<One(kind, x)>>, kinds) = Carried(vn, kinds) \o Carried(<<One(kind, x)>>, kinds)
    BY <2>4, <2>7, CarriedConcat
  <2>9. Carried(<<One(kind, x)>>, kinds) = Given(One(kind, x), kinds)
    BY <2>4, CarriedOne
  <2>10. Carried(vn \o <<One(kind, x)>>, kinds) = IF kind \in kinds THEN qn \o <<x>> ELSE <<>>
    <3>1. CASE kind \in kinds
      BY <3>1, <2>5, <2>6, <2>8, <2>9
    <3>2. CASE kind \notin kinds
      <4>1. <<>> \o <<>> = <<>>
        OBVIOUS
      <4> QED
        BY <3>2, <4>1, <2>5, <2>6, <2>8, <2>9
    <3> QED
      BY <3>1, <3>2
  <2> QED
    BY <2>3, <2>10
<1> HIDE DEF Good
<1>6. Nat \subseteq Good
  BY <1>4, <1>5, Induction
<1>7. Is(Len(q))
  <2> HIDE DEF Is
  <2> QED
    BY <1>1, <1>6 DEF Good
<1> QED
  BY <1>3, <1>7, SubSeqFull DEF v

\* A content has the parts of a message.
LEMMA ContentHasParts == Content \subseteq Parts
<1> SUFFICES ASSUME NEW c \in Content PROVE c \in Parts
  OBVIOUS
<1>1. /\ c.ids \in Seq(Ids) /\ c.strings \in Seq(Strings) /\ c.unknown \in Seq(Foreign)
      /\ c = [ids |-> c.ids, strings |-> c.strings, unknown |-> c.unknown]
  BY DEF Content
<1>2. c.ids \in Seq(Item) /\ c.strings \in Seq(Item) /\ c.unknown \in Seq(Item)
  BY <1>1, SeqMonotonic DEF Item
<1> QED
  BY <1>1, <1>2 DEF Parts

\* Sequences of items may be put together in any order.
LEMMA Associative == \A q, r, t \in Seq(Item) : (q \o r) \o t = q \o (r \o t)
<1> TAKE q, r, t \in Seq(Item)
<1> QED
  BY ConcatAssociative

\* Merging is associative, and an empty message adds nothing.
LEMMA MergedFacts ==
  ASSUME NEW c \in Parts, NEW d \in Parts, NEW e \in Parts
  PROVE  /\ Merged(c, d) \in Parts /\ Empty \in Parts
         /\ Merged(Merged(c, d), e) = Merged(c, Merged(d, e))
         /\ Merged(c, Empty) = c /\ Merged(Empty, c) = c
<1>1. ASSUME NEW p \in Parts
      PROVE  /\ p.ids \in Seq(Item) /\ p.strings \in Seq(Item) /\ p.unknown \in Seq(Item)
             /\ p = [ids |-> p.ids, strings |-> p.strings, unknown |-> p.unknown]
  BY DEF Parts
<1>2. Merged(c, d) \in Parts /\ Empty \in Parts
  BY <1>1 DEF Merged, Parts, Empty
<1>3. Merged(Merged(c, d), e) = Merged(c, Merged(d, e))
  <2>1. (c.ids \o d.ids) \o e.ids = c.ids \o (d.ids \o e.ids)
    <3>1. c.ids \in Seq(Item) /\ d.ids \in Seq(Item) /\ e.ids \in Seq(Item)
      BY <1>1
    <3> QED
      BY <3>1, Associative
  <2>2. (c.strings \o d.strings) \o e.strings = c.strings \o (d.strings \o e.strings)
    <3>1. c.strings \in Seq(Item) /\ d.strings \in Seq(Item) /\ e.strings \in Seq(Item)
      BY <1>1
    <3> QED
      BY <3>1, Associative
  <2>3. (c.unknown \o d.unknown) \o e.unknown = c.unknown \o (d.unknown \o e.unknown)
    <3>1. c.unknown \in Seq(Item) /\ d.unknown \in Seq(Item) /\ e.unknown \in Seq(Item)
      BY <1>1
    <3> QED
      BY <3>1, Associative
  <2> QED
    BY <2>1, <2>2, <2>3 DEF Merged
<1>4. Merged(c, Empty) = c /\ Merged(Empty, c) = c
  BY <1>1, ConcatEmptySeq DEF Merged, Empty
<1> QED
  BY <1>2, <1>3, <1>4

\* A string stands for what its two parts stand for, merged.
LEMMA MeaningFacts ==
  ASSUME NEW v \in Seq(Field), NEW w \in Seq(Field)
  PROVE  /\ Meaning(v) \in Parts /\ Meaning(<<>>) = Empty
         /\ Meaning(v \o w) = Merged(Meaning(v), Meaning(w))
BY CarriedConcat, CarriedNone DEF Meaning, Merged, Parts, Empty

\* A field alone stands for its items.
LEMMA MeaningOfOne ==
  ASSUME NEW f \in Field
  PROVE  Meaning(<<f>>) = [ids |-> Given(f, {"packed", "id"}), strings |-> Given(f, {"string"}),
                           unknown |-> Given(f, {"unknown"})]
BY CarriedOne DEF Meaning

\* What a message serializes to stands for it; every field of it is whole and
\* sound, and framed if the size given is right.
LEMMA ImageFacts ==
  ASSUME NEW c \in Content, NEW n \in Nat
  PROVE  /\ Image(c, n) \in Seq(Field)
         /\ Meaning(Image(c, n)) = c
         /\ \A k \in DOMAIN Image(c, n) :
              LET f == Image(c, n)[k]
              IN  /\ Sound(f) /\ f.whole /\ f.kind \notin {"bad", "id"}
                  /\ n = Bytes(c.ids) => Framed(f)
<1> DEFINE
  ids == IF c.ids = <<>> THEN <<>> ELSE <<Packed(n, c.ids)>>
  strings == Ones("string", c.strings)
  unknown == Ones("unknown", c.unknown)
  Right(f) == /\ Sound(f) /\ f.whole /\ f.kind \notin {"bad", "id"}
              /\ n = Bytes(c.ids) => Framed(f)
<1>1. /\ c.ids \in Seq(Item) /\ c.strings \in Seq(Item) /\ c.unknown \in Seq(Item)
      /\ c.ids \in Seq(Ids) /\ c.strings \in Seq(Strings) /\ c.unknown \in Seq(Foreign)
      /\ c = [ids |-> c.ids, strings |-> c.strings, unknown |-> c.unknown]
  BY ContentHasParts DEF Content, Parts
<1>2. Packed(n, c.ids) \in Field /\ Right(Packed(n, c.ids))
  BY <1>1 DEF Packed, Field, Kinds, Item, Sound, Framed
<1>3. ids \in Seq(Field)
  BY <1>2
<1>4. \A kinds : Carried(ids, kinds) = IF "packed" \in kinds THEN c.ids ELSE <<>>
  <2> TAKE kinds
  <2>1. CASE c.ids = <<>>
    BY <2>1, CarriedNone
  <2>2. CASE c.ids # <<>>
    BY <2>2, <1>2, CarriedOne DEF Given, Packed
  <2> QED
    BY <2>1, <2>2
<1>5. /\ strings \in Seq(Field)
      /\ \A kinds : Carried(strings, kinds) = IF "string" \in kinds THEN c.strings ELSE <<>>
  BY <1>1, CarriedOfOnes DEF Kinds
<1>6. /\ unknown \in Seq(Field)
      /\ \A kinds : Carried(unknown, kinds) = IF "unknown" \in kinds THEN c.unknown ELSE <<>>
  BY <1>1, CarriedOfOnes DEF Kinds
<1>7. Image(c, n) = (ids \o strings) \o unknown
  BY DEF Image, Ones
<1>8. \A k \in DOMAIN strings : Right(strings[k])
  BY <1>1 DEF Ones, One, Sound, Framed
<1>9. \A k \in DOMAIN unknown : Right(unknown[k])
  BY <1>1 DEF Ones, One, Sound, Framed
<1>10. \A k \in DOMAIN ids : Right(ids[k])
  BY <1>2
<1> HIDE DEF ids, strings, unknown
<1>11. ids \o strings \in Seq(Field) /\ (ids \o strings) \o unknown \in Seq(Field)
  BY <1>3, <1>5, <1>6
<1>12. Meaning((ids \o strings) \o unknown) = c
  <2>1. ASSUME NEW kinds
        PROVE  Carried((ids \o strings) \o unknown, kinds)
                 = (Carried(ids, kinds) \o Carried(strings, kinds)) \o Carried(unknown, kinds)
    <3>1. Carried((ids \o strings) \o unknown, kinds)
            = Carried(ids \o strings, kinds) \o Carried(unknown, kinds)
      <4> DEFINE both == ids \o strings
      <4>1. both \in Seq(Field)
        BY <1>11
      <4> HIDE DEF both
      <4>2. Carried(both \o unknown, kinds) = Carried(both, kinds) \o Carried(unknown, kinds)
        BY <4>1, <1>6, CarriedConcat
      <4> QED
        BY <4>2 DEF both
    <3>2. Carried(ids \o strings, kinds) = Carried(ids, kinds) \o Carried(strings, kinds)
      BY <1>3, <1>5, CarriedConcat
    <3> QED
      BY <3>1, <3>2
  <2>2. \A q \in Seq(Item) : q \o <<>> = q /\ <<>> \o q = q
    BY ConcatEmptySeq
  <2>3. <<>> \in Seq(Item)
    OBVIOUS
  <2>4. Carried((ids \o strings) \o unknown, {"packed", "id"}) = c.ids
    <3> DEFINE K == {"packed", "id"}
    <3>1. Carried(ids, K) = c.ids /\ Carried(strings, K) = <<>> /\ Carried(unknown, K) = <<>>
      BY <1>4, <1>5, <1>6
    <3>2. Carried((ids \o strings) \o unknown, K) = (c.ids \o <<>>) \o <<>>
      BY <2>1, <3>1, Zenon
    <3>3. c.ids \o <<>> = c.ids
      BY <1>1, <2>2
    <3> QED
      BY <3>2, <3>3, Zenon
  <2>5. Carried((ids \o strings) \o unknown, {"string"}) = c.strings
    <3> DEFINE K == {"string"}
    <3>1. Carried(ids, K) = <<>> /\ Carried(strings, K) = c.strings /\ Carried(unknown, K) = <<>>
      BY <1>4, <1>5, <1>6
    <3>2. Carried((ids \o strings) \o unknown, K) = (<<>> \o c.strings) \o <<>>
      BY <2>1, <3>1, Zenon
    <3>3. <<>> \o c.strings = c.strings /\ c.strings \o <<>> = c.strings
      BY <1>1, <2>2
    <3> QED
      BY <3>2, <3>3, Zenon
  <2>6. Carried((ids \o strings) \o unknown, {"unknown"}) = c.unknown
    <3> DEFINE K == {"unknown"}
    <3>1. Carried(ids, K) = <<>> /\ Carried(strings, K) = <<>> /\ Carried(unknown, K) = c.unknown
      BY <1>4, <1>5, <1>6
    <3>2. Carried((ids \o strings) \o unknown, K) = (<<>> \o <<>>) \o c.unknown
      BY <2>1, <3>1
    <3>3. <<>> \o <<>> = <<>> /\ <<>> \o c.unknown = c.unknown
      BY <1>1, <2>2, <2>3
    <3> QED
      BY <3>2, <3>3
  <2> QED
    BY <2>4, <2>5, <2>6, <1>1 DEF Meaning
<1>13. \A k \in DOMAIN ((ids \o strings) \o unknown) : Right(((ids \o strings) \o unknown)[k])
  <2> HIDE DEF Right
  <2>1. \A v, w \in Seq(Field) :
          (\A k \in DOMAIN v : Right(v[k])) /\ (\A k \in DOMAIN w : Right(w[k]))
            => \A k \in DOMAIN (v \o w) : Right((v \o w)[k])
    <3> TAKE v, w \in Seq(Field)
    <3> HAVE (\A k \in DOMAIN v : Right(v[k])) /\ (\A k \in DOMAIN w : Right(w[k]))
    <3> TAKE k \in DOMAIN (v \o w)
    <3>1. /\ k \in 1 .. Len(v) + Len(w) /\ Len(v) \in Nat /\ Len(w) \in Nat
          /\ (v \o w)[k] = IF k <= Len(v) THEN v[k] ELSE w[k - Len(v)]
      OBVIOUS
    <3>2. (k <= Len(v) => k \in DOMAIN v) /\ (~(k <= Len(v)) => k - Len(v) \in DOMAIN w)
      BY <3>1
    <3> QED
      BY <3>1, <3>2
  <2> QED
    BY <2>1, <1>3, <1>5, <1>6, <1>8, <1>9, <1>10, <1>11
<1> QED
  BY <1>7, <1>11, <1>12, <1>13

\* A sequence is a prefix of what it begins, and prefixing keeps a prefix one.
LEMMA PrefixFacts ==
  ASSUME NEW q \in Seq(Item), NEW r \in Seq(Item), NEW t \in Seq(Item)
  PROVE  /\ IsPrefix(q, q \o r)
         /\ IsPrefix(r, t) => IsPrefix(q \o r, q \o t)
<1>1. ASSUME NEW u \in Seq(Item), NEW v \in Seq(Item)
      PROVE  IsPrefix(u, u \o v)
  <2>1. Len(u) \in Nat /\ Len(v) \in Nat /\ Len(u \o v) = Len(u) + Len(v) /\ u \o v \in Seq(Item)
    OBVIOUS
  <2>2. SubSeq(u, 1, Len(u)) = SubSeq(u \o v, 1, Len(u))
    BY <2>1
  <2> QED
    BY <2>1, <2>2 DEF IsPrefix
<1>2. ASSUME IsPrefix(r, t)
      PROVE  IsPrefix(q \o r, q \o t)
  <2> DEFINE u == SubSeq(t, Len(r) + 1, Len(t))
  <2>1. Len(r) \in Nat /\ Len(t) \in Nat /\ Len(r) <= Len(t) /\ SubSeq(r, 1, Len(r)) = SubSeq(t, 1, Len(r))
    BY <1>2 DEF IsPrefix
  <2>2. u \in Seq(Item)
    BY <2>1
  <2>3. SubSeq(t, 1, Len(r)) \o u = SubSeq(t, 1, Len(t))
    <3>1. 1 \in 1 .. Len(t) + 1 /\ Len(r) \in 1 - 1 .. Len(t) /\ Len(t) \in Len(r) .. Len(t)
      BY <2>1
    <3> QED
      BY <3>1, ConcatAdjacentSubSeq
  <2>4. t = r \o u
    BY <2>1, <2>3, SubSeqFull
  <2> HIDE DEF u
  <2>5. (q \o r) \o u = q \o t
    BY <2>2, <2>4, Associative
  <2>6. q \o r \in Seq(Item)
    OBVIOUS
  <2>7. IsPrefix(q \o r, (q \o r) \o u)
    <3> DEFINE v == q \o r
    <3>1. v \in Seq(Item)
      BY <2>6
    <3> HIDE DEF v
    <3>2. IsPrefix(v, v \o u)
      BY <3>1, <2>2, <1>1
    <3> QED
      BY <3>2 DEF v
  <2> QED
    BY <2>5, <2>7
<1> QED
  BY <1>1, <1>2

\* Merging puts the parts together.
LEMMA MergedParts ==
  \A c, d : /\ Merged(c, d).ids = c.ids \o d.ids /\ Merged(c, d).strings = c.strings \o d.strings
            /\ Merged(c, d).unknown = c.unknown \o d.unknown
BY DEF Merged

\* A message that held kept, took what stands for m and then some of what one
\* more field could give, e of d, has lost nothing and has nothing in excess.
LEMMA LeftByRejection ==
  ASSUME NEW kept \in Parts, NEW m \in Parts, NEW d \in Parts, NEW e \in Parts,
         NEW c, c = Merged(Merged(kept, m), e), NEW read, read = Merged(m, d),
         IsPrefix(e.ids, d.ids), Items(e) <= Items(d)
  PROVE  /\ IsPrefix(kept.ids, c.ids) /\ IsPrefix(c.ids, kept.ids \o read.ids)
         /\ IsPrefix(kept.strings, c.strings)
         /\ IsPrefix(kept.unknown, c.unknown)
         /\ Items(c) <= Items(kept) + Items(read)
<1>1. ASSUME NEW p \in Parts
      PROVE  p.ids \in Seq(Item) /\ p.strings \in Seq(Item) /\ p.unknown \in Seq(Item)
  BY DEF Parts
<1>2. c = Merged(kept, Merged(m, e)) /\ Merged(m, e) \in Parts /\ Merged(m, d) \in Parts
  BY MergedFacts
<1>3. ASSUME NEW p \in Parts, NEW r \in Parts
      PROVE  /\ IsPrefix(p.ids, Merged(p, r).ids) /\ IsPrefix(p.strings, Merged(p, r).strings)
             /\ IsPrefix(p.unknown, Merged(p, r).unknown)
             /\ Items(Merged(p, r)) = Items(p) + Items(r) /\ Items(p) \in Nat
  <2>1. /\ IsPrefix(p.ids, p.ids \o r.ids) /\ IsPrefix(p.strings, p.strings \o r.strings)
        /\ IsPrefix(p.unknown, p.unknown \o r.unknown)
    BY <1>1, PrefixFacts
  <2>2. /\ Len(p.ids) \in Nat /\ Len(p.strings) \in Nat /\ Len(p.unknown) \in Nat
        /\ Len(r.ids) \in Nat /\ Len(r.strings) \in Nat /\ Len(r.unknown) \in Nat
        /\ Len(p.ids \o r.ids) = Len(p.ids) + Len(r.ids)
        /\ Len(p.strings \o r.strings) = Len(p.strings) + Len(r.strings)
        /\ Len(p.unknown \o r.unknown) = Len(p.unknown) + Len(r.unknown)
    <3>1. \A x, y \in Seq(Item) : Len(x) \in Nat /\ Len(y) \in Nat /\ Len(x \o y) = Len(x) + Len(y)
      OBVIOUS
    <3>2. /\ p.ids \in Seq(Item) /\ p.strings \in Seq(Item) /\ p.unknown \in Seq(Item)
          /\ r.ids \in Seq(Item) /\ r.strings \in Seq(Item) /\ r.unknown \in Seq(Item)
      BY <1>1
    <3> QED
      BY <3>1, <3>2, Zenon
  <2>3. /\ Merged(p, r).ids = p.ids \o r.ids /\ Merged(p, r).strings = p.strings \o r.strings
        /\ Merged(p, r).unknown = p.unknown \o r.unknown
    BY MergedParts
  <2>4. Items(Merged(p, r)) = Items(p) + Items(r) /\ Items(p) \in Nat
    <3> DEFINE pi == Len(p.ids)
               ps == Len(p.strings)
               pu == Len(p.unknown)
               ri == Len(r.ids)
               rs == Len(r.strings)
               ru == Len(r.unknown)
    <3>1. Items(p) = pi + ps + pu /\ Items(r) = ri + rs + ru
      BY DEF Items
    <3>2. Items(Merged(p, r)) = Len(p.ids \o r.ids) + Len(p.strings \o r.strings)
                                  + Len(p.unknown \o r.unknown)
      BY <2>3, Zenon DEF Items
    <3>3. Items(Merged(p, r)) = (pi + ri) + (ps + rs) + (pu + ru)
      BY <2>2, <3>2, Zenon
    <3>4. pi \in Nat /\ ps \in Nat /\ pu \in Nat /\ ri \in Nat /\ rs \in Nat /\ ru \in Nat
      BY <2>2
    <3> HIDE DEF pi, ps, pu, ri, rs, ru
    <3> QED
      BY <3>1, <3>3, <3>4
  <2> QED
    BY <2>1, <2>3, <2>4
<1>4. IsPrefix(c.ids, kept.ids \o read.ids)
  <2>1. /\ kept.ids \in Seq(Item) /\ m.ids \in Seq(Item) /\ d.ids \in Seq(Item) /\ e.ids \in Seq(Item)
        /\ m.ids \o e.ids \in Seq(Item) /\ m.ids \o d.ids \in Seq(Item)
    BY <1>1
  <2>2. IsPrefix(m.ids \o e.ids, m.ids \o d.ids)
    BY <2>1, PrefixFacts
  <2> DEFINE x == m.ids \o e.ids
             y == m.ids \o d.ids
  <2>3. x \in Seq(Item) /\ y \in Seq(Item) /\ IsPrefix(x, y)
    BY <2>1, <2>2
  <2>4. c.ids = kept.ids \o x /\ read.ids = y
    <3>1. c.ids = kept.ids \o Merged(m, e).ids /\ read.ids = m.ids \o d.ids
      BY <1>2, MergedParts, Zenon
    <3>2. Merged(m, e).ids = m.ids \o e.ids
      BY MergedParts, Zenon
    <3> QED
      BY <3>1, <3>2, Zenon
  <2> HIDE DEF x, y
  <2>5. IsPrefix(kept.ids \o x, kept.ids \o y)
    BY <2>1, <2>3, PrefixFacts
  <2> QED
    BY <2>4, <2>5
<1>5. Items(c) <= Items(kept) + Items(read)
  <2>1. /\ Items(c) = Items(kept) + Items(Merged(m, e)) /\ Items(Merged(m, e)) = Items(m) + Items(e)
        /\ Items(read) = Items(m) + Items(d)
        /\ Items(kept) \in Nat /\ Items(m) \in Nat /\ Items(d) \in Nat /\ Items(e) \in Nat
    BY <1>2, <1>3
  <2> QED
    BY <2>1
<1> QED
  BY <1>2, <1>3, <1>4, <1>5

\* An item between two sequences is in the whole.
LEMMA ItemBetween ==
  ASSUME NEW a \in Seq(Item), NEW b \in Seq(Item), NEW d \in Seq(Item), Len(b) = 1
  PROVE  \E k \in DOMAIN ((a \o b) \o d) : ((a \o b) \o d)[k] = b[1]
<1> DEFINE ab == a \o b
           k == Len(a) + 1
<1>1. ab \in Seq(Item) /\ Len(ab) = k /\ k \in 1 .. Len(ab) /\ ab[k] = b[1]
  <2>1. Len(a) \in Nat /\ Len(a \o b) = Len(a) + Len(b)
    BY LenProperties, ConcatProperties
  <2>2. ab \in Seq(Item) /\ Len(ab) = k /\ k \in 1 .. Len(ab)
    BY <2>1
  <2>3. ab[k] = b[1]
    BY <2>1
  <2> QED
    BY <2>2, <2>3
<1> HIDE DEF ab, k
<1>2. k \in DOMAIN (ab \o d) /\ (ab \o d)[k] = ab[k]
  BY <1>1
<1> QED
  BY <1>1, <1>2 DEF ab

\* An item alone in its field is found in what the string carries.
LEMMA CarriesEach ==
  ASSUME NEW w \in Seq(Field), NEW n \in 1 .. Len(w), NEW kinds, Len(Given(w[n], kinds)) = 1
  PROVE  \E k \in DOMAIN Carried(w, kinds) : Carried(w, kinds)[k] = Given(w[n], kinds)[1]
<1>1. /\ 1 \in 1 .. Len(w) /\ n \in 1 .. Len(w) /\ n \in 1 - 1 .. Len(w) /\ 1 \in 1 .. Len(w) + 1
      /\ Len(w) \in n .. Len(w) /\ w[n] \in Field
  OBVIOUS
<1>2. PICK before, rest : /\ before \in Seq(Field) /\ rest \in Seq(Field)
                          /\ w = (before \o <<w[n]>>) \o rest
  <2> DEFINE before == SubSeq(w, 1, n - 1)
             upto == SubSeq(w, 1, n)
             rest == SubSeq(w, n + 1, Len(w))
  <2>1. upto = before \o <<w[n]>>
    BY <1>1, SubSeqRecursiveSecond
  <2>2. upto \o rest = SubSeq(w, 1, Len(w)) /\ SubSeq(w, 1, Len(w)) = w
    BY <1>1, ConcatAdjacentSubSeq, SubSeqFull
  <2>3. before \in Seq(Field) /\ rest \in Seq(Field)
    BY <1>1
  <2> HIDE DEF before, upto, rest
  <2> QED
    BY <2>1, <2>2, <2>3
<1> DEFINE one == <<w[n]>>
           upto == before \o one
<1>3. one \in Seq(Field)
  BY <1>1
<1>4. Carried(one, kinds) = Given(w[n], kinds)
  BY <1>1, CarriedOne
<1> HIDE DEF one
<1>5. upto \in Seq(Field)
  BY <1>2, <1>3
<1>6. Carried(before \o one, kinds) = Carried(before, kinds) \o Carried(one, kinds)
  <2>1. before \in Seq(Field)
    BY <1>2
  <2> QED
    BY <2>1, <1>3, CarriedConcat
<1> HIDE DEF upto
<1>7. Carried(upto \o rest, kinds) = Carried(upto, kinds) \o Carried(rest, kinds)
  BY <1>2, <1>5, CarriedConcat, Zenon
<1>8. /\ Carried(before, kinds) \in Seq(Item) /\ Carried(one, kinds) \in Seq(Item)
      /\ Carried(rest, kinds) \in Seq(Item)
  BY <1>2, <1>3, CarriedConcat, Zenon
<1>9. Carried(w, kinds) = (Carried(before, kinds) \o Carried(one, kinds)) \o Carried(rest, kinds)
  BY <1>2, <1>6, <1>7 DEF upto, one
<1> DEFINE a == Carried(before, kinds)
           b == Carried(one, kinds)
           d == Carried(rest, kinds)
<1>10. /\ a \in Seq(Item) /\ b \in Seq(Item) /\ d \in Seq(Item)
       /\ Carried(w, kinds) = (a \o b) \o d /\ b = Given(w[n], kinds)
  BY <1>4, <1>8, <1>9
<1> HIDE DEF a, b, d
<1>11. a \in Seq(Item) /\ b \in Seq(Item) /\ d \in Seq(Item) /\ Len(b) = 1
  BY <1>10
<1>12. \E k \in DOMAIN ((a \o b) \o d) : ((a \o b) \o d)[k] = b[1]
  BY <1>11, ItemBetween
<1> QED
  BY <1>10, <1>12, Zenon

\* Messages of which only one part is not empty.
OnlyIds(q) == [Empty EXCEPT !.ids = q]
OnlyStrings(q) == [Empty EXCEPT !.strings = q]
OnlyUnknown(q) == [Empty EXCEPT !.unknown = q]

\* To merge one of them is to add to that part.
LEMMA MergedOnly ==
  ASSUME NEW c \in Parts, NEW q \in Seq(Item)
  PROVE  /\ OnlyIds(q) \in Parts /\ OnlyStrings(q) \in Parts /\ OnlyUnknown(q) \in Parts
         /\ Merged(c, OnlyIds(q)) = [c EXCEPT !.ids = @ \o q]
         /\ Merged(c, OnlyStrings(q)) = [c EXCEPT !.strings = @ \o q]
         /\ Merged(c, OnlyUnknown(q)) = [c EXCEPT !.unknown = @ \o q]
         /\ Items(OnlyIds(q)) = Len(q) /\ Items(OnlyStrings(q)) = Len(q)
         /\ Items(OnlyUnknown(q)) = Len(q) /\ Items(Empty) = 0
<1>1. PICK i \in Seq(Item), t \in Seq(Item), u \in Seq(Item) :
        c = [ids |-> i, strings |-> t, unknown |-> u]
  BY DEF Parts
<1>2. i \o <<>> = i /\ t \o <<>> = t /\ u \o <<>> = u
  BY <1>1, ConcatEmptySeq
<1>3. /\ OnlyIds(q) = [ids |-> q, strings |-> <<>>, unknown |-> <<>>]
      /\ OnlyStrings(q) = [ids |-> <<>>, strings |-> q, unknown |-> <<>>]
      /\ OnlyUnknown(q) = [ids |-> <<>>, strings |-> <<>>, unknown |-> q]
  BY DEF OnlyIds, OnlyStrings, OnlyUnknown, Empty
<1>4. OnlyIds(q) \in Parts /\ OnlyStrings(q) \in Parts /\ OnlyUnknown(q) \in Parts
  BY <1>3 DEF Parts
<1>5. Merged(c, OnlyIds(q)) = [c EXCEPT !.ids = @ \o q]
  <2>1. [c EXCEPT !.ids = @ \o q] = [ids |-> i \o q, strings |-> t, unknown |-> u]
    <3>1. c.ids = i
      BY <1>1
    <3>2. \A r : [c EXCEPT !.ids = r] = [ids |-> r, strings |-> t, unknown |-> u]
      BY <1>1
    <3> QED
      BY <3>1, <3>2, Zenon
  <2>2. Merged(c, OnlyIds(q)) = [ids |-> i \o q, strings |-> t \o <<>>, unknown |-> u \o <<>>]
    BY <1>1, <1>3 DEF Merged
  <2> QED
    BY <1>2, <2>1, <2>2
<1>6. Merged(c, OnlyStrings(q)) = [c EXCEPT !.strings = @ \o q]
  <2>1. [c EXCEPT !.strings = @ \o q] = [ids |-> i, strings |-> t \o q, unknown |-> u]
    <3>1. c.strings = t
      BY <1>1
    <3>2. \A r : [c EXCEPT !.strings = r] = [ids |-> i, strings |-> r, unknown |-> u]
      BY <1>1
    <3> QED
      BY <3>1, <3>2, Zenon
  <2>2. Merged(c, OnlyStrings(q)) = [ids |-> i \o <<>>, strings |-> t \o q, unknown |-> u \o <<>>]
    BY <1>1, <1>3 DEF Merged
  <2> QED
    BY <1>2, <2>1, <2>2
<1>7. Merged(c, OnlyUnknown(q)) = [c EXCEPT !.unknown = @ \o q]
  <2>1. [c EXCEPT !.unknown = @ \o q] = [ids |-> i, strings |-> t, unknown |-> u \o q]
    <3>1. c.unknown = u
      BY <1>1
    <3>2. \A r : [c EXCEPT !.unknown = r] = [ids |-> i, strings |-> t, unknown |-> r]
      BY <1>1
    <3> QED
      BY <3>1, <3>2, Zenon
  <2>2. Merged(c, OnlyUnknown(q)) = [ids |-> i \o <<>>, strings |-> t \o <<>>, unknown |-> u \o q]
    BY <1>1, <1>3 DEF Merged
  <2> QED
    BY <1>2, <2>1, <2>2
<1>8. Len(q) \in Nat /\ Len(<<>>) = 0
  BY LenProperties, EmptySeq
<1>9. /\ Items(OnlyIds(q)) = Len(q) /\ Items(OnlyStrings(q)) = Len(q)
      /\ Items(OnlyUnknown(q)) = Len(q) /\ Items(Empty) = 0
  BY <1>3, <1>8 DEF Items, Empty
<1> QED
  BY <1>4, <1>5, <1>6, <1>7, <1>9

\* What a field alone stands for, by its kind.
LEMMA MeaningByKind ==
  ASSUME NEW f \in Field
  PROVE  /\ f.items \in Seq(Item)
         /\ f.kind \in {"packed", "id"} => Meaning(<<f>>) = OnlyIds(f.items)
         /\ f.kind = "string" => Meaning(<<f>>) = OnlyStrings(f.items)
         /\ f.kind = "unknown" => Meaning(<<f>>) = OnlyUnknown(f.items)
<1>1. f.items \in Seq(Item)
  BY DEF Field, Item
<1> QED
  BY <1>1, MeaningOfOne DEF Given, OnlyIds, OnlyStrings, OnlyUnknown, Empty

\* A part of a sequence from its beginning is a prefix, and so is nothing.
LEMMA PrefixOf ==
  ASSUME NEW q \in Seq(Item), NEW n \in 0 .. Len(q)
  PROVE  /\ SubSeq(q, 1, n) \in Seq(Item) /\ Len(SubSeq(q, 1, n)) = n /\ n <= Len(q)
         /\ IsPrefix(SubSeq(q, 1, n), q) /\ IsPrefix(q, q) /\ IsPrefix(<<>>, q)
<1>1. Len(q) \in Nat /\ \A k \in 1 .. n : q[k] \in Item
  OBVIOUS
<1>2. /\ SubSeq(q, 1, n) \in Seq(Item) /\ Len(SubSeq(q, 1, n)) = n
  BY <1>1
<1>3. SubSeq(SubSeq(q, 1, n), 1, n) = SubSeq(q, 1, n)
  BY <1>1, <1>2, SubSeqFull
<1>4. SubSeq(<<>>, 1, 0) = <<>> /\ SubSeq(q, 1, 0) = <<>>
  OBVIOUS
<1> QED
  BY <1>1, <1>2, <1>3, <1>4 DEF IsPrefix

\* Any part of a message may be replaced.
LEMMA PartsReplaced ==
  ASSUME NEW c \in Content
  PROVE  /\ \A q \in Seq(Ids) : [c EXCEPT !.ids = q] \in Content
         /\ \A q \in Seq(Strings) : [c EXCEPT !.strings = q] \in Content
         /\ \A q \in Seq(Foreign) : [c EXCEPT !.unknown = q] \in Content
<1>1. PICK i \in Seq(Ids), t \in Seq(Strings), u \in Seq(Foreign) :
        c = [ids |-> i, strings |-> t, unknown |-> u]
  BY DEF Content
<1>2. \A q : [c EXCEPT !.ids = q] = [ids |-> q, strings |-> t, unknown |-> u]
  BY <1>1
<1>3. \A q : [c EXCEPT !.strings = q] = [ids |-> i, strings |-> q, unknown |-> u]
  BY <1>1
<1>4. \A q : [c EXCEPT !.unknown = q] = [ids |-> i, strings |-> t, unknown |-> q]
  BY <1>1
<1> QED
  BY <1>2, <1>3, <1>4 DEF Content

\* The calls make contents of contents.
LEMMA ContentFacts ==
  ASSUME NEW c \in Content, NEW d \in Content
  PROVE  /\ Merged(c, d) \in Content /\ Cleared(c) \in Content /\ Empty \in Content
         /\ \A x \in Ids : [c EXCEPT !.ids = Append(@, x)] \in Content
         /\ \A x \in Ids, k \in DOMAIN c.ids : [c EXCEPT !.ids[k] = x] \in Content
         /\ \A s \in Strings : [c EXCEPT !.strings = Append(@, s)] \in Content
         /\ \A s \in Strings, k \in DOMAIN c.strings : [c EXCEPT !.strings[k] = s] \in Content
         /\ [c EXCEPT !.ids = <<>>] \in Content /\ [c EXCEPT !.strings = <<>>] \in Content
<1>1. /\ c.ids \in Seq(Ids) /\ c.strings \in Seq(Strings) /\ c.unknown \in Seq(Foreign)
      /\ d.ids \in Seq(Ids) /\ d.strings \in Seq(Strings) /\ d.unknown \in Seq(Foreign)
  BY DEF Content
<1>2. Merged(c, d) \in Content /\ Cleared(c) \in Content /\ Empty \in Content
  BY <1>1 DEF Merged, Cleared, Empty, Content
<1>3. \A x \in Ids : Append(c.ids, x) \in Seq(Ids)
  BY <1>1
<1>4. \A s \in Strings : Append(c.strings, s) \in Seq(Strings)
  BY <1>1
<1>5. \A x \in Ids, k \in DOMAIN c.ids : [c.ids EXCEPT ![k] = x] \in Seq(Ids)
  BY <1>1, ExceptSeq
<1>6. \A s \in Strings, k \in DOMAIN c.strings : [c.strings EXCEPT ![k] = s] \in Seq(Strings)
  BY <1>1, ExceptSeq
<1>7. <<>> \in Seq(Ids) /\ <<>> \in Seq(Strings)
  OBVIOUS
<1> QED
  BY <1>2, <1>3, <1>4, <1>5, <1>6, <1>7, PartsReplaced

-----------------------------------------------------------------------------
(* Every step keeps the invariant. *)

\* A message is not measured while it is parsed into, for parsing changes it
\* and leaves its size.
NotMeasured == Parsing => parse.into \notin measured

\* While it is parsed into, a message holds what it kept, merged with what the
\* fields read so far stand for.
Merging ==
  Parsing => /\ parse.pos <= Len(parse.fields) + 1
             /\ Held = Merged(parse.kept, Meaning(SubSeq(parse.fields, 1, parse.pos - 1)))

\* No field serialized here is cut, has a tag that ends a parse, or is an id
\* that is not packed.
OwnFields ==
  meant # <<>> => \A k \in DOMAIN wire : wire[k].whole /\ wire[k].kind \notin {"bad", "id"}

\* The parser takes the fields of the string for what they are, but for a packed
\* field that follows an id, and what comes after it.
TakenAsTheyAre ==
  parse.state # "idle" =>
    /\ ~Mixed(wire, Len(wire)) => parse.fields = wire
    /\ \A k \in 1 .. Len(wire) :
         ~Mixed(wire, k) => k <= Len(parse.fields) /\ parse.fields[k] = wire[k]

\* A length that may be read as an id is one.
LengthsAreIds ==
  /\ meant = <<>> => wire \in Wires
  /\ meant = <<>> /\ parse.state = "parsing" =>
       \A k \in DOMAIN parse.fields : parse.fields[k].kind = "packed" => parse.fields[k].len \in Ids

IInv ==
  /\ TypeOK /\ WellFramed /\ NotMeasured /\ Merging /\ OwnFields
  /\ TakenAsTheyAre /\ LengthsAreIds
  /\ AcceptedIsMerged /\ RejectedForCause

USE DEF IInv, TypeOK, NotMeasured

\* Between parses there is none.
LEMMA NoParseFacts ==
  /\ NoParse.state = "idle" /\ \A k \in DOMAIN NoParse.fields : FALSE
  /\ NoParse \in [state : {"idle", "parsing", "astray", "accepted", "rejected"}, into : Messages,
                  fields : Seq(Field), pos : Nat \ {0}, kept : Content]
<1>1. Empty \in Content
  BY DEF Empty, Content
<1>2. (CHOOSE m \in Messages : TRUE) \in Messages
  BY MessagesAssumption
<1> QED
  BY <1>1, <1>2 DEF NoParse

\* Between parses, the types and the frames are what there is to keep.
LEMMA BetweenParses ==
  ASSUME IInv, TypeOK', WellFramed', parse' = NoParse, UNCHANGED <<wire, meant>>
  PROVE  IInv'
<1>1. parse'.state = "idle" /\ ~Parsing'
  BY NoParseFacts DEF Parsing
<1>2. NotMeasured' /\ Merging' /\ RejectedForCause'
  BY <1>1 DEF Merging, RejectedForCause
<1>3. OwnFields' /\ TakenAsTheyAre' /\ LengthsAreIds'
  BY <1>1 DEF OwnFields, TakenAsTheyAre, LengthsAreIds
<1>4. AcceptedIsMerged'
  BY <1>1 DEF AcceptedIsMerged, Meaning, Carried, Mixed
<1> QED
  BY <1>2, <1>3, <1>4

\* A message that changes is no longer measured, whatever its content becomes.
LEMMA ChangeKeeps ==
  ASSUME IInv, NEW m \in Messages, NEW c \in Content, Change(m, c)
  PROVE  IInv'
<1>1. parse' = NoParse /\ UNCHANGED <<wire, meant>>
  BY DEF Change
<1>2. content' \in [Messages -> Content] /\ \A n \in Messages \ {m} : content'[n] = content[n]
  BY DEF Change
<1>3. TypeOK'
  BY <1>1, <1>2, NoParseFacts DEF Change, Sound
<1>4. WellFramed'
  BY <1>2 DEF Change, WellFramed, Framed
<1> QED
  BY <1>1, <1>3, <1>4, BetweenParses

\* An accessor makes a content and changes one message.
LEMMA AccessKeeps ==
  ASSUME IInv, NEW m \in Messages, Access(m)
  PROVE  IInv'
<1>1. content[m] \in Content
  OBVIOUS
<1>2. PICK c \in Content : Change(m, c)
  <2>1. CASE \E x \in Added : add_ids(m, x)
    BY <1>1, <2>1, ContentFacts, ItemsAssumption DEF add_ids
  <2>2. CASE \E x \in Added, k \in DOMAIN content[m].ids : set_ids(m, k, x)
    BY <1>1, <2>2, ContentFacts, ItemsAssumption DEF set_ids
  <2>3. CASE \E s \in Strings : add_strings(m, s)
    BY <1>1, <2>3, ContentFacts DEF add_strings
  <2>4. CASE \E s \in Strings, k \in DOMAIN content[m].strings : set_strings(m, k, s)
    BY <1>1, <2>4, ContentFacts DEF set_strings
  <2>5. CASE clear_ids(m) \/ clear_strings(m)
    BY <1>1, <2>5, ContentFacts DEF clear_ids, clear_strings
  <2> QED
    BY <2>1, <2>2, <2>3, <2>4, <2>5 DEF Access
<1> QED
  BY <1>2, ChangeKeeps

\* Both messages of a swap are no longer measured: their sizes stay behind.
LEMMA SwapKeeps ==
  ASSUME IInv, NEW m \in Messages, NEW other \in Messages, Swap(m, other)
  PROVE  IInv'
<1>1. parse' = NoParse /\ UNCHANGED <<wire, meant>>
  BY DEF Swap
<1>2. /\ content' \in [Messages -> Content]
      /\ \A n \in Messages \ {m, other} : content'[n] = content[n]
  BY DEF Swap
<1>3. TypeOK'
  BY <1>1, <1>2, NoParseFacts DEF Swap, Sound
<1>4. WellFramed'
  BY <1>2 DEF Swap, WellFramed, Framed
<1> QED
  BY <1>1, <1>3, <1>4, BetweenParses

\* The message made is not measured, nor the other one if it was changed.
LEMMA ConstructKeeps ==
  ASSUME IInv, NEW m \in Messages, NEW from \in Messages, NEW left \in Content,
         Construct(m, from, left)
  PROVE  IInv'
<1>1. parse' = NoParse /\ UNCHANGED <<wire, meant>>
  BY DEF Construct
<1>2. /\ content' \in [Messages -> Content]
      /\ \A n \in Messages \ {m, from} : content'[n] = content[n]
      /\ from # m /\ content'[from] = left
  BY DEF Construct
<1>3. PICK g \in Garbage : idsSize' = [idsSize EXCEPT ![m] = g]
  BY DEF Construct
<1>4. measured' \subseteq measured \ {m} /\ (from \in measured' => left = content[from])
  BY DEF Construct
<1>5. TypeOK'
  BY <1>1, <1>2, <1>3, <1>4, NoParseFacts, SizesAssumption DEF Sound
<1>6. \A n \in measured' : idsSize'[n] = Bytes(content'[n].ids)
  <2> TAKE n \in measured'
  <2>1. n \in measured /\ n # m /\ idsSize'[n] = idsSize[n]
    BY <1>3, <1>4
  <2>2. content'[n] = content[n]
    BY <1>2, <1>4, <2>1
  <2> QED
    BY <2>1, <2>2 DEF WellFramed
<1>7. WellFramed'
  BY <1>1, <1>6 DEF WellFramed, Framed
<1> QED
  BY <1>1, <1>5, <1>7, BetweenParses

\* Measuring makes the size right.
LEMMA MeasureKeeps ==
  ASSUME IInv, NEW m \in Messages, ByteSizeLong(m)
  PROVE  IInv'
<1>1. parse' = NoParse /\ UNCHANGED <<wire, meant>>
  BY DEF ByteSizeLong
<1>2. Bytes(content[m].ids) \in Nat
  BY BytesIsNat DEF Content
<1>3. TypeOK'
  BY <1>1, <1>2, NoParseFacts DEF ByteSizeLong, Sound
<1>4. WellFramed'
  BY DEF ByteSizeLong, WellFramed, Framed
<1> QED
  BY <1>1, <1>3, <1>4, BetweenParses

\* The wire is framed with a size that is right, for its message is measured,
\* and stands for the message.
LEMMA SerializeKeeps ==
  ASSUME IInv, NEW m \in Messages, SerializeWithCachedSizes(m)
  PROVE  IInv'
<1> DEFINE c == content[m]
           n == idsSize[m]
<1>1. parse'.state = "idle" /\ ~Parsing' /\ parse' = NoParse
  BY NoParseFacts DEF SerializeWithCachedSizes, Parsing
<1>2. c \in Content /\ n \in Nat /\ n = Bytes(c.ids) /\ wire' = Image(c, n) /\ meant' = <<c>>
  BY DEF SerializeWithCachedSizes, WellFramed
<1> HIDE DEF c, n
<1>3. /\ wire' \in Seq(Field) /\ Meaning(wire') = c
      /\ \A k \in DOMAIN wire' :
           /\ Sound(wire'[k]) /\ Framed(wire'[k])
           /\ wire'[k].whole /\ wire'[k].kind \notin {"bad", "id"}
  BY <1>2, ImageFacts
<1>4. TypeOK'
  <2>1. meant' \in Seq(Content) /\ Len(meant') = 1
    BY <1>2
  <2> QED
    BY <1>1, <1>3, <2>1, NoParseFacts DEF SerializeWithCachedSizes, Sound
<1>5. WellFramed'
  BY <1>3 DEF SerializeWithCachedSizes, WellFramed, Framed
<1>6. AcceptedIsMerged'
  <2>1. ~Mixed(wire', Len(wire'))
    <3> SUFFICES ASSUME NEW k \in 2 .. Len(wire'), wire'[k - 1].kind = "id" PROVE FALSE
      BY DEF Mixed
    <3>1. k - 1 \in DOMAIN wire'
      BY <1>3
    <3> QED
      BY <1>3, <3>1
  <2> QED
    BY <1>1, <1>2, <1>3, <2>1 DEF AcceptedIsMerged, Meaning, Carried, Mixed
<1>7. OwnFields' /\ TakenAsTheyAre' /\ LengthsAreIds'
  BY <1>1, <1>2, <1>3 DEF OwnFields, TakenAsTheyAre, LengthsAreIds
<1>8. NotMeasured' /\ Merging' /\ RejectedForCause'
  BY <1>1 DEF Merging, RejectedForCause
<1> QED
  BY <1>4, <1>5, <1>6, <1>7, <1>8

\* A message parsed into is no longer measured, and holds what it is to keep.
LEMMA StartKeeps ==
  ASSUME IInv, NEW m \in Messages, NEW c \in Content, Start(m, c, c)
  PROVE  IInv'
<1>1. /\ parse' = [state |-> "parsing", into |-> m, fields |-> wire, pos |-> 1, kept |-> c]
      /\ m \notin measured' /\ UNCHANGED <<wire, meant>>
  BY DEF Start
<1>2. /\ content' \in [Messages -> Content] /\ content'[m] = c
      /\ \A n \in Messages \ {m} : content'[n] = content[n]
  BY DEF Start
<1>3. TypeOK' /\ NotMeasured'
  BY <1>1, <1>2 DEF Start, Sound, Parsing
<1>4. WellFramed'
  BY <1>2 DEF Start, WellFramed, Framed
<1>5. Merging'
  <2>1. c = Merged(c, Empty)
    BY ContentHasParts, MergedFacts
  <2>2. SubSeq(wire, 1, 1 - 1) = <<>> /\ 1 <= Len(wire) + 1
    OBVIOUS
  <2>3. Meaning(<<>>) = Empty
    BY MeaningFacts, EmptySeq
  <2>4. Held' = Merged(parse'.kept, Meaning(SubSeq(parse'.fields, 1, parse'.pos - 1)))
    BY <1>1, <1>2, <2>1, <2>2, <2>3 DEF Held
  <2> QED
    BY <1>1, <2>2, <2>4 DEF Merging, Meaning, Carried, Merged
<1>6. OwnFields' /\ TakenAsTheyAre' /\ LengthsAreIds'
  BY <1>1, WiresAssumption DEF OwnFields, TakenAsTheyAre, LengthsAreIds, Mixed
<1>7. AcceptedIsMerged' /\ RejectedForCause'
  BY <1>1 DEF AcceptedIsMerged, RejectedForCause, Meaning, Carried, Mixed
<1> QED
  BY <1>3, <1>4, <1>5, <1>6, <1>7

\* A step of a parse changes the message parsed into only.
LEMMA HoldKeeps ==
  ASSUME IInv, Parsing, NEW c \in Content, Hold(c), Step \/ Fail
  PROVE  /\ TypeOK' /\ WellFramed' /\ NotMeasured' /\ OwnFields'
         /\ TakenAsTheyAre' /\ LengthsAreIds'
         /\ meant' # <<>> => meant' = <<Meaning(wire')>> /\ ~Mixed(wire', Len(wire'))
<1>1. /\ UNCHANGED <<idsSize, measured, wire, meant>>
      /\ parse' = [parse EXCEPT !.pos = @ + 1] \/ parse' = [parse EXCEPT !.state = "rejected"]
  BY DEF Step, Fail
<1>2. /\ Parsing' => parse'.into = parse.into
      /\ parse'.fields = parse.fields /\ parse.state # "idle"
      /\ parse'.state = "parsing" => parse.state = "parsing"
  BY <1>1 DEF Parsing
<1>3. /\ content' \in [Messages -> Content]
      /\ \A n \in Messages \ {parse.into} : content'[n] = content[n]
  BY DEF Hold
<1>4. TypeOK' /\ NotMeasured'
  <2>1. /\ idsSize' \in [Messages -> Nat] /\ measured' \subseteq Messages
        /\ meant' \in Seq(Content) /\ Len(meant') <= 1
        /\ wire' \in Seq(Field)
    BY <1>1
  <2>2. \A k \in DOMAIN wire' : Sound(wire'[k])
    BY <1>1 DEF Sound
  <2>3. parse' \in [state : {"idle", "parsing", "astray", "accepted", "rejected"}, into : Messages,
                    fields : Seq(Field), pos : Nat \ {0}, kept : Content]
    <3>1. parse.pos + 1 \in Nat \ {0}
      OBVIOUS
    <3> QED
      BY <1>1, <3>1
  <2>4. NotMeasured'
    BY <1>1, <1>2 DEF Parsing
  <2>5. \A k \in DOMAIN parse'.fields : Sound(parse'.fields[k])
    BY <1>2
  <2> QED
    BY <1>3, <2>1, <2>2, <2>3, <2>4, <2>5 DEF Sound
<1>5. WellFramed'
  BY <1>1, <1>3 DEF WellFramed, Framed
<1>6. OwnFields' /\ TakenAsTheyAre' /\ LengthsAreIds'
  BY <1>1, <1>2 DEF OwnFields, TakenAsTheyAre, LengthsAreIds, Mixed
<1>7. meant' # <<>> => meant' = <<Meaning(wire')>> /\ ~Mixed(wire', Len(wire'))
  BY <1>1 DEF AcceptedIsMerged, Meaning, Carried, Mixed
<1> QED
  BY <1>4, <1>5, <1>6, <1>7

\* The field read next is sound, and ends what is read of the string.
LEMMA CurrentFacts ==
  ASSUME IInv, More
  PROVE  /\ parse.pos \in DOMAIN parse.fields /\ Current \in Field /\ Sound(Current)
         /\ SubSeq(parse.fields, 1, parse.pos - 1) \in Seq(Field)
         /\ SubSeq(parse.fields, 1, parse.pos) = SubSeq(parse.fields, 1, parse.pos - 1) \o <<Current>>
         /\ Meaning(SubSeq(parse.fields, 1, parse.pos))
              = Merged(Meaning(SubSeq(parse.fields, 1, parse.pos - 1)), Meaning(<<Current>>))
<1>1. /\ parse.pos \in 1 .. Len(parse.fields) /\ 1 \in 1 .. Len(parse.fields) /\ DOMAIN parse.fields = 1 .. Len(parse.fields)
      /\ parse.fields \in Seq(Field) /\ Len(parse.fields) \in Nat
  BY DEF More
<1>2. Current \in Field /\ Sound(Current)
  BY <1>1 DEF Current
<1>3. SubSeq(parse.fields, 1, parse.pos) = SubSeq(parse.fields, 1, parse.pos - 1) \o <<Current>>
  BY <1>1, SubSeqRecursiveSecond DEF Current
<1>4. SubSeq(parse.fields, 1, parse.pos - 1) \in Seq(Field)
  BY <1>1
<1>5. <<Current>> \in Seq(Field)
  BY <1>2
<1>6. Meaning(SubSeq(parse.fields, 1, parse.pos - 1) \o <<Current>>)
        = Merged(Meaning(SubSeq(parse.fields, 1, parse.pos - 1)), Meaning(<<Current>>))
  <2> DEFINE before == SubSeq(parse.fields, 1, parse.pos - 1)
             one == <<Current>>
  <2>1. before \in Seq(Field) /\ one \in Seq(Field)
    BY <1>4, <1>5
  <2> HIDE DEF before, one
  <2>2. Meaning(before \o one) = Merged(Meaning(before), Meaning(one))
    BY <2>1, MeaningFacts
  <2> QED
    BY <2>2 DEF before, one
<1> QED
  BY <1>1, <1>2, <1>3, <1>4, <1>6

\* A step that merges what the field stands for goes on.
LEMMA AdvanceKeeps ==
  ASSUME IInv, More, NEW c \in Content, Hold(c), Step, c = Merged(Held, Meaning(<<Current>>))
  PROVE  IInv'
<1>1. /\ TypeOK' /\ WellFramed' /\ NotMeasured' /\ OwnFields'
      /\ TakenAsTheyAre' /\ LengthsAreIds'
      /\ meant' # <<>> => meant' = <<Meaning(wire')>> /\ ~Mixed(wire', Len(wire'))
  BY HoldKeeps DEF More
<1>2. /\ parse'.state = parse.state /\ parse'.pos = parse.pos + 1 /\ parse'.kept = parse.kept
      /\ parse'.into = parse.into /\ parse'.fields = parse.fields
      /\ parse.pos \in Nat /\ (parse.pos + 1) - 1 = parse.pos
  BY DEF Step, More, Parsing
<1>3. content'[parse.into] = c
  BY DEF Hold
<1> DEFINE before == Meaning(SubSeq(parse.fields, 1, parse.pos - 1))
           one == Meaning(<<Current>>)
<1>4. Held = Merged(parse.kept, before)
  BY DEF Merging, More
<1>5. parse.kept \in Parts /\ before \in Parts /\ one \in Parts
  <2>1. parse.kept \in Content
    OBVIOUS
  <2>2. <<Current>> \in Seq(Field)
    BY CurrentFacts
  <2> QED
    BY <2>1, <2>2, CurrentFacts, MeaningFacts, ContentHasParts
<1>6. Meaning(SubSeq(parse.fields, 1, parse.pos)) = Merged(before, one)
  BY CurrentFacts
<1> HIDE DEF before, one
<1>7. c = Merged(parse.kept, Merged(before, one))
  BY <1>4, <1>5, MergedFacts DEF one
<1>8. SubSeq(parse'.fields, 1, parse'.pos - 1) = SubSeq(parse.fields, 1, parse.pos)
  BY <1>2
<1>9. Held' = Merged(parse'.kept, Meaning(SubSeq(parse'.fields, 1, parse'.pos - 1)))
  BY <1>2, <1>3, <1>6, <1>7, <1>8 DEF Held
<1>10. parse'.pos <= Len(parse'.fields) + 1
  BY <1>2 DEF More
<1>11. Merging'
  BY <1>9, <1>10 DEF Merging, Meaning, Carried, Merged
<1>12. AcceptedIsMerged' /\ RejectedForCause'
  <2>1. parse'.state # "accepted" /\ parse'.state # "rejected"
    BY <1>2 DEF More, Parsing
  <2> QED
    BY <1>1, <2>1 DEF AcceptedIsMerged, RejectedForCause, Meaning, Carried, Mixed
<1> QED
  BY <1>1, <1>11, <1>12

\* On a wire of one's own, the field read next is a field of it.
LEMMA OwnFieldsAreTaken ==
  ASSUME IInv, More, meant # <<>>
  PROVE  parse.fields = wire
<1>1. ~Mixed(wire, Len(wire)) /\ parse.state # "idle"
  BY DEF AcceptedIsMerged, More, Parsing
<1> QED
  BY <1>1 DEF TakenAsTheyAre

\* A string that is not UTF-8 on a wire of one's own was in the message.
LEMMA InvalidWasMeant ==
  ASSUME IInv, More, meant # <<>>, Current.kind = "string", Current.items[1] \notin Utf8
  PROVE  \E k \in DOMAIN meant[1].strings : meant[1].strings[k] \notin Utf8
<1>1. meant[1].strings = Carried(wire, {"string"}) /\ Current = wire[parse.pos]
  BY OwnFieldsAreTaken DEF AcceptedIsMerged, Meaning, Current
<1>2. wire \in Seq(Field) /\ parse.pos \in 1 .. Len(wire) /\ Len(Current.items) = 1
  <2>1. wire \in Seq(Field)
    OBVIOUS
  <2>2. DOMAIN wire = 1 .. Len(wire)
    BY <2>1, LenProperties
  <2>3. parse.pos \in DOMAIN wire /\ Sound(Current)
    BY CurrentFacts, OwnFieldsAreTaken
  <2> QED
    BY <2>1, <2>2, <2>3 DEF Sound
<1>3. Len(Given(wire[parse.pos], {"string"})) = 1 /\ Given(wire[parse.pos], {"string"})[1] \notin Utf8
  BY <1>1, <1>2 DEF Given
<1>4. PICK k \in DOMAIN Carried(wire, {"string"}) :
        Carried(wire, {"string"})[k] = Given(wire[parse.pos], {"string"})[1]
  BY <1>2, <1>3, CarriesEach
<1> QED
  BY <1>1, <1>3, <1>4

\* Up to a mix, the fields are taken for those of the string.
LEMMA FirstAreTaken ==
  ASSUME IInv, parse.state # "idle", NEW k \in 0 .. Len(wire), ~Mixed(wire, k)
  PROVE  /\ k <= Len(parse.fields)
         /\ SubSeq(parse.fields, 1, k) = SubSeq(wire, 1, k) /\ SubSeq(wire, 1, k) \in Seq(Field)
<1>1. /\ wire \in Seq(Field) /\ parse.fields \in Seq(Field)
      /\ Len(wire) \in Nat /\ Len(parse.fields) \in Nat
  OBVIOUS
<1>2. \A j \in 1 .. k : j <= Len(parse.fields) /\ parse.fields[j] = wire[j]
  <2> TAKE j \in 1 .. k
  <2>1. j \in 1 .. Len(wire) /\ j <= k /\ j \in Nat /\ k \in Nat
    BY <1>1
  <2>2. ~Mixed(wire, j)
    BY <1>1, <2>1 DEF Mixed
  <2> QED
    BY <2>1, <2>2 DEF TakenAsTheyAre
<1>3. k <= Len(parse.fields)
  BY <1>1, <1>2
<1>4. /\ SubSeq(wire, 1, k) \in Seq(Field) /\ Len(SubSeq(wire, 1, k)) = k
      /\ SubSeq(parse.fields, 1, k) \in Seq(Field) /\ Len(SubSeq(parse.fields, 1, k)) = k
      /\ \A j \in 1 .. k : SubSeq(wire, 1, k)[j] = wire[j] /\ SubSeq(parse.fields, 1, k)[j] = parse.fields[j]
  BY <1>1, <1>3
<1>5. SubSeq(parse.fields, 1, k) = SubSeq(wire, 1, k)
  BY <1>2, <1>4, SeqEqual
<1> QED
  BY <1>3, <1>4, <1>5

\* The field read next is one of the string if none so far is packed after an id.
LEMMA ReadIsTaken ==
  ASSUME IInv, More, ~Mixed(wire, parse.pos)
  PROVE  SubSeq(parse.fields, 1, parse.pos) = SubSeq(wire, 1, parse.pos)
<1>1. /\ Len(wire) \in Nat /\ parse.pos \in Nat /\ parse.pos <= Len(parse.fields)
      /\ parse.state # "idle"
  BY DEF More, Parsing
<1>2. parse.pos <= Len(wire)
  <2> SUFFICES ASSUME Len(wire) < parse.pos PROVE FALSE
    BY <1>1
  <2>1. ~Mixed(wire, Len(wire))
    BY <1>1 DEF Mixed
  <2> QED
    BY <1>1, <2>1 DEF TakenAsTheyAre
<1> QED
  BY <1>1, <1>2, FirstAreTaken

\* What is read goes on from there.
LEMMA ReadFromThere ==
  ASSUME IInv, Parsing, NEW k \in 0 .. Len(wire), k < parse.pos, ~Mixed(wire, k)
  PROVE  /\ SubSeq(wire, 1, k) \in Seq(Field)
         /\ SubSeq(parse.fields, k + 1, parse.pos - 1) \in Seq(Field)
         /\ SubSeq(parse.fields, 1, parse.pos - 1)
              = SubSeq(wire, 1, k) \o SubSeq(parse.fields, k + 1, parse.pos - 1)
<1>1. /\ parse.fields \in Seq(Field) /\ parse.pos \in Nat \ {0} /\ Len(parse.fields) \in Nat
      /\ parse.pos <= Len(parse.fields) + 1 /\ parse.state # "idle"
  BY DEF Merging, Parsing
<1>2. SubSeq(parse.fields, 1, k) = SubSeq(wire, 1, k) /\ SubSeq(wire, 1, k) \in Seq(Field)
  BY <1>1, FirstAreTaken
<1>3. SubSeq(parse.fields, k + 1, parse.pos - 1) \in Seq(Field)
  BY <1>1
<1>4. SubSeq(parse.fields, 1, k) \o SubSeq(parse.fields, k + 1, parse.pos - 1)
        = SubSeq(parse.fields, 1, parse.pos - 1)
  <2>1. /\ 1 \in 1 .. Len(parse.fields) + 1 /\ k \in 1 - 1 .. Len(parse.fields)
        /\ parse.pos - 1 \in k .. Len(parse.fields)
    BY <1>1
  <2> QED
    BY <1>1, <2>1, ConcatAdjacentSubSeq
<1> QED
  BY <1>2, <1>3, <1>4

\* Whatever one more field gave, the message has what it kept and what the
\* fields read before a mix stand for.
LEMMA WhatCameIsHeld ==
  ASSUME IInv, Parsing, NEW e \in Parts, NEW c, c = Merged(Held, e),
         NEW k \in 0 .. Len(wire), k < parse.pos, ~Mixed(wire, k)
  PROVE  Extends(c, Merged(parse.kept, Meaning(SubSeq(wire, 1, k))))
<1> DEFINE first == SubSeq(wire, 1, k)
           rest == SubSeq(parse.fields, k + 1, parse.pos - 1)
<1>1. first \in Seq(Field) /\ rest \in Seq(Field) /\ SubSeq(parse.fields, 1, parse.pos - 1) = first \o rest
  BY ReadFromThere
<1>2. Held = Merged(parse.kept, Meaning(first \o rest)) /\ parse.kept \in Parts
  BY <1>1, ContentHasParts DEF Merging
<1> HIDE DEF first, rest
<1>3. Meaning(first) \in Parts /\ Meaning(rest) \in Parts /\ Meaning(first \o rest) = Merged(Meaning(first), Meaning(rest))
  BY <1>1, MeaningFacts
<1> DEFINE base == Merged(parse.kept, Meaning(first))
           more == Merged(Meaning(rest), e)
<1>4. base \in Parts /\ more \in Parts
  BY <1>2, <1>3, MergedFacts
<1>5. c = Merged(base, more)
  BY <1>2, <1>3, MergedFacts
<1> HIDE DEF base, more
<1>6. Extends(Merged(base, more), base)
  <2>1. ASSUME NEW p \in Parts
        PROVE  p.ids \in Seq(Item) /\ p.strings \in Seq(Item) /\ p.unknown \in Seq(Item)
    BY DEF Parts
  <2>2. /\ IsPrefix(base.ids, base.ids \o more.ids) /\ IsPrefix(base.strings, base.strings \o more.strings)
        /\ IsPrefix(base.unknown, base.unknown \o more.unknown)
    BY <1>4, <2>1, PrefixFacts
  <2>3. /\ Merged(base, more).ids = base.ids \o more.ids
        /\ Merged(base, more).strings = base.strings \o more.strings
        /\ Merged(base, more).unknown = base.unknown \o more.unknown
    BY MergedParts
  <2> QED
    BY ONLY <2>2, <2>3 DEF Extends
<1> QED
  BY <1>5, <1>6 DEF base, first

\* It stays so where nothing changes.
LEMMA HoldsFirstThen ==
  ASSUME UNCHANGED <<content, wire, parse>>
  PROVE  /\ HoldsFirst(Len(wire)) => HoldsFirst(Len(wire))'
         /\ HoldsFirst(parse.pos - 1) => HoldsFirst(parse.pos - 1)'
         /\ Held' = Held
<1>1. Held' = Held
  BY DEF Held
<1>2. ASSUME NEW n, HoldsFirst(n)
      PROVE  \A k \in 0 .. Len(wire') :
               k <= n /\ ~Mixed(wire', k) =>
                 Extends(Held', Merged(parse'.kept, Meaning(SubSeq(wire', 1, k))))
  BY <1>1, <1>2 DEF HoldsFirst
<1>3. ASSUME HoldsFirst(Len(wire))
      PROVE  HoldsFirst(Len(wire))'
  BY <1>2, <1>3 DEF HoldsFirst
<1>4. ASSUME HoldsFirst(parse.pos - 1)
      PROVE  HoldsFirst(parse.pos - 1)'
  BY <1>2, <1>4 DEF HoldsFirst
<1> QED
  BY <1>1, <1>3, <1>4

\* A parse that fails at this field took some of what the field could give, and
\* has its reason if the wire is one's own.
LEMMA FailKeeps ==
  ASSUME IInv, More, NEW c \in Content, Hold(c), Fail,
         NEW e \in Parts, c = Merged(Held, e),
         IsPrefix(e.ids, Meaning(<<Current>>).ids), Items(e) <= Items(Meaning(<<Current>>)),
         meant # <<>> => Current.kind = "string" /\ Current.items[1] \notin Utf8
  PROVE  IInv'
<1>1. /\ TypeOK' /\ WellFramed' /\ NotMeasured' /\ OwnFields'
      /\ TakenAsTheyAre' /\ LengthsAreIds'
      /\ meant' # <<>> => meant' = <<Meaning(wire')>> /\ ~Mixed(wire', Len(wire'))
  BY HoldKeeps DEF More
<1>2. /\ parse'.state = "rejected" /\ parse'.pos = parse.pos /\ parse'.kept = parse.kept
      /\ parse'.into = parse.into /\ UNCHANGED <<wire, meant>>
  BY DEF Fail
<1>3. content'[parse.into] = c
  BY DEF Hold
<1> DEFINE before == Meaning(SubSeq(parse.fields, 1, parse.pos - 1))
           one == Meaning(<<Current>>)
<1>4. Held = Merged(parse.kept, before)
  BY DEF Merging, More
<1>5. parse.kept \in Parts /\ before \in Parts /\ one \in Parts
  <2>1. parse.kept \in Content
    OBVIOUS
  <2>2. <<Current>> \in Seq(Field)
    BY CurrentFacts
  <2> QED
    BY <2>1, <2>2, CurrentFacts, MeaningFacts, ContentHasParts
<1>6. IsPrefix(e.ids, one.ids) /\ Items(e) <= Items(one)
  OBVIOUS
<1>7. ASSUME ~Mixed(wire, parse.pos)
      PROVE  LET read == Meaning(SubSeq(wire, 1, parse.pos))
             IN  /\ IsPrefix(c.ids, parse.kept.ids \o read.ids)
                 /\ Items(c) <= Items(parse.kept) + Items(read)
  <2>1. SubSeq(wire, 1, parse.pos) = SubSeq(parse.fields, 1, parse.pos)
    BY <1>7, ReadIsTaken
  <2>2. Meaning(SubSeq(wire, 1, parse.pos)) = Merged(before, one)
    BY <2>1, CurrentFacts
  <2> HIDE DEF before, one
  <2>3. c = Merged(Merged(parse.kept, before), e)
    BY <1>4
  <2> QED
    BY <2>2, <2>3, <1>5, <1>6, LeftByRejection
<1>8. \A k \in 0 .. Len(wire) :
        k <= parse.pos - 1 /\ ~Mixed(wire, k) =>
          Extends(c, Merged(parse.kept, Meaning(SubSeq(wire, 1, k))))
  <2> TAKE k \in 0 .. Len(wire)
  <2> HAVE k <= parse.pos - 1 /\ ~Mixed(wire, k)
  <2>1. k < parse.pos
    OBVIOUS
  <2> QED
    BY <2>1, WhatCameIsHeld DEF More
<1>9. meant # <<>> => \E k \in DOMAIN meant[1].strings : meant[1].strings[k] \notin Utf8
  BY InvalidWasMeant
<1>10. RejectedForCause'
  <2>1. Held' = c
    BY <1>2, <1>3 DEF Held
  <2>2. HoldsFirst(parse.pos - 1)'
    <3> DEFINE n == parse.pos - 1
    <3>1. \A k \in 0 .. Len(wire) :
            k <= n /\ ~Mixed(wire, k) => Extends(c, Merged(parse.kept, Meaning(SubSeq(wire, 1, k))))
      BY <1>8
    <3>2. parse'.pos - 1 = n
      BY <1>2
    <3> HIDE DEF n
    <3>3. \A k \in 0 .. Len(wire') :
            k <= parse'.pos - 1 /\ ~Mixed(wire', k) =>
              Extends(Held', Merged(parse'.kept, Meaning(SubSeq(wire', 1, k))))
      BY <1>2, <2>1, <3>1, <3>2
    <3> QED
      BY <3>3 DEF HoldsFirst
  <2> QED
    BY <1>2, <1>7, <1>9, <2>1, <2>2 DEF RejectedForCause, Items, Meaning, Carried, Mixed
<1>11. Merging' /\ AcceptedIsMerged'
  BY <1>1, <1>2 DEF Merging, AcceptedIsMerged, Parsing, Meaning, Carried, Mixed
<1> QED
  BY <1>1, <1>10, <1>11

\* A parse that ends well has merged the whole string.
LEMMA SuccessKeeps ==
  ASSUME IInv, Success
  PROVE  IInv'
<1>1. /\ parse' = [parse EXCEPT !.state = "accepted"]
      /\ UNCHANGED <<content, idsSize, measured, wire, meant>> /\ Parsing
  BY DEF Success
<1>2. /\ parse'.state = "accepted" /\ parse'.kept = parse.kept /\ parse'.into = parse.into
      /\ parse'.fields = parse.fields /\ ~Parsing' /\ parse.state # "idle"
  BY <1>1 DEF Parsing
<1>3. TypeOK' /\ NotMeasured' /\ Merging' /\ OwnFields' /\ RejectedForCause'
  BY <1>1, <1>2 DEF Sound, Merging, OwnFields, RejectedForCause
<1>4. TakenAsTheyAre' /\ LengthsAreIds'
  BY <1>1, <1>2 DEF TakenAsTheyAre, LengthsAreIds, Mixed
<1>5. WellFramed'
  BY <1>1 DEF WellFramed, Framed
<1>6. /\ parse.pos - 1 = Len(parse.fields) /\ SubSeq(parse.fields, 1, parse.pos - 1) = parse.fields
      /\ Len(parse.fields) \in Nat /\ parse.pos \in Nat
  <2>1. parse.pos - 1 = Len(parse.fields)
    BY DEF Success, Merging
  <2> QED
    BY <2>1, SubSeqFull
<1>7. ~Mixed(wire, Len(wire)) => Held = Merged(parse.kept, Meaning(wire))
  BY <1>1, <1>2, <1>6 DEF Merging, TakenAsTheyAre
<1>8. \A k \in 0 .. Len(wire) :
        ~Mixed(wire, k) => Extends(Held, Merged(parse.kept, Meaning(SubSeq(wire, 1, k))))
  <2> TAKE k \in 0 .. Len(wire)
  <2> HAVE ~Mixed(wire, k)
  <2>1. k < parse.pos
    <3>1. CASE k = 0
      BY <3>1
    <3>2. CASE k # 0
      <4>1. k \in 1 .. Len(wire)
        BY <3>2
      <4>2. k <= Len(parse.fields)
        BY <1>2, <4>1 DEF TakenAsTheyAre
      <4> QED
        BY <1>6, <4>1, <4>2
    <3> QED
      BY <3>1, <3>2
  <2>2. Held \in Parts /\ Empty \in Parts /\ Held = Merged(Held, Empty)
    <3>1. Held \in Parts
      BY ContentHasParts DEF Held
    <3> QED
      BY <3>1, MergedFacts
  <2> QED
    BY <1>1, <2>1, <2>2, WhatCameIsHeld
<1>9. Held' = Held
  BY <1>1, <1>2 DEF Held
<1>10. HoldsFirst(Len(wire))'
  <2>1. \A k \in 0 .. Len(wire') :
          k <= Len(wire') /\ ~Mixed(wire', k) =>
            Extends(Held', Merged(parse'.kept, Meaning(SubSeq(wire', 1, k))))
    BY <1>1, <1>2, <1>8, <1>9
  <2> QED
    BY <2>1 DEF HoldsFirst
<1>11. AcceptedIsMerged'
  BY <1>1, <1>2, <1>7, <1>9, <1>10 DEF AcceptedIsMerged, Merged, Meaning, Carried, Mixed
<1> QED
  BY <1>3, <1>4, <1>5, <1>11

\* A length is taken for an id only on a string from elsewhere, where it is one.
LEMMA LengthTaken ==
  ASSUME IInv, ReadMoreIds
  PROVE  /\ meant = <<>> /\ Current.len \in Ids /\ More
         /\ parse.pos \in 2 .. Len(parse.fields) /\ parse.pos - 1 \in 1 .. Len(parse.fields)
         /\ parse.fields[parse.pos].kind = "packed" /\ parse.fields[parse.pos - 1].kind = "id"
<1>1. /\ parse.pos \in 2 .. Len(parse.fields) /\ parse.pos - 1 \in 1 .. Len(parse.fields)
      /\ parse.fields \in Seq(Field) /\ More
      /\ parse.fields[parse.pos].kind = "packed" /\ parse.fields[parse.pos - 1].kind = "id"
      /\ parse.state = "parsing"
  BY DEF ReadMoreIds, AfterId, More, Current
<1>2. meant = <<>>
  <2> SUFFICES ASSUME meant # <<>> PROVE FALSE
    OBVIOUS
  <2>1. parse.fields = wire /\ parse.pos - 1 \in DOMAIN wire
    BY <1>1, OwnFieldsAreTaken
  <2> QED
    BY <1>1, <2>1 DEF OwnFields
<1>3. Current.len \in Ids
  BY <1>1, <1>2 DEF LengthsAreIds, Current
<1> QED
  BY <1>1, <1>2, <1>3

\* The fields as they are taken once a length is taken for an id: those before
\* it, the id, and either the others or such as cannot be told.
LEMMA FieldsTaken ==
  ASSUME IInv, ReadMoreIds
  PROVE  \E rest \in Seq(Field) :
           /\ parse'.fields = (SubSeq(parse.fields, 1, parse.pos - 1) \o <<One("id", Current.len)>>) \o rest
           /\ parse'.state \in {"parsing", "astray"} /\ parse'.pos = parse.pos + 1
           /\ parse'.into = parse.into /\ parse'.kept = parse.kept
           /\ \A k \in DOMAIN rest : Sound(rest[k])
           /\ parse'.state = "parsing" => rest = SubSeq(parse.fields, parse.pos + 1, Len(parse.fields))
<1> DEFINE tail == SubSeq(parse.fields, parse.pos + 1, Len(parse.fields))
           before == SubSeq(parse.fields, 1, parse.pos - 1)
           x == One("id", Current.len)
<1>1. PICK rest \in Behind : TakeLength(rest)
  BY DEF ReadMoreIds
<1>2. parse.state = "parsing"
  BY DEF ReadMoreIds
<1>3. /\ parse'.fields = (before \o <<x>>) \o rest /\ parse'.pos = parse.pos + 1
      /\ parse'.into = parse.into /\ parse'.kept = parse.kept
      /\ parse'.state = IF Current.whole /\ Current.items = <<>> THEN "parsing" ELSE "astray"
  <2> HIDE DEF before, x
  <2> QED
    BY <1>1, <1>2 DEF TakeLength, before, x
<1>4. /\ tail \in Seq(Field) /\ \A k \in DOMAIN tail : Sound(tail[k])
  <2>1. /\ parse.fields \in Seq(Field) /\ parse.pos + 1 \in Int /\ Len(parse.fields) \in Int
        /\ parse.pos \in Nat /\ Len(parse.fields) \in Nat
        /\ \A k \in 1 .. Len(parse.fields) : Sound(parse.fields[k])
    OBVIOUS
  <2>2. /\ tail \in Seq(Field)
        /\ \A k \in DOMAIN tail : tail[k] = parse.fields[parse.pos + k] /\ parse.pos + k \in 1 .. Len(parse.fields)
    <3> DEFINE v == parse.fields
               p == parse.pos
    <3>1. v \in Seq(Field) /\ p \in Nat /\ Len(v) \in Nat
      BY <2>1
    <3> HIDE DEF v, p
    <3>2. /\ SubSeq(v, p + 1, Len(v)) \in Seq(Field)
          /\ \A k \in DOMAIN SubSeq(v, p + 1, Len(v)) :
               SubSeq(v, p + 1, Len(v))[k] = v[p + k] /\ p + k \in 1 .. Len(v)
      BY ONLY <3>1
    <3> QED
      BY <3>2 DEF v, p
  <2> QED
    BY <2>1, <2>2
<1>5. rest \in Seq(Field) /\ \A k \in DOMAIN rest : Sound(rest[k])
  <2>1. CASE Current.whole /\ Current.items = <<>>
    BY <1>1, <1>4, <2>1 DEF Behind
  <2>2. CASE ~(Current.whole /\ Current.items = <<>>)
    BY <1>1, <2>2, WiresAssumption DEF Behind
  <2> QED
    BY <2>1, <2>2
<1>6. parse'.state = "parsing" => rest = tail
  BY <1>1, <1>3 DEF Behind
<1> HIDE DEF tail, before, x
<1>7. parse'.state \in {"parsing", "astray"}
  BY <1>3
<1> QED
  BY <1>3, <1>5, <1>6, <1>7 DEF tail, before, x

\* The first p - 1 elements of v, then x, then those of r.
Upto(v, p, x) == SubSeq(v, 1, p - 1) \o <<x>>
Spliced(v, p, x, r) == Upto(v, p, x) \o r
IsSpliced(w, v, p, x, r) ==
  /\ Len(w) = p + Len(r) /\ w[p] = x
  /\ \A k \in 1 .. p - 1 : w[k] = v[k]
  /\ \A k \in 1 .. Len(r) : w[p + k] = r[k]
  /\ SubSeq(w, 1, p) = Upto(v, p, x)

\* One element of a sequence and what follows it are replaced.
LEMMA Replaced ==
  ASSUME NEW S, NEW v \in Seq(S), NEW p \in 1 .. Len(v), NEW x \in S, NEW r \in Seq(S)
  PROVE  Spliced(v, p, x, r) \in Seq(S) /\ IsSpliced(Spliced(v, p, x, r), v, p, x, r)
<1> DEFINE before == SubSeq(v, 1, p - 1)
           one == <<x>>
           upto == before \o one
           w == upto \o r
<1>1. p \in Nat \ {0} /\ Len(v) \in Nat /\ Len(r) \in Nat
  OBVIOUS
<1>2. before \in Seq(S) /\ Len(before) = p - 1 /\ \A k \in 1 .. p - 1 : before[k] = v[k]
  OBVIOUS
<1>3. one \in Seq(S) /\ Len(one) = 1 /\ one[1] = x
  OBVIOUS
<1> HIDE DEF before, one
<1>4. /\ upto \in Seq(S) /\ Len(upto) = Len(before) + Len(one)
      /\ \A k \in 1 .. Len(before) + Len(one) :
           upto[k] = IF k <= Len(before) THEN before[k] ELSE one[k - Len(before)]
  BY <1>2, <1>3, ConcatProperties
<1> HIDE DEF upto
<1>5. upto \in Seq(S) /\ Len(upto) = p /\ upto[p] = x /\ \A k \in 1 .. p - 1 : upto[k] = v[k]
  <2>1. Len(upto) = p /\ Len(before) + Len(one) = p
    BY <1>1, <1>2, <1>3, <1>4
  <2>2. upto[p] = x
    <3>1. p \in 1 .. Len(before) + Len(one) /\ ~(p <= Len(before)) /\ p - Len(before) = 1
      BY <1>1, <1>2, <2>1
    <3>2. upto[p] = one[p - Len(before)]
      BY <1>4, <3>1
    <3> QED
      BY <1>3, <3>1, <3>2
  <2>3. ASSUME NEW k \in 1 .. p - 1
        PROVE  upto[k] = v[k]
    <3>1. k \in 1 .. Len(before) + Len(one) /\ k <= Len(before)
      BY <1>1, <1>2, <2>1
    <3>2. upto[k] = before[k]
      BY <1>4, <3>1
    <3> QED
      BY <1>2, <3>2
  <2> QED
    BY <1>4, <2>1, <2>2, <2>3
<1>6. Spliced(v, p, x, r) = w
  BY DEF Spliced, Upto, upto, before, one
<1>7. /\ w \in Seq(S) /\ Len(w) = Len(upto) + Len(r)
      /\ \A k \in 1 .. Len(upto) + Len(r) : w[k] = IF k <= Len(upto) THEN upto[k] ELSE r[k - Len(upto)]
  BY <1>5, ConcatProperties
<1> HIDE DEF w
<1>8. \A k \in 1 .. p : w[k] = upto[k]
  BY <1>1, <1>5, <1>7
<1>9. \A k \in 1 .. Len(r) : w[p + k] = r[k]
  BY <1>1, <1>5, <1>7
<1>10. SubSeq(w, 1, p) = upto
  <2>1. /\ SubSeq(w, 1, p) \in Seq(S) /\ Len(SubSeq(w, 1, p)) = p
        /\ \A k \in 1 .. p : SubSeq(w, 1, p)[k] = w[k]
    BY <1>1, <1>5, <1>7
  <2> QED
    BY <1>5, <1>8, <2>1, SeqEqual
<1> QED
  <2>1. /\ w \in Seq(S) /\ Len(w) = p + Len(r) /\ w[p] = x
        /\ \A k \in 1 .. p - 1 : w[k] = v[k]
        /\ SubSeq(w, 1, p) = Upto(v, p, x)
    <3>1. SubSeq(w, 1, p) = Upto(v, p, x)
      BY <1>10 DEF Upto, upto, before, one
    <3>2. w \in Seq(S) /\ Len(w) = p + Len(r)
      BY <1>5, <1>7
    <3>3. w[p] = x /\ \A k \in 1 .. p - 1 : w[k] = v[k]
      BY <1>1, <1>5, <1>8
    <3> QED
      BY <3>1, <3>2, <3>3
  <2>2. IsSpliced(w, v, p, x, r)
    BY <1>9, <2>1 DEF IsSpliced
  <2> QED
    BY ONLY <1>6, <2>1, <2>2

\* If what follows stays, nothing else changes.
LEMMA ReplacedOne ==
  ASSUME NEW S, NEW v \in Seq(S), NEW p \in 1 .. Len(v), NEW x \in S
  PROVE  /\ Len(Spliced(v, p, x, SubSeq(v, p + 1, Len(v)))) = Len(v)
         /\ \A k \in (1 .. Len(v)) \ {p} : Spliced(v, p, x, SubSeq(v, p + 1, Len(v)))[k] = v[k]
<1> DEFINE r == SubSeq(v, p + 1, Len(v))
           w == Spliced(v, p, x, r)
<1>1. p \in Nat \ {0} /\ Len(v) \in Nat
  OBVIOUS
<1>2. r \in Seq(S) /\ Len(r) = Len(v) - p /\ \A k \in 1 .. Len(v) - p : r[k] = v[p + k]
  OBVIOUS
<1> HIDE DEF r
<1>4. /\ Len(w) = p + Len(r)
      /\ \A k \in 1 .. p - 1 : w[k] = v[k]
      /\ \A k \in 1 .. Len(r) : w[p + k] = r[k]
  <2>1. r \in Seq(S)
    BY <1>2
  <2>2. IsSpliced(w, v, p, x, r)
    BY <2>1, Replaced
  <2> HIDE DEF w
  <2> QED
    BY <2>2 DEF IsSpliced
<1> HIDE DEF w
<1>5. \A k \in p + 1 .. Len(v) : w[k] = v[k]
  <2> TAKE k \in p + 1 .. Len(v)
  <2>1. k - p \in 1 .. Len(r) /\ p + (k - p) = k
    BY <1>1, <1>2
  <2> QED
    BY <1>2, <1>4, <2>1
<1>6. Len(w) = Len(v)
  <2>1. Len(r) = Len(v) - p /\ Len(w) = p + Len(r)
    BY <1>2, <1>4
  <2>2. Len(v) \in Nat /\ p \in Nat
    BY <1>1
  <2> QED
    BY ONLY <2>1, <2>2
<1>7. ASSUME NEW k \in (1 .. Len(v)) \ {p}
      PROVE  w[k] = v[k]
  <2>1. k \in 1 .. p - 1 \/ k \in p + 1 .. Len(v)
    BY <1>1
  <2> QED
    BY <1>4, <1>5, <2>1
<1> QED
  BY <1>6, <1>7 DEF w, r

\* An id is a field.
LEMMA OneIsField ==
  ASSUME NEW n \in Ids
  PROVE  /\ One("id", n) \in Field /\ Sound(One("id", n))
         /\ One("id", n).kind = "id" /\ One("id", n).items = <<n>>
<1> DEFINE q == <<n>>
           x == One("id", n)
<1>1. q \in Seq(Ids) /\ q \in Seq(Ids \cup Strings \cup Foreign) /\ Len(q) = 1
  OBVIOUS
<1>2. x = [kind |-> "id", whole |-> TRUE, len |-> 0, items |-> q]
  BY DEF One
<1> HIDE DEF q, x
<1>3. x \in Field /\ x.kind = "id" /\ x.items = q
  BY <1>1, <1>2 DEF Field, Kinds
<1>4. Sound(x)
  BY <1>1, <1>3 DEF Sound
<1> QED
  BY <1>3, <1>4 DEF q, x

\* A parse that takes a length for an id goes on, with the fields as it takes
\* them, and the string is mixed.
LEMMA MoreIdsKeeps ==
  ASSUME IInv, ReadMoreIds
  PROVE  IInv'
<1> DEFINE x == One("id", Current.len)
           before == SubSeq(parse.fields, 1, parse.pos - 1)
           upto == before \o <<x>>
<1>1. /\ meant = <<>> /\ Current.len \in Ids /\ More
      /\ parse.pos \in 2 .. Len(parse.fields) /\ parse.pos - 1 \in 1 .. Len(parse.fields)
      /\ parse.fields[parse.pos].kind = "packed" /\ parse.fields[parse.pos - 1].kind = "id"
  BY LengthTaken
<1>2. PICK rest \in Seq(Field) :
        /\ parse'.fields = (before \o <<x>>) \o rest
        /\ parse'.state \in {"parsing", "astray"} /\ parse'.pos = parse.pos + 1
        /\ parse'.into = parse.into /\ parse'.kept = parse.kept
        /\ \A k \in DOMAIN rest : Sound(rest[k])
        /\ parse'.state = "parsing" => rest = SubSeq(parse.fields, parse.pos + 1, Len(parse.fields))
  BY FieldsTaken
<1>3. /\ UNCHANGED <<idsSize, measured, wire, meant>>
      /\ parse.state = "parsing" /\ Parsing /\ Parsing'
  BY <1>2 DEF ReadMoreIds, More, Parsing
<1>4. x \in Field /\ Sound(x) /\ x.kind = "id" /\ x.items = <<Current.len>>
  BY <1>1, OneIsField
<1>5. /\ parse.fields \in Seq(Field) /\ wire \in Seq(Field) /\ parse.pos \in Nat
      /\ Len(parse.fields) \in Nat /\ Len(wire) \in Nat
  OBVIOUS
<1>6. before \in Seq(Field) /\ upto = before \o <<x>>
  BY <1>1, <1>5
<1>7. /\ parse'.fields \in Seq(Field) /\ Len(parse'.fields) = parse.pos + Len(rest)
      /\ parse'.fields[parse.pos] = x /\ Len(rest) \in Nat
      /\ \A k \in 1 .. parse.pos - 1 : parse'.fields[k] = parse.fields[k]
      /\ \A k \in 1 .. Len(rest) : parse'.fields[parse.pos + k] = rest[k]
      /\ SubSeq(parse'.fields, 1, parse.pos) = upto
  <2>1. parse.pos \in 1 .. Len(parse.fields)
    BY <1>1, <1>5
  <2>2. parse'.fields = (SubSeq(parse.fields, 1, parse.pos - 1) \o <<x>>) \o rest
    BY <1>2
  <2>3. x \in Field /\ Len(rest) \in Nat
    BY <1>4
  <2> HIDE DEF x
  <2>4. /\ parse'.fields \in Seq(Field) /\ Len(parse'.fields) = parse.pos + Len(rest)
        /\ parse'.fields[parse.pos] = x
        /\ \A k \in 1 .. parse.pos - 1 : parse'.fields[k] = parse.fields[k]
        /\ \A k \in 1 .. Len(rest) : parse'.fields[parse.pos + k] = rest[k]
        /\ SubSeq(parse'.fields, 1, parse.pos) = SubSeq(parse.fields, 1, parse.pos - 1) \o <<x>>
    <3> DEFINE v == parse.fields
               p == parse.pos
               w == parse'.fields
    <3>1. /\ v \in Seq(Field) /\ p \in 1 .. Len(v) /\ x \in Field /\ rest \in Seq(Field)
          /\ w = Spliced(v, p, x, rest)
      BY <1>5, <2>1, <2>2, <2>3 DEF Spliced, Upto
    <3> HIDE DEF v, p, w
    <3>2. w \in Seq(Field) /\ IsSpliced(w, v, p, x, rest)
      BY ONLY <3>1, Replaced
    <3> QED
      BY <3>2 DEF v, p, w, Upto, IsSpliced
  <2> QED
    BY <2>3, <2>4
<1>8. ASSUME parse'.state = "parsing"
      PROVE  /\ Len(parse'.fields) = Len(parse.fields)
             /\ \A k \in (1 .. Len(parse.fields)) \ {parse.pos} : parse'.fields[k] = parse.fields[k]
  <2>1. /\ parse.pos \in 1 .. Len(parse.fields)
        /\ rest = SubSeq(parse.fields, parse.pos + 1, Len(parse.fields))
    <3>1. parse.pos \in 1 .. Len(parse.fields)
      BY <1>1, <1>5
    <3> QED
      BY <1>2, <1>8, <3>1
  <2>2. parse'.fields = (SubSeq(parse.fields, 1, parse.pos - 1) \o <<x>>)
                          \o SubSeq(parse.fields, parse.pos + 1, Len(parse.fields))
    BY <1>2, <2>1
  <2>3. x \in Field
    BY <1>4
  <2> HIDE DEF x
  <2> QED
    <3> DEFINE v == parse.fields
               p == parse.pos
               w == parse'.fields
    <3>1. /\ v \in Seq(Field) /\ p \in 1 .. Len(v) /\ x \in Field
          /\ w = Spliced(v, p, x, SubSeq(v, p + 1, Len(v)))
      BY <1>5, <2>1, <2>2, <2>3 DEF Spliced, Upto
    <3> HIDE DEF v, p, w
    <3>2. Len(w) = Len(v) /\ \A k \in (1 .. Len(v)) \ {p} : w[k] = v[k]
      BY ONLY <3>1, ReplacedOne
    <3> QED
      BY <3>2 DEF v, p, w
<1> HIDE DEF x, before, upto
<1>9. \A k \in DOMAIN parse'.fields :
        k \in 1 .. parse.pos - 1 \/ k = parse.pos \/ \E j \in 1 .. Len(rest) : k = parse.pos + j
  <2> TAKE k \in DOMAIN parse'.fields
  <2>1. k \in 1 .. parse.pos + Len(rest)
    <3>1. DOMAIN parse'.fields = 1 .. Len(parse'.fields)
      BY <1>7
    <3> QED
      BY <1>7, <3>1
  <2>2. CASE k > parse.pos
    <3>1. k - parse.pos \in 1 .. Len(rest) /\ k = parse.pos + (k - parse.pos)
      <4>1. parse.pos \in Nat /\ Len(rest) \in Nat
        BY <1>5, <1>7
      <4> QED
        BY ONLY <4>1, <2>1, <2>2
    <3> QED
      BY <3>1
  <2> QED
    BY <1>5, <1>7, <2>1, <2>2
<1>10. PICK c \in Content : /\ Hold(c) /\ c = Merged(Held, Meaning(<<x>>))
  <2> DEFINE q == <<Current.len>>
             c == [Held EXCEPT !.ids = @ \o q]
  <2>1. Held \in Content /\ Held \in Parts /\ Held.ids \in Seq(Ids)
    <3>1. Held \in Content
      BY DEF Held
    <3> QED
      BY <3>1, ContentHasParts DEF Content
  <2>2. q \in Seq(Ids) /\ q \in Seq(Item) /\ Held.ids \o q \in Seq(Ids)
    BY <1>1, <2>1 DEF Item
  <2>3. Append(Held.ids, Current.len) = Held.ids \o q
    BY <1>1, <2>1, AppendIsConcat
  <2>4. Hold(c)
    BY <2>3 DEF ReadMoreIds
  <2>5. c \in Content
    BY <2>1, <2>2, PartsReplaced
  <2>6. Meaning(<<x>>) = OnlyIds(q)
    BY <1>4, MeaningByKind
  <2> HIDE DEF q
  <2>7. c = Merged(Held, Meaning(<<x>>))
    BY <2>1, <2>2, <2>6, MergedOnly
  <2> QED
    BY <2>4, <2>5, <2>7
<1>11. /\ content' \in [Messages -> Content] /\ Held' = c
       /\ \A n \in Messages \ {parse.into} : content'[n] = content[n]
  BY <1>2, <1>10 DEF Hold, Held
<1>12. \A k \in DOMAIN parse'.fields : Sound(parse'.fields[k])
  <2> TAKE k \in DOMAIN parse'.fields
  <2>1. CASE k \in 1 .. parse.pos - 1
    <3>1. k \in DOMAIN parse.fields
      BY <1>1, <1>5, <2>1
    <3> QED
      BY <1>7, <2>1, <3>1
  <2>2. CASE k = parse.pos
    BY <1>4, <1>7, <2>2
  <2>3. ASSUME NEW j \in 1 .. Len(rest), k = parse.pos + j
        PROVE  Sound(parse'.fields[k])
    <3>1. j \in DOMAIN rest
      OBVIOUS
    <3>2. Sound(rest[j])
      BY <1>2, <3>1
    <3>3. parse'.fields[k] = rest[j]
      BY <1>7, <2>3
    <3> QED
      BY <3>2, <3>3
  <2> QED
    BY <1>9, <2>1, <2>2, <2>3
<1>13. TypeOK' /\ NotMeasured'
  <2>1. parse' \in [state : {"idle", "parsing", "astray", "accepted", "rejected"}, into : Messages,
                    fields : Seq(Field), pos : Nat \ {0}, kept : Content]
    <3> DEFINE Parse == [state : {"idle", "parsing", "astray", "accepted", "rejected"}, into : Messages,
                         fields : Seq(Field), pos : Nat \ {0}, kept : Content]
    <3>1. parse \in Parse
      OBVIOUS
    <3>2. PICK t, v, n : parse' = [parse EXCEPT !.state = t, !.fields = v, !.pos = n]
      <4>1. PICK other \in Behind : TakeLength(other)
        BY DEF ReadMoreIds
      <4> QED
        BY <4>1 DEF TakeLength
    <3>3. parse'.state = t /\ parse'.fields = v /\ parse'.pos = n
      BY <3>1, <3>2
    <3>4. t \in {"parsing", "astray"} /\ v \in Seq(Field) /\ n \in Nat \ {0}
      <4>1. parse.pos + 1 \in Nat \ {0}
        BY <1>5
      <4> QED
        BY <1>2, <1>7, <3>3, <4>1
    <3> QED
      BY <3>1, <3>2, <3>4
  <2>2. /\ idsSize' \in [Messages -> Nat] /\ measured' \subseteq Messages
        /\ meant' \in Seq(Content) /\ Len(meant') <= 1
        /\ wire' \in Seq(Field)
    BY <1>3
  <2>3. \A k \in DOMAIN wire' : Sound(wire'[k])
    BY <1>3 DEF Sound
  <2>4. NotMeasured'
    BY <1>2, <1>3
  <2> QED
    BY <1>11, <1>12, <2>1, <2>2, <2>3, <2>4 DEF Sound
<1>14. WellFramed'
  BY <1>3, <1>11 DEF WellFramed, Framed
<1>15. Merging'
  <2>1. /\ Held = Merged(parse.kept, Meaning(before))
        /\ parse.kept \in Parts
    BY <1>3, ContentHasParts DEF Merging, before
  <2>2. <<x>> \in Seq(Field)
    BY <1>4
  <2>3. Meaning(upto) = Merged(Meaning(before), Meaning(<<x>>)) /\ Meaning(before) \in Parts /\ Meaning(<<x>>) \in Parts
    BY <1>6, <2>2, MeaningFacts
  <2>4. c = Merged(parse.kept, Meaning(upto))
    BY <1>10, <2>1, <2>3, MergedFacts
  <2>5. parse'.pos - 1 = parse.pos /\ parse'.pos <= Len(parse'.fields) + 1
    BY <1>2, <1>5, <1>7
  <2>6. Held' = Merged(parse'.kept, Meaning(SubSeq(parse'.fields, 1, parse'.pos - 1)))
    BY <1>2, <1>7, <1>11, <2>4, <2>5
  <2> QED
    BY <2>5, <2>6 DEF Merging, Meaning, Carried, Merged
<1>16. OwnFields'
  BY <1>1, <1>3 DEF OwnFields
<1>17. TakenAsTheyAre'
  <2>1. Mixed(wire, Len(wire))
    <3> SUFFICES ASSUME ~Mixed(wire, Len(wire)) PROVE FALSE
      OBVIOUS
    <3>1. parse.fields = wire
      BY <1>3 DEF TakenAsTheyAre
    <3> QED
      BY <1>1, <1>5, <3>1 DEF Mixed
  <2>2. \A k \in 1 .. Len(wire) :
          ~Mixed(wire, k) => k <= Len(parse'.fields) /\ parse'.fields[k] = wire[k]
    <3> TAKE k \in 1 .. Len(wire)
    <3> HAVE ~Mixed(wire, k)
    <3>1. k < parse.pos
      <4> SUFFICES ASSUME parse.pos <= k PROVE FALSE
        BY <1>5
      <4>1. /\ parse.pos \in 2 .. Len(wire) /\ parse.pos \in 1 .. Len(wire)
            /\ parse.pos - 1 \in 1 .. Len(wire) /\ k \in Nat
        BY <1>1, <1>5
      <4>2. ~Mixed(wire, parse.pos) /\ ~Mixed(wire, parse.pos - 1)
        BY <1>5, <4>1 DEF Mixed
      <4>3. parse.fields[parse.pos] = wire[parse.pos] /\ parse.fields[parse.pos - 1] = wire[parse.pos - 1]
        BY <1>3, <4>1, <4>2 DEF TakenAsTheyAre
      <4> QED
        BY <1>1, <4>1, <4>2, <4>3 DEF Mixed
    <3>2. parse.fields[k] = wire[k]
      BY <1>3 DEF TakenAsTheyAre
    <3>3. k \in 1 .. parse.pos - 1 /\ k \in 1 .. parse.pos
      BY <1>5, <3>1
    <3>4. k <= Len(parse'.fields)
      BY <1>5, <1>7, <3>3
    <3> QED
      BY <1>7, <3>2, <3>3, <3>4
  <2> QED
    BY <1>3, <2>1, <2>2 DEF TakenAsTheyAre, Mixed
<1>18. LengthsAreIds'
  <2>1. ASSUME parse'.state = "parsing", NEW k \in DOMAIN parse'.fields, parse'.fields[k].kind = "packed"
        PROVE  parse'.fields[k].len \in Ids
    <3>1. k # parse.pos
      BY <1>4, <1>7, <2>1
    <3>2. k \in (1 .. Len(parse.fields)) \ {parse.pos} /\ k \in DOMAIN parse.fields
      <4>1. DOMAIN parse'.fields = 1 .. Len(parse'.fields) /\ DOMAIN parse.fields = 1 .. Len(parse.fields)
        BY <1>5, <1>7
      <4>2. Len(parse'.fields) = Len(parse.fields)
        BY <1>8, <2>1
      <4> QED
        BY <2>1, <3>1, <4>1, <4>2
    <3>3. parse'.fields[k] = parse.fields[k]
      BY <1>8, <2>1, <3>2
    <3> QED
      BY <1>1, <1>3, <2>1, <3>2, <3>3 DEF LengthsAreIds
  <2> QED
    BY <1>1, <1>3, <2>1 DEF LengthsAreIds
<1>19. AcceptedIsMerged' /\ RejectedForCause'
  BY <1>1, <1>2, <1>3 DEF AcceptedIsMerged, RejectedForCause
<1> QED
  BY <1>13, <1>14, <1>15, <1>16, <1>17, <1>18, <1>19

\* Every step of a parse merges a field, takes a length for an id, fails at a
\* field, or ends the parse.
LEMMA ParseStepKeeps ==
  ASSUME IInv, ParseStep
  PROVE  IInv'
<1>1. CASE Success
  BY <1>1, SuccessKeeps
<1>2. CASE ReadMoreIds
  BY <1>2, MoreIdsKeeps
<1>3. CASE ~Success /\ ~ReadMoreIds
  <2>1. More /\ Held \in Content
    BY <1>3 DEF ParseStep, ReadIds, ReadString, SkipField, Cut, BadTag, More, Held
  <2>2. Current \in Field /\ Sound(Current)
    BY <2>1, CurrentFacts
  <2> DEFINE one == Meaning(<<Current>>)
             i == Current.items
  <2>3. /\ Held.ids \in Seq(Ids) /\ Held.strings \in Seq(Strings) /\ Held.unknown \in Seq(Foreign)
        /\ Held \in Parts
    BY <2>1, ContentHasParts DEF Content
  <2>4. i \in Seq(Item)
    BY <2>2, MeaningByKind
  <2>5. one \in Parts
    <3>1. <<Current>> \in Seq(Field)
      BY <2>2
    <3> QED
      BY <3>1, MeaningFacts
  <2>6. meant # <<>> => Current.whole /\ Current.kind # "bad"
    <3> SUFFICES ASSUME meant # <<>> PROVE Current.whole /\ Current.kind # "bad"
      OBVIOUS
    <3>1. Current = wire[parse.pos] /\ parse.pos \in DOMAIN wire
      BY <2>1, OwnFieldsAreTaken, CurrentFacts DEF Current
    <3> QED
      BY <3>1 DEF OwnFields
  <2>7. CASE ReadIds
    <3>1. one = OnlyIds(i)
      BY <2>2, <2>7, MeaningByKind DEF ReadIds
    <3>2. [Held EXCEPT !.ids = @ \o i] = Merged(Held, one)
      <4> HIDE DEF one, i
      <4> QED
        BY <2>3, <2>4, <3>1, MergedOnly
    <3>3. Held.ids \o i \in Seq(Ids)
      <4>1. i \in Seq(Ids)
        BY <2>2, <2>7 DEF ReadIds, Sound
      <4> QED
        BY <2>3, <4>1
    <3>4. [Held EXCEPT !.ids = @ \o i] \in Content
      BY <2>1, <3>3, PartsReplaced
    <3> QED
      BY <2>1, <2>7, <3>2, <3>4, AdvanceKeeps DEF ReadIds
  <2>8. CASE ReadString
    <3>1. one = OnlyStrings(i)
      BY <2>2, <2>8, MeaningByKind DEF ReadString
    <3> DEFINE c == [Held EXCEPT !.strings = @ \o i]
    <3>2. c = Merged(Held, one)
      <4> HIDE DEF one, i
      <4> QED
        BY <2>3, <2>4, <3>1, MergedOnly
    <3>3. Held.strings \o i \in Seq(Strings)
      <4>1. i \in Seq(Strings)
        BY <2>2, <2>8 DEF ReadString, Sound
      <4> QED
        BY <2>3, <4>1
    <3>4. c \in Content
      BY <2>1, <3>3, PartsReplaced
    <3>5. Hold(c) /\ Current.kind = "string" /\ IF i[1] \in Utf8 THEN Step ELSE Fail
      BY <2>8 DEF ReadString
    <3>6. IsPrefix(one.ids, one.ids) /\ Items(one) <= Items(one)
      <4>1. one.ids = <<>> /\ <<>> \in Seq(Item)
        BY <3>1 DEF OnlyStrings, Empty
      <4>2. Items(one) = Len(i) /\ Len(i) \in Nat
        BY <2>3, <2>4, <3>1, MergedOnly
      <4>3. IsPrefix(<<>>, <<>>)
        <5>1. 0 \in 0 .. Len(<<>>)
          BY EmptySeq
        <5> QED
          BY <4>1, <5>1, PrefixOf
      <4> QED
        BY <4>1, <4>2, <4>3
    <3> HIDE DEF c
    <3>7. CASE i[1] \in Utf8
      BY <2>1, <3>2, <3>4, <3>5, <3>7, AdvanceKeeps
    <3>8. CASE i[1] \notin Utf8
      BY <2>1, <2>5, <3>2, <3>4, <3>5, <3>6, <3>8, FailKeeps
    <3> QED
      BY <3>7, <3>8
  <2>9. CASE SkipField
    <3>1. one = OnlyUnknown(i)
      BY <2>2, <2>9, MeaningByKind DEF SkipField
    <3>2. [Held EXCEPT !.unknown = @ \o i] = Merged(Held, one)
      <4> HIDE DEF one, i
      <4> QED
        BY <2>3, <2>4, <3>1, MergedOnly
    <3>3. Held.unknown \o i \in Seq(Foreign)
      <4>1. i \in Seq(Foreign)
        BY <2>2, <2>9 DEF SkipField, Sound
      <4> QED
        BY <2>3, <4>1
    <3>4. [Held EXCEPT !.unknown = @ \o i] \in Content
      BY <2>1, <3>3, PartsReplaced
    <3> QED
      BY <2>1, <2>9, <3>2, <3>4, AdvanceKeeps DEF SkipField
  <2>10. CASE Cut \/ BadTag
    <3>1. meant = <<>> /\ Fail
      BY <2>6, <2>10 DEF Cut, BadTag
    <3>2. Empty \in Parts /\ Merged(Held, Empty) = Held
      BY <2>3, MergedFacts
    <3>3. IsPrefix(<<>>, one.ids) /\ 0 <= Items(one)
      <4>1. one.ids \in Seq(Item) /\ one.strings \in Seq(Item) /\ one.unknown \in Seq(Item)
        BY <2>5 DEF Parts
      <4>2. IsPrefix(<<>>, one.ids)
        BY <4>1, PrefixOf
      <4>3. Len(one.ids) \in Nat /\ Len(one.strings) \in Nat /\ Len(one.unknown) \in Nat
        BY <4>1
      <4>4. 0 <= Items(one)
        <5>1. \A x, y, z \in Nat : 0 <= x + y + z
          OBVIOUS
        <5> HIDE DEF one
        <5> QED
          BY <4>3, <5>1, Zenon DEF Items
      <4> QED
        BY <4>2, <4>4
    <3> DEFINE Taken(c, e) == /\ c \in Content /\ Hold(c) /\ e \in Parts /\ c = Merged(Held, e)
                              /\ IsPrefix(e.ids, one.ids) /\ Items(e) <= Items(one)
    <3>4. \E c, e : Taken(c, e)
      <4>1. CASE Hold(Held)
        <5>1. Empty.ids = <<>> /\ Items(Empty) = 0
          BY <2>3, <2>4, MergedOnly DEF Empty
        <5>2. Taken(Held, Empty)
          BY <2>1, <3>2, <3>3, <4>1, <5>1
        <5> QED
          BY <5>2
      <4>2. ASSUME Current.kind = "packed", NEW n \in 0 .. Len(i),
                   Hold([Held EXCEPT !.ids = @ \o SubSeq(i, 1, n)])
            PROVE  \E c, e : Taken(c, e)
        <5> DEFINE q == SubSeq(i, 1, n)
        <5>1. q \in Seq(Item) /\ Len(q) = n /\ n <= Len(i) /\ IsPrefix(q, i)
          BY <2>4, PrefixOf
        <5>2. q \in Seq(Ids)
          <6>1. i \in Seq(Ids)
            BY <2>2, <4>2 DEF Sound
          <6> QED
            BY <6>1
        <5>3. one = OnlyIds(i)
          BY <2>2, <4>2, MeaningByKind
        <5>4. Hold([Held EXCEPT !.ids = @ \o q])
          BY <4>2
        <5> HIDE DEF q, one, i
        <5>5. Held.ids \o q \in Seq(Ids)
          BY <2>3, <5>2
        <5>6. [Held EXCEPT !.ids = @ \o q] \in Content
          BY <2>1, <5>5, PartsReplaced
        <5>7. /\ OnlyIds(q) \in Parts /\ Merged(Held, OnlyIds(q)) = [Held EXCEPT !.ids = @ \o q]
              /\ Items(OnlyIds(q)) = n /\ Items(one) = Len(i)
          BY <2>3, <2>4, <5>1, <5>3, MergedOnly
        <5>8. OnlyIds(q).ids = q /\ one.ids = i
          BY <5>3 DEF OnlyIds, Empty
        <5>9. Taken([Held EXCEPT !.ids = @ \o q], OnlyIds(q))
          BY <5>1, <5>4, <5>6, <5>7, <5>8
        <5> QED
          BY <5>9
      <4>3. ASSUME Current.kind = "string", NEW s \in Strings,
                   Hold([Held EXCEPT !.strings = Append(@, s)])
            PROVE  \E c, e : Taken(c, e)
        <5> DEFINE q == <<s>>
        <5>1. q \in Seq(Item) /\ Len(q) = 1
          BY DEF Item
        <5>2. Append(Held.strings, s) = Held.strings \o q /\ Append(Held.strings, s) \in Seq(Strings)
          BY <2>3, AppendIsConcat
        <5>3. one = OnlyStrings(i) /\ Len(i) = 1
          BY <2>2, <4>3, MeaningByKind DEF Sound
        <5> HIDE DEF q, one, i
        <5>4. Hold([Held EXCEPT !.strings = @ \o q])
          BY <4>3, <5>2
        <5>5. [Held EXCEPT !.strings = @ \o q] \in Content
          BY <2>1, <5>2, PartsReplaced
        <5>6. /\ OnlyStrings(q) \in Parts /\ Merged(Held, OnlyStrings(q)) = [Held EXCEPT !.strings = @ \o q]
              /\ Items(OnlyStrings(q)) = 1 /\ Items(one) = 1
          BY <2>3, <2>4, <5>1, <5>3, MergedOnly
        <5>7. OnlyStrings(q).ids = <<>>
          BY DEF OnlyStrings, Empty
        <5>8. Taken([Held EXCEPT !.strings = @ \o q], OnlyStrings(q))
          BY <3>3, <5>4, <5>5, <5>6, <5>7
        <5> QED
          BY <5>8
      <4>4. ASSUME Current.kind = "unknown", NEW f \in Foreign,
                   Hold([Held EXCEPT !.unknown = Append(@, f)])
            PROVE  \E c, e : Taken(c, e)
        <5> DEFINE q == <<f>>
        <5>1. q \in Seq(Item) /\ Len(q) = 1
          BY DEF Item
        <5>2. Append(Held.unknown, f) = Held.unknown \o q /\ Append(Held.unknown, f) \in Seq(Foreign)
          BY <2>3, AppendIsConcat
        <5>3. one = OnlyUnknown(i) /\ Len(i) = 1
          BY <2>2, <4>4, MeaningByKind DEF Sound
        <5> HIDE DEF q, one, i
        <5>4. Hold([Held EXCEPT !.unknown = @ \o q])
          BY <4>4, <5>2
        <5>5. [Held EXCEPT !.unknown = @ \o q] \in Content
          BY <2>1, <5>2, PartsReplaced
        <5>6. /\ OnlyUnknown(q) \in Parts /\ Merged(Held, OnlyUnknown(q)) = [Held EXCEPT !.unknown = @ \o q]
              /\ Items(OnlyUnknown(q)) = 1 /\ Items(one) = 1
          BY <2>3, <2>4, <5>1, <5>3, MergedOnly
        <5>7. OnlyUnknown(q).ids = <<>>
          BY DEF OnlyUnknown, Empty
        <5>8. Taken([Held EXCEPT !.unknown = @ \o q], OnlyUnknown(q))
          BY <3>3, <5>4, <5>5, <5>6, <5>7
        <5> QED
          BY <5>8
      <4> HIDE DEF Taken
      <4> QED
        BY <2>10, <4>1, <4>2, <4>3, <4>4 DEF Cut, BadTag
    <3>5. PICK c, e : Taken(c, e)
      BY <3>4
    <3> QED
      BY <2>1, <3>1, <3>5, FailKeeps
  <2> QED
    BY <1>3, <2>7, <2>8, <2>9, <2>10 DEF ParseStep
<1> QED
  BY <1>1, <1>2, <1>3

\* Every call keeps the invariant.
LEMMA CallKeeps ==
  ASSUME IInv, Call
  PROVE  IInv'
<1> PICK m \in Messages :
      \/ Access(m) \/ Clear(m)
      \/ ByteSizeLong(m) \/ SerializeWithCachedSizes(m)
      \/ ParseFromString(m) \/ MergeFromString(m)
      \/ \E other \in Messages :
           \/ MergeFrom(m, other) \/ CopyFrom(m, other) \/ Swap(m, other)
           \/ CopyConstruct(m, other) \/ MoveConstruct(m, other)
  BY DEF Call
<1>1. content[m] \in Content
  OBVIOUS
<1>2. CASE Access(m)
  BY <1>2, AccessKeeps
<1>3. CASE Clear(m)
  BY <1>1, <1>3, ContentFacts, ChangeKeeps DEF Clear
<1>4. CASE ByteSizeLong(m)
  BY <1>4, MeasureKeeps
<1>5. CASE SerializeWithCachedSizes(m)
  BY <1>5, SerializeKeeps
<1>6. CASE ParseFromString(m) \/ MergeFromString(m)
  <2>1. Cleared(content[m]) = Empty /\ Empty \in Content
    BY ContentFacts, <1>1 DEF Cleared
  <2> QED
    BY <1>1, <1>6, <2>1, StartKeeps DEF ParseFromString, MergeFromString
<1>7. ASSUME NEW other \in Messages,
             \/ MergeFrom(m, other) \/ CopyFrom(m, other) \/ Swap(m, other)
             \/ CopyConstruct(m, other) \/ MoveConstruct(m, other)
      PROVE  IInv'
  <2>1. content[other] \in Content
    OBVIOUS
  <2>2. CASE MergeFrom(m, other) \/ CopyFrom(m, other)
    BY <1>1, <2>1, <2>2, ContentFacts, ChangeKeeps DEF MergeFrom, CopyFrom
  <2>3. CASE Swap(m, other)
    BY <2>3, SwapKeeps
  <2>4. CASE CopyConstruct(m, other) \/ MoveConstruct(m, other)
    BY <1>1, <2>1, <2>4, ContentFacts, ConstructKeeps DEF CopyConstruct, MoveConstruct
  <2> QED
    BY <1>7, <2>2, <2>3, <2>4
<1> QED
  BY <1>2, <1>3, <1>4, <1>5, <1>6, <1>7

\* The invariant holds at first, whatever string comes from elsewhere.
LEMMA InitHolds == Init => IInv
<1> SUFFICES ASSUME Init PROVE IInv
  OBVIOUS
<1>1. parse = NoParse /\ NoParse.state = "idle" /\ meant = <<>> /\ measured = {}
  BY NoParseFacts DEF Init
<1>2. TypeOK
  <2>1. content \in [Messages -> Content]
    BY DEF Init, Content, Empty
  <2>2. idsSize \in [Messages -> Nat]
    BY SizesAssumption DEF Init
  <2>3. wire \in Seq(Field) /\ \A k \in DOMAIN wire : Sound(wire[k])
    BY WiresAssumption DEF Init
  <2> QED
    BY <1>1, <2>1, <2>2, <2>3, NoParseFacts
<1>3. WellFramed
  BY <1>1, WiresAssumption DEF Init, WellFramed
<1>4. OwnFields /\ TakenAsTheyAre /\ LengthsAreIds
  BY <1>1 DEF Init, OwnFields, TakenAsTheyAre, LengthsAreIds
<1> QED
  BY <1>1, <1>2, <1>3, <1>4 DEF Parsing, Merging, AcceptedIsMerged, RejectedForCause

\* Nothing is lost of the invariant where nothing changes.
LEMMA StutterKeeps == IInv /\ UNCHANGED vars => IInv'
<1> SUFFICES ASSUME IInv, UNCHANGED vars PROVE IInv'
  OBVIOUS
<1>1. UNCHANGED <<content, idsSize, measured, wire, meant, parse>>
  BY DEF vars
<1>2. TypeOK' /\ NotMeasured' /\ OwnFields' /\ TakenAsTheyAre' /\ LengthsAreIds'
  BY <1>1 DEF Sound, Parsing, OwnFields, TakenAsTheyAre, LengthsAreIds, Mixed
<1>3. WellFramed'
  BY <1>1 DEF WellFramed, Framed
<1>4. Merging'
  BY <1>1 DEF Merging, Parsing, Held, Merged, Meaning, Carried
<1>5. AcceptedIsMerged'
  BY <1>1, HoldsFirstThen DEF AcceptedIsMerged, Merged, Meaning, Carried, Mixed
<1>6. RejectedForCause'
  BY <1>1, HoldsFirstThen DEF RejectedForCause, Items, Meaning, Carried, Mixed
<1> QED
  BY <1>2, <1>3, <1>4, <1>5, <1>6

\* It is an invariant of the specification.
THEOREM Inductive == Spec => []IInv
<1>1. IInv /\ [Next]_vars => IInv'
  BY CallKeeps, ParseStepKeeps, StutterKeeps DEF Next
<1> QED
  BY <1>1, InitHolds, PTL DEF Spec

\* Messages, the string and the parse are of their types, the size a message
\* has cached is a number, and every field is what its kind says.
THEOREM TypeCorrect == Spec => []TypeOK
<1>1. IInv => TypeOK
  OBVIOUS
<1> QED
  BY <1>1, Inductive, PTL

(***************************************************************************)
(* The size of the packed ids that serialization trusts is theirs, and     *)
(* every packed field on the wire is framed with it, after any calls of    *)
(* add, set, clear, MergeFrom, CopyFrom, Swap, the constructors and parse. *)
(***************************************************************************)
THEOREM FramesItsIds == Spec => []WellFramed
<1>1. IInv => WellFramed
  OBVIOUS
<1> QED
  BY <1>1, Inductive, PTL

(***************************************************************************)
(* A parse that ends well has merged, field by field, the message that the *)
(* string stands for into what ParseFromString or MergeFromString kept.    *)
(* If a packed field follows an id that is not, whose length may have been *)
(* taken for an id, it has merged what came before.  What was written by   *)
(* SerializeWithCachedSizes has no such field, and stands for the message. *)
(***************************************************************************)
THEOREM MergesWhatItAccepts == Spec => []AcceptedIsMerged
<1>1. IInv => AcceptedIsMerged
  OBVIOUS
<1> QED
  BY <1>1, Inductive, PTL

(***************************************************************************)
(* A string written here is rejected only for a string that VerifyUtf8     *)
(* refuses.  A parse that is rejected, at a bad tag, at a cut field or at  *)
(* such a string, leaves what was kept and what was read; and no more than *)
(* a part of the field it fails at, unless packed ids were misread.        *)
(***************************************************************************)
THEOREM RejectsForCause == Spec => []RejectedForCause
<1>1. IInv => RejectedForCause
  OBVIOUS
<1> QED
  BY <1>1, Inductive, PTL

(***************************************************************************)
(* Every step of a parse takes the next field, or ends it, of the string   *)
(* it began with and into the message it began with.  What it has taken it *)
(* never takes again.  What is left changes only if the length of a packed *)
(* field behind an id is taken for an id: an empty one leaves as many      *)
(* fields as there were; another one makes the parse go astray, once.      *)
(***************************************************************************)
Further ==
  Parsing =>
    /\ wire' = wire /\ parse'.into = parse.into
    /\ \A m \in Messages \ {parse.into} : content'[m] = content[m]
    /\ Parsing' => parse'.pos = parse.pos + 1 /\ parse.pos <= Len(parse.fields)
    /\ parse'.state = "accepted" => parse.pos = Len(parse.fields) + 1
    /\ \A k \in 1 .. parse.pos - 1 : parse'.fields[k] = parse.fields[k]
    /\ \/ parse'.fields = parse.fields
       \/ /\ parse.fields[parse.pos].kind = "packed" /\ parse.fields[parse.pos - 1].kind = "id"
          /\ parse.state = "parsing"
          /\ Len(parse'.fields) = Len(parse.fields) \/ parse'.state = "astray"
    /\ parse.state = "astray" => parse'.state # "parsing"
ParseAdvances == [][Further]_vars

\* No call is made during a parse.
LEMMA CallsAreBetween ==
  ASSUME Call
  PROVE  Idle
<1>1. ASSUME NEW m, NEW c, Change(m, c) PROVE Idle
  BY <1>1 DEF Change
<1>2. ASSUME NEW m, NEW from, NEW left, Construct(m, from, left) PROVE Idle
  BY <1>2 DEF Construct
<1>3. PICK m \in Messages :
        \/ Access(m) \/ Clear(m)
        \/ ByteSizeLong(m) \/ SerializeWithCachedSizes(m)
        \/ ParseFromString(m) \/ MergeFromString(m)
        \/ \E other \in Messages :
             \/ MergeFrom(m, other) \/ CopyFrom(m, other) \/ Swap(m, other)
             \/ CopyConstruct(m, other) \/ MoveConstruct(m, other)
  BY DEF Call
<1>4. CASE Access(m)
  <2>1. CASE clear_ids(m) \/ clear_strings(m)
    BY <1>1, <2>1, Zenon DEF clear_ids, clear_strings
  <2>2. ASSUME NEW x, add_ids(m, x) \/ \E k \in DOMAIN content[m].ids : set_ids(m, k, x)
        PROVE  Idle
    BY <1>1, <2>2, Zenon DEF add_ids, set_ids
  <2>3. ASSUME NEW x, add_strings(m, x) \/ \E k \in DOMAIN content[m].strings : set_strings(m, k, x)
        PROVE  Idle
    BY <1>1, <2>3, Zenon DEF add_strings, set_strings
  <2> QED
    BY <1>4, <2>1, <2>2, <2>3, Zenon DEF Access
<1>5. CASE Clear(m)
  BY <1>1, <1>5 DEF Clear
<1>6. CASE ByteSizeLong(m) \/ SerializeWithCachedSizes(m)
  BY <1>6 DEF ByteSizeLong, SerializeWithCachedSizes
<1>7. CASE ParseFromString(m) \/ MergeFromString(m)
  BY <1>7 DEF ParseFromString, MergeFromString, Start
<1>8. ASSUME NEW other \in Messages,
             \/ MergeFrom(m, other) \/ CopyFrom(m, other) \/ Swap(m, other)
             \/ CopyConstruct(m, other) \/ MoveConstruct(m, other)
      PROVE  Idle
  <2>1. CASE MergeFrom(m, other) \/ CopyFrom(m, other)
    BY <1>1, <2>1 DEF MergeFrom, CopyFrom
  <2>2. CASE Swap(m, other)
    BY <2>2 DEF Swap
  <2>3. CASE CopyConstruct(m, other) \/ MoveConstruct(m, other)
    BY <1>2, <2>3 DEF CopyConstruct, MoveConstruct
  <2> QED
    BY <1>8, <2>1, <2>2, <2>3
<1> QED
  BY <1>3, <1>4, <1>5, <1>6, <1>7, <1>8

\* A step of a parse changes no message but the one parsed into.
LEMMA HoldsOnlyInto ==
  ASSUME IInv, NEW c, Hold(c)
  PROVE  \A m \in Messages \ {parse.into} : content'[m] = content[m]
BY DEF Hold, TypeOK

\* A step that takes a field for what it is, and a step that fails at one.
LEMMA TakesOne ==
  ASSUME IInv, Parsing, \A m \in Messages \ {parse.into} : content'[m] = content[m],
         (More /\ Step) \/ Fail
  PROVE  Further
<1>1. parse \in [state : {"idle", "parsing", "astray", "accepted", "rejected"}, into : Messages,
                 fields : Seq(Field), pos : Nat \ {0}, kept : Content]
  BY DEF TypeOK
<1>2. CASE More /\ Step
  <2>1. /\ parse'.state = parse.state /\ parse'.into = parse.into /\ parse'.pos = parse.pos + 1
        /\ parse'.fields = parse.fields /\ wire' = wire
    BY <1>1, <1>2 DEF Step
  <2>2. parse.pos <= Len(parse.fields) /\ parse.state \in {"parsing", "astray"}
    BY <1>2 DEF More, Parsing
  <2> QED
    BY <2>1, <2>2 DEF Further
<1>3. CASE Fail
  <2>1. /\ parse'.state = "rejected" /\ parse'.into = parse.into
        /\ parse'.fields = parse.fields /\ wire' = wire /\ ~Parsing'
    BY <1>1, <1>3 DEF Fail, Parsing
  <2> QED
    BY <2>1 DEF Further
<1> QED
  BY <1>2, <1>3

\* A step that takes a length for an id.
LEMMA TakesLength ==
  ASSUME IInv, ReadMoreIds
  PROVE  Further
<1> DEFINE x == One("id", Current.len)
           before == SubSeq(parse.fields, 1, parse.pos - 1)
<1>1. /\ More /\ parse.pos \in 2 .. Len(parse.fields)
      /\ parse.fields[parse.pos].kind = "packed" /\ parse.fields[parse.pos - 1].kind = "id"
  BY LengthTaken
<1>2. PICK rest \in Seq(Field) :
        /\ parse'.fields = (before \o <<x>>) \o rest
        /\ parse'.state \in {"parsing", "astray"} /\ parse'.pos = parse.pos + 1
        /\ parse'.into = parse.into
        /\ parse'.state = "parsing" => rest = SubSeq(parse.fields, parse.pos + 1, Len(parse.fields))
  BY FieldsTaken
<1>3. wire' = wire /\ parse.state = "parsing" /\ \A m \in Messages \ {parse.into} : content'[m] = content[m]
  BY HoldsOnlyInto DEF ReadMoreIds
<1>4. parse.fields \in Seq(Field) /\ parse.pos \in Nat /\ Len(parse.fields) \in Nat
  BY DEF TypeOK
<1>5. x \in Field /\ parse.pos \in 1 .. Len(parse.fields)
  BY <1>1, <1>4, LengthTaken, OneIsField
<1> HIDE DEF x
<1>6. \A k \in 1 .. parse.pos - 1 : parse'.fields[k] = parse.fields[k]
  BY <1>2, <1>4, <1>5, Replaced
<1>7. parse'.state = "parsing" => Len(parse'.fields) = Len(parse.fields)
  BY <1>2, <1>4, <1>5, ReplacedOne
<1>8. parse.pos <= Len(parse.fields) /\ parse'.state # "accepted"
  BY <1>1, <1>2
<1> HIDE DEF before
<1> QED
  BY <1>1, <1>2, <1>3, <1>6, <1>7, <1>8 DEF Further

(***************************************************************************)
(* A parse goes forward over the fields as the parser takes them, and no   *)
(* call of the program comes in between: for strings of any length, from   *)
(* wherever, it ends after as many steps as there are fields and one, or,  *)
(* if a length was taken for an id, after as many as are then left.        *)
(***************************************************************************)
THEOREM ParseAlwaysAdvances == Spec => ParseAdvances
<1>1. ASSUME IInv, Next PROVE Further
  <2> SUFFICES ASSUME Parsing PROVE Further
    BY DEF Further
  <2> USE <1>1
  <2>1. CASE ReadIds
    BY <2>1, TakesOne, HoldsOnlyInto DEF ReadIds
  <2>2. CASE ReadMoreIds
    BY <2>2, TakesLength
  <2>3. CASE ReadString
    BY <2>3, TakesOne, HoldsOnlyInto DEF ReadString
  <2>4. CASE SkipField
    BY <2>4, TakesOne, HoldsOnlyInto DEF SkipField
  <2>5. CASE Cut
    BY <2>5, TakesOne, HoldsOnlyInto DEF Cut
  <2>6. CASE BadTag
    BY <2>6, TakesOne, HoldsOnlyInto DEF BadTag
  <2>7. CASE Success
    <3>1. parse \in [state : {"idle", "parsing", "astray", "accepted", "rejected"}, into : Messages,
                     fields : Seq(Field), pos : Nat \ {0}, kept : Content]
      BY DEF TypeOK
    <3>2. /\ parse'.state = "accepted" /\ parse'.into = parse.into /\ parse'.pos = parse.pos
          /\ parse'.fields = parse.fields /\ wire' = wire /\ content' = content /\ ~Parsing'
      BY <2>7, <3>1 DEF Success, Parsing
    <3>3. parse.pos > Len(parse.fields) /\ parse.pos <= Len(parse.fields) + 1
      BY <2>7 DEF Success, Merging
    <3>4. parse.pos \in Nat /\ Len(parse.fields) \in Nat
      BY <3>1
    <3> QED
      BY <3>2, <3>3, <3>4 DEF Further
  <2>8. CASE Call
    BY <2>8, CallsAreBetween DEF Idle
  <2> QED
    BY <2>1, <2>2, <2>3, <2>4, <2>5, <2>6, <2>7, <2>8 DEF Next, ParseStep
<1> QED
  BY <1>1, Inductive, PTL DEF Spec, ParseAdvances
=============================================================================
