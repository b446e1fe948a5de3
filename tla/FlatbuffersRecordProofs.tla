----------------------- MODULE FlatbuffersRecordProofs -----------------------
(***************************************************************************)
(* For any strings and vectors and any number of records: no check of a    *)
(* buffer, and no accessor after the checks, looks at a cell outside it,   *)
(* however it is damaged; and a buffer that is as it was built is accepted *)
(* and read as what it was built from.                                     *)
(***************************************************************************)
EXTENDS FlatbuffersRecord, SequenceTheorems, TLAPS

USE CellsAssumption, WrapAssumption

Types == Fields \cup {"string", "record"}

(***************************************************************************)
(* What the cells of a buffer are.  For what is looked at, the builder and *)
(* the Offsets matter only because a buffer has to consist of numbers.     *)
(***************************************************************************)
IsBuilder(b) ==
  /\ DOMAIN b = {"buf", "vtables", "nested", "start", "fields", "value"}
  /\ b.buf \in Seq(Int) /\ b.vtables \subseteq Int /\ b.start \in Int
  /\ b.fields \in [Fields -> Int]
OffsetsMade == made = [t \in Types |-> made[t]] /\ \A t \in Types : \A o \in made[t] : o.at \in Int
IsBuffer == data \in Seq(Int) /\ start \in {0, 1}

\* A cell read as an unsigned number is one.
LEMMA CellFacts ==
  ASSUME IsBuffer
  PROVE  \A p : At(p) \in Int /\ U(p) \in Nat
<1>1. \A x \in Int : x % Wrap \in Nat
  BY SMT
<1>2. \A p : At(p) \in Int
  <2> TAKE p
  <2>1. CASE p \in 0 .. Len(data) - 1
    <3>1. p + 1 \in 1 .. Len(data)
      BY <2>1 DEF IsBuffer
    <3> QED
      BY <2>1, <3>1 DEF At, IsBuffer
  <2>2. CASE p \notin 0 .. Len(data) - 1
    BY <2>2 DEF At
  <2> QED
    BY <2>1, <2>2
<1> QED
  BY <1>1, <1>2 DEF U

-----------------------------------------------------------------------------
(* The builder. *)

\* A cell of a buffer replaced by a number.
LEMMA ReplaceType ==
  ASSUME NEW s \in Seq(Int), NEW k, NEW x \in Int
  PROVE  [s EXCEPT ![k] = x] \in Seq(Int)
<1>1. CASE k \in 1 .. Len(s)
  BY <1>1, ExceptSeq
<1>2. CASE k \notin 1 .. Len(s)
  <2>1. [s EXCEPT ![k] = x] = s
    BY <1>2
  <2> QED
    BY <2>1
<1> QED
  BY <1>1, <1>2

LEMMA PushType ==
  ASSUME NEW b, IsBuilder(b), NEW cells \in Seq(Int)
  PROVE  IsBuilder(Push(b, cells)) /\ Size(b) \in Nat
<1>1. cells \o b.buf \in Seq(Int)
  BY DEF IsBuilder
<1>2. IsBuilder(Push(b, cells))
  BY <1>1 DEF IsBuilder, Push
<1> QED
  BY <1>2 DEF IsBuilder, Size

LEMMA StartType ==
  ASSUME NEW b, IsBuilder(b)
  PROVE  IsBuilder(StartTable(b))
<1>1. Len(b.buf) \in Int
  BY DEF IsBuilder
<1>2. [f \in Fields |-> 0] \in [Fields -> Int]
  OBVIOUS
<1> QED
  BY <1>1, <1>2 DEF IsBuilder, StartTable, Size

LEMMA AddType ==
  ASSUME NEW b, IsBuilder(b), NEW f \in Fields, NEW o, o.at \in Int
  PROVE  IsBuilder(AddOffset(b, f, o))
<1>1. CASE o = Null
  BY <1>1 DEF AddOffset
<1>2. CASE o # Null
  <2> DEFINE c == Push(b, <<ReferTo(b, o.at)>>)
  <2>0. Size(b) \in Nat /\ <<ReferTo(b, o.at)>> \in Seq(Int)
    BY DEF ReferTo, IsBuilder, Size
  <2>1. IsBuilder(c)
    BY <2>0, PushType
  <2>2. AddOffset(b, f, o) = [c EXCEPT !.fields[f] = Size(b) + 1, !.value[f] = <<o.value>>]
    BY <1>2 DEF AddOffset
  <2> HIDE DEF c
  <2>3. [c.fields EXCEPT ![f] = Size(b) + 1] \in [Fields -> Int]
    BY <2>0, <2>1 DEF IsBuilder
  <2> QED
    BY <2>1, <2>2, <2>3 DEF IsBuilder
<1> QED
  BY <1>1, <1>2

LEMMA VtableType ==
  ASSUME NEW b, IsBuilder(b), NEW t \in Int
  PROVE  VtableOf(b, t) \in Seq(Int)
<1> DEFINE entry(f) == IF b.fields[f] = 0 THEN 0 ELSE t - b.fields[f]
           whole == <<4, t - b.start, entry("ids"), entry("strings")>>
           size == IF b.fields["strings"] # 0 THEN 4 ELSE IF b.fields["ids"] # 0 THEN 3 ELSE 2
<1>1. entry("ids") \in Int /\ entry("strings") \in Int /\ b.start \in Int
  BY DEF IsBuilder, Fields
<1>2. whole \in Seq(Int) /\ Len(whole) = 4
  BY <1>1
<1>3. size \in 1 .. 4
  OBVIOUS
<1> HIDE DEF entry, whole, size
<1>4. SubSeq(whole, 1, size) \in Seq(Int)
  <2>1. \A i \in 1 .. size : whole[i] \in Int
    <3> TAKE i \in 1 .. size
    <3>1. i \in 1 .. Len(whole)
      BY <1>2, <1>3
    <3> QED
      BY <1>2, <3>1, ElementOfSeq
  <2> QED
    BY <1>3, <2>1, SubSeqProperties
<1>5. [SubSeq(whole, 1, size) EXCEPT ![1] = size] \in Seq(Int)
  BY <1>3, <1>4, ReplaceType
<1> QED
  BY <1>5 DEF VtableOf, whole, size, entry

LEMMA EndType ==
  ASSUME NEW b, IsBuilder(b)
  PROVE  IsBuilder(EndTable(b)) /\ LastTable(b) \in Int
<1> DEFINE t == Size(b) + 1
           c == Push(b, <<0>>)
           same == {v \in b.vtables : VtableAt(b, v) = VtableOf(b, t)}
           d == IF same # {} THEN c ELSE Push(c, VtableOf(b, t))
           v == IF same # {} THEN CHOOSE v \in same : TRUE ELSE Size(d)
<1>1. t \in Int /\ IsBuilder(c)
  <2>1. t \in Int /\ <<0>> \in Seq(Int)
    BY DEF IsBuilder, Size
  <2> QED
    BY <2>1, PushType
<1>2. VtableOf(b, t) \in Seq(Int)
  BY <1>1, VtableType
<1>3. IsBuilder(d) /\ Size(d) \in Int
  BY <1>1, <1>2, PushType
<1>4. v \in Int
  <2>1. CASE same # {}
    <3>1. v \in same
      BY <2>1
    <3> QED
      BY <3>1 DEF IsBuilder
  <2>2. CASE same = {}
    BY <2>2, <1>3
  <2> QED
    BY <2>1, <2>2
<1>5. EndTable(b) = [d EXCEPT !.buf[Size(d) - t + 1] = v - t, !.vtables = @ \cup {v}, !.nested = FALSE]
  BY DEF EndTable
<1> HIDE DEF t, d, v
<1>6. [d.buf EXCEPT ![Size(d) - t + 1] = v - t] \in Seq(Int)
  <2>1. v - t \in Int /\ d.buf \in Seq(Int)
    BY <1>1, <1>3, <1>4 DEF IsBuilder
  <2> QED
    BY <2>1, ReplaceType
<1>7. IsBuilder(EndTable(b))
  BY <1>3, <1>4, <1>5, <1>6 DEF IsBuilder
<1> QED
  BY <1>1, <1>7 DEF LastTable, t

\* A string, a vector and the offsets of a vector, as cells.
LEMMA CellsType ==
  ASSUME NEW q \in Seq(Int)
  PROVE  StringCells(q) \in Seq(Int) /\ VectorCells(q) \in Seq(Int)
<1>1. <<Len(q)>> \in Seq(Int) /\ <<0>> \in Seq(Int)
  OBVIOUS
<1> QED
  BY <1>1 DEF StringCells, VectorCells

\* The texts of a vector have numbers as offsets, so the builder stays one.
LEMMA VectorsType ==
  ASSUME NEW b, IsBuilder(b), OffsetsMade
  PROVE  /\ \A q \in Ids : IsBuilder(VectorOfIds(b, q))
         /\ \A os \in Texts : IsBuilder(VectorOfStrings(b, os))
<1>1. \A q \in Ids : IsBuilder(VectorOfIds(b, q))
  <2> TAKE q \in Ids
  <2>1. VectorCells(q) \in Seq(Int)
    BY CellsType
  <2> QED
    BY <2>1, PushType DEF VectorOfIds
<1>2. ASSUME NEW os \in Texts
      PROVE  IsBuilder(VectorOfStrings(b, os))
  <2>1. PICK n \in 0 .. MaxStrings : os \in [1 .. n -> made["string"]]
    BY <1>2 DEF Texts
  <2> DEFINE at == [k \in DOMAIN os |-> os[k].at]
             cells == [k \in DOMAIN at |-> Size(b) + Len(at) - k + 1 - at[k]]
  <2>2. \A k \in 1 .. n : os[k].at \in Int
    <3> TAKE k \in 1 .. n
    <3>1. os[k] \in made["string"]
      BY <2>1
    <3> QED
      BY <3>1 DEF OffsetsMade, Types
  <2>3. n \in Nat /\ DOMAIN os = 1 .. n
    BY <2>1
  <2>4. DOMAIN at = 1 .. n /\ Len(at) = n /\ \A k \in 1 .. n : at[k] \in Int
    BY <2>2, <2>3
  <2>5. Size(b) \in Int
    BY DEF IsBuilder, Size
  <2> HIDE DEF at
  <2>6. cells = [k \in 1 .. n |-> Size(b) + n - k + 1 - at[k]]
    BY <2>4
  <2>7. cells \in Seq(Int)
    BY <2>3, <2>4, <2>5, <2>6
  <2>8. <<Len(at)>> \o cells \in Seq(Int)
    BY <2>3, <2>4, <2>7
  <2>9. VectorOfStrings(b, os) = Push(b, <<Len(at)>> \o cells)
    BY DEF VectorOfStrings, OffsetCells, at
  <2> QED
    BY <2>8, <2>9, PushType
<1> QED
  BY <1>1, <1>2

-----------------------------------------------------------------------------
(* The verifier. *)

Rooted == In(start, 1) /\ In(Table, 1)
Tabled == In(Vtable, 1) /\ In(Vtable, U(Vtable))
FieldSound(f) == Entry(f) # 0 => Leads(Field(f))
VectorSound(f) == Entry(f) # 0 => Sound(Pointer(f))
TextsSound == \A k \in Elements("strings") : SoundText(Text(k))

(***************************************************************************)
(* What has been established when a check is about to be made: what the    *)
(* checks before it were for.                                              *)
(***************************************************************************)
Established ==
  /\ pc \in {"table", "ids offset", "ids", "strings offset", "strings", "texts", "accepted"} => Rooted
  /\ pc \in {"ids offset", "ids", "strings offset", "strings", "texts", "accepted"} => Tabled
  /\ pc \in {"ids", "strings offset", "strings", "texts", "accepted"} => FieldSound("ids")
  /\ pc \in {"strings offset", "strings", "texts", "accepted"} => VectorSound("ids")
  /\ pc \in {"strings", "texts", "accepted"} => FieldSound("strings")
  /\ pc \in {"texts", "accepted"} => VectorSound("strings")
  /\ pc = "accepted" => TextsSound

IInv ==
  /\ IsBuilder(fbb) /\ OffsetsMade /\ IsBuffer
  /\ pc \in {"build", "data"} => touched = {}
  /\ Established
  /\ InBounds

\* A range of cells inside the buffer, cell by cell.
LEMMA Ranges ==
  ASSUME IsBuffer
  PROVE  \A p : \A n \in Nat : In(p, n) =>
           p \in Nat /\ \A q \in Int : p <= q /\ q < p + n => q \in 0 .. Len(data) - 1
BY DEF In, IsBuffer

LEMMA GuardedInside == \A p : \A q \in Guarded(p) : In(q, 1)
BY DEF Guarded

LEMMA SingleInside ==
  ASSUME IsBuffer
  PROVE  \A p : In(p, 1) => p \in 0 .. Len(data) - 1
BY DEF In, IsBuffer

\* The cells of the vtable and the table, for a field whose offset is sound.
LEMMA EntryInside ==
  ASSUME IsBuffer, Rooted, Tabled, NEW f \in Fields
  PROVE  \A p \in EntryCells(f) : p \in 0 .. Len(data) - 1
<1>1. start \in 0 .. Len(data) - 1 /\ Table \in 0 .. Len(data) - 1 /\ Vtable \in 0 .. Len(data) - 1
  BY SingleInside DEF Rooted, Tabled
<1>2. VT[f] \in Nat /\ U(Vtable) \in Nat
  BY CellFacts DEF VT, Fields
<1>3. ASSUME VT[f] < U(Vtable) PROVE Vtable + VT[f] \in 0 .. Len(data) - 1
  <2>1. In(Vtable, U(Vtable))
    BY DEF Tabled
  <2>2. \A q \in Int : Vtable <= q /\ q < Vtable + U(Vtable) => q \in 0 .. Len(data) - 1
    BY <1>2, <2>1, Ranges
  <2>3. /\ Vtable + VT[f] \in Int /\ Vtable <= Vtable + VT[f]
        /\ Vtable + VT[f] < Vtable + U(Vtable)
    <3>1. Vtable \in Int
      BY <1>1
    <3> HIDE DEF Vtable, U, VT
    <3> QED
      BY <1>2, <1>3, <3>1
  <2> QED
    BY <2>2, <2>3
<1> QED
  BY <1>1, <1>3 DEF EntryCells

LEMMA PointerInside ==
  ASSUME IsBuffer, Rooted, Tabled, NEW f \in Fields, FieldSound(f)
  PROVE  \A p \in PointerCells(f) : p \in 0 .. Len(data) - 1
<1>1. Entry(f) # 0 => Field(f) \in 0 .. Len(data) - 1
  BY SingleInside DEF FieldSound, Leads
<1> QED
  BY <1>1, EntryInside DEF PointerCells

LEMMA VectorInside ==
  ASSUME IsBuffer, Rooted, Tabled, NEW f \in Fields, FieldSound(f), VectorSound(f)
  PROVE  \A p \in VectorCellsOf(f) : p \in 0 .. Len(data) - 1
<1>1. CASE Entry(f) = 0
  BY <1>1, PointerInside DEF VectorCellsOf, Elements
<1>2. CASE Entry(f) # 0
  <2> DEFINE p == Pointer(f)
  <2>1. In(p, 1) /\ In(p, 1 + U(p)) /\ U(p) \in Nat
    BY <1>2, CellFacts DEF VectorSound, Sound
  <2>2. p \in 0 .. Len(data) - 1
    BY <2>1, SingleInside
  <2>3. \A k \in 1 .. U(p) : p + k \in 0 .. Len(data) - 1
    <3> TAKE k \in 1 .. U(p)
    <3>1. k \in Int /\ 1 <= k /\ k <= U(p)
      BY <2>1
    <3>2. p <= p + k /\ p + k < p + (1 + U(p)) /\ p + k \in Int /\ 1 + U(p) \in Nat
      BY <2>1, <2>2, <3>1
    <3> QED
      BY <2>1, <3>2, Ranges
  <2> HIDE DEF p
  <2>4. Elements(f) = 1 .. U(p)
    BY <1>2 DEF Elements, p
  <2> QED
    BY <2>2, <2>3, <2>4, PointerInside DEF VectorCellsOf, p
<1> QED
  BY <1>1, <1>2

LEMMA TextInside ==
  ASSUME IsBuffer, NEW v
  PROVE  /\ \A p \in TextCells(v) : p \in 0 .. Len(data) - 1
         /\ SoundText(v) => \A p \in v .. Terminator(v) : p \in 0 .. Len(data) - 1
<1>1. \A p \in TextCells(v) : p \in 0 .. Len(data) - 1
  BY GuardedInside, SingleInside DEF TextCells
<1>2. ASSUME SoundText(v), NEW p \in v .. Terminator(v)
      PROVE  p \in 0 .. Len(data) - 1
  <2>1. v \in 0 .. Len(data) - 1 /\ Terminator(v) \in 0 .. Len(data) - 1
    BY <1>2, SingleInside DEF SoundText, Sound
  <2> QED
    BY <2>1 DEF IsBuffer
<1> QED
  BY <1>1, <1>2

\* Checks and accessors change neither the buffer nor what is known of it.
LEMMA Stable ==
  ASSUME data' = data, start' = start
  PROVE  /\ Rooted' = Rooted /\ Tabled' = Tabled /\ TextsSound' = TextsSound
         /\ FieldSound("ids")' = FieldSound("ids") /\ FieldSound("strings")' = FieldSound("strings")
         /\ VectorSound("ids")' = VectorSound("ids") /\ VectorSound("strings")' = VectorSound("strings")
<1>1. (\A p, n : In(p, n)' = In(p, n)) /\ (\A p : At(p)' = At(p) /\ U(p)' = U(p))
  BY DEF In, At, U
<1>2. Table' = Table /\ Vtable' = Vtable
  BY <1>1 DEF Table, Vtable
<1>3. \A f : Entry(f)' = Entry(f)
  BY <1>1, <1>2 DEF Entry
<1>4. \A f : Field(f)' = Field(f) /\ Pointer(f)' = Pointer(f)
  BY <1>1, <1>2, <1>3 DEF Field, Pointer
<1>5. \A k : Text(k)' = Text(k)
  BY <1>1, <1>4 DEF Text
<1>6. \A f : Elements(f)' = Elements(f)
  BY <1>1, <1>3, <1>4 DEF Elements
<1>7. \A v : SoundText(v)' = SoundText(v)
  BY <1>1 DEF SoundText, Sound, Terminator
<1> QED
  BY <1>1, <1>2, <1>3, <1>4, <1>5, <1>6, <1>7
     DEF Rooted, Tabled, FieldSound, VectorSound, TextsSound, Leads, Sound

\* A step of Verify that establishes what it is for and looks inside only.
LEMMA VerifyStep ==
  ASSUME IInv, Verify
  PROVE  Established' /\ InBounds'
<1> USE DEF IInv
<1>1. "ids" \in Fields /\ "strings" \in Fields
  BY DEF Fields
<1>2. CASE VerifyTableStart
  <2>1. Rooted /\ start \in 0 .. Len(data) - 1
    BY <1>2, SingleInside DEF VerifyTableStart, Check, Established, Rooted
  <2>2. \A p \in touched' : p \in 0 .. Len(data) - 1
    BY <1>2, <2>1, GuardedInside, SingleInside DEF VerifyTableStart, Check
  <2>3. pc' = "ids offset" => Tabled
    BY <1>2 DEF VerifyTableStart, Check, Tabled
  <2> QED
    BY <1>2, <2>1, <2>2, <2>3, Stable DEF VerifyTableStart, Check, Established, InBounds, Inside
<1>3. CASE VerifyOffset("ids", "ids offset")
  <2>1. Rooted /\ Tabled
    BY <1>3 DEF VerifyOffset, Check, Established
  <2>2. \A p \in touched' : p \in 0 .. Len(data) - 1
    BY <1>1, <1>3, <2>1, EntryInside, GuardedInside, SingleInside DEF VerifyOffset, Check
  <2>3. pc' = "ids" => FieldSound("ids")
    BY <1>3 DEF VerifyOffset, Check, FieldSound
  <2> QED
    BY <1>3, <2>1, <2>2, <2>3, Stable DEF VerifyOffset, Check, Established, InBounds, Inside
<1>4. CASE VerifyVector("ids", "strings offset")
  <2>1. Rooted /\ Tabled /\ FieldSound("ids")
    BY <1>4 DEF VerifyVector, Check, Established
  <2>2. \A p \in touched' : p \in 0 .. Len(data) - 1
    BY <1>1, <1>4, <2>1, PointerInside, GuardedInside, SingleInside DEF VerifyVector, Check
  <2>3. pc' = "strings offset" => VectorSound("ids")
    BY <1>4 DEF VerifyVector, Check, VectorSound
  <2> QED
    BY <1>4, <2>1, <2>2, <2>3, Stable DEF VerifyVector, Check, Established, InBounds, Inside
<1>5. CASE VerifyOffset("strings", "strings offset")
  <2>1. Rooted /\ Tabled /\ FieldSound("ids") /\ VectorSound("ids")
    BY <1>5 DEF VerifyOffset, Check, Established
  <2>2. \A p \in touched' : p \in 0 .. Len(data) - 1
    BY <1>1, <1>5, <2>1, EntryInside, GuardedInside, SingleInside DEF VerifyOffset, Check
  <2>3. pc' = "strings" => FieldSound("strings")
    BY <1>5 DEF VerifyOffset, Check, FieldSound
  <2> QED
    BY <1>5, <2>1, <2>2, <2>3, Stable DEF VerifyOffset, Check, Established, InBounds, Inside
<1>6. CASE VerifyVector("strings", "texts")
  <2>1. /\ Rooted /\ Tabled /\ FieldSound("ids") /\ VectorSound("ids")
        /\ FieldSound("strings")
    BY <1>6 DEF VerifyVector, Check, Established
  <2>2. \A p \in touched' : p \in 0 .. Len(data) - 1
    BY <1>1, <1>6, <2>1, PointerInside, GuardedInside, SingleInside DEF VerifyVector, Check
  <2>3. pc' = "texts" => VectorSound("strings")
    BY <1>6 DEF VerifyVector, Check, VectorSound
  <2> QED
    BY <1>6, <2>1, <2>2, <2>3, Stable DEF VerifyVector, Check, Established, InBounds, Inside
<1>7. CASE VerifyVectorOfStrings
  <2>1. /\ Rooted /\ Tabled /\ FieldSound("ids") /\ VectorSound("ids")
        /\ FieldSound("strings") /\ VectorSound("strings")
    BY <1>7 DEF VerifyVectorOfStrings, Check, Established
  <2>2. \A p \in touched' : p \in 0 .. Len(data) - 1
    <3>1. \A p \in VectorCellsOf("strings") : p \in 0 .. Len(data) - 1
      BY <1>1, <2>1, VectorInside
    <3>2. ASSUME NEW p \in touched'
          PROVE  p \in VectorCellsOf("strings") \/ \E v : p \in TextCells(v)
      BY <1>7, <3>2 DEF VerifyVectorOfStrings, Check
    <3> QED
      BY <3>1, <3>2, TextInside
  <2>3. pc' = "accepted" => TextsSound
    BY <1>7 DEF VerifyVectorOfStrings, Check, TextsSound
  <2> QED
    BY <1>7, <2>1, <2>2, <2>3, Stable DEF VerifyVectorOfStrings, Check, Established, InBounds, Inside
<1> QED
  BY <1>2, <1>3, <1>4, <1>5, <1>6, <1>7 DEF Verify

\* The accessors after the buffer has been accepted.
LEMMA GetRecordStep ==
  ASSUME IInv, GetRecord
  PROVE  Established' /\ InBounds'
<1>1. CASE pc = "accepted"
  <2>1. /\ Rooted /\ Tabled /\ FieldSound("ids") /\ VectorSound("ids")
        /\ FieldSound("strings") /\ VectorSound("strings") /\ TextsSound
    BY <1>1 DEF IInv, Established
  <2>2. IsBuffer /\ "ids" \in Fields /\ "strings" \in Fields
    BY DEF IInv, Fields
  <2>3. \A p \in VectorCellsOf("ids") \cup VectorCellsOf("strings") : p \in 0 .. Len(data) - 1
    BY <2>1, <2>2, VectorInside
  <2>4. \A k \in Elements("strings") : \A p \in Text(k) .. Terminator(Text(k)) : p \in 0 .. Len(data) - 1
    BY <2>1, <2>2, TextInside DEF TextsSound
  <2>5. \A p \in touched' : p \in 0 .. Len(data) - 1
    BY <2>3, <2>4 DEF GetRecord
  <2> QED
    BY <1>1, <2>5 DEF GetRecord, Established, InBounds, Inside
<1>2. CASE pc # "accepted"
  BY <1>2 DEF GetRecord, Established, InBounds
<1> QED
  BY <1>1, <1>2

\* The first check, of the buffer before its root.
LEMMA VerifyBufferStep ==
  ASSUME IInv, VerifyBuffer
  PROVE  Established' /\ InBounds'
<1>1. IsBuffer
  BY DEF IInv
<1>2. \A p \in touched' : p \in 0 .. Len(data) - 1
  BY <1>1, GuardedInside, SingleInside DEF VerifyBuffer, Check
<1>3. pc' = "table" => Rooted
  BY DEF VerifyBuffer, Check, Rooted, Leads, Table
<1> QED
  BY <1>2, <1>3, Stable DEF VerifyBuffer, Check, Established, InBounds, Inside

-----------------------------------------------------------------------------
(* The steps of the program. *)

\* To keep an Offset, and to leave the rest of a state as it is.
LEMMA KeepType ==
  ASSUME OffsetsMade, NEW t \in Types, NEW at \in Int, NEW value, Keep(t, at, value)
  PROVE  OffsetsMade'
<1>1. made' = [made EXCEPT ![t] = @ \cup {Offset(at, value)}]
  BY DEF Keep
<1>2. DOMAIN made = Types
  BY DEF OffsetsMade
<1>3. made' = [u \in Types |-> IF u = t THEN made[t] \cup {Offset(at, value)} ELSE made[u]]
  BY <1>1, <1>2
<1>4. Offset(at, value).at = at
  BY DEF Offset
<1>5. \A u \in Types : \A o \in made'[u] : o.at \in Int
  BY <1>3, <1>4 DEF OffsetsMade
<1> QED
  BY <1>3, <1>5 DEF OffsetsMade

LEMMA UnchangedKeeps ==
  ASSUME IInv, Unchanged
  PROVE  /\ IsBuffer' /\ (pc \in {"build", "data"} => touched = {})'
         /\ Established' /\ InBounds'
BY Stable DEF IInv, Unchanged, IsBuffer, Established, InBounds, Inside

LEMMA CreateKeeps ==
  ASSUME IInv, NEW b, IsBuilder(b), NEW t \in Types, NEW value, Create(b, t, value)
  PROVE  IInv'
<1>1. Size(b) \in Int
  BY DEF IsBuilder, Size
<1>2. OffsetsMade'
  BY <1>1, KeepType DEF Create, IInv
<1>3. IsBuilder(fbb')
  BY DEF Create
<1> QED
  BY <1>2, <1>3, UnchangedKeeps DEF Create, IInv

LEMMA CreateRecordKeeps ==
  ASSUME IInv, NEW b, IsBuilder(b), NEW i, i.at \in Int, NEW s, s.at \in Int, CreateRecord(b, i, s)
  PROVE  IInv'
<1> DEFINE r == Record(b, i, s)
<1>1. IsBuilder(r)
  <2>1. IsBuilder(AddOffset(StartTable(b), "strings", s))
    BY StartType, AddType DEF Fields
  <2> QED
    BY <2>1, AddType DEF Record, Fields
<1>2. IsBuilder(EndTable(r)) /\ LastTable(r) \in Int
  BY <1>1, EndType
<1>3. fbb' = EndTable(r) /\ Keep("record", LastTable(r), r.value) /\ Unchanged
  BY DEF CreateRecord
<1> HIDE DEF r
<1>4. OffsetsMade'
  BY <1>2, <1>3, KeepType DEF IInv, Types
<1> QED
  BY <1>2, <1>3, <1>4, UnchangedKeeps DEF IInv

\* The inductive invariant holds initially.
LEMMA InitIInv == Init => IInv
<1> SUFFICES ASSUME Init PROVE IInv
  OBVIOUS
<1>1. IsBuilder(fbb)
  BY DEF Init, IsBuilder
<1>2. OffsetsMade /\ IsBuffer
  BY DEF Init, OffsetsMade, IsBuffer, Types
<1> QED
  BY <1>1, <1>2 DEF Init, IInv, Established, InBounds, Inside

\* Every step preserves it.
LEMMA NextIInv == IInv /\ [Next]_vars => IInv'
<1> SUFFICES ASSUME IInv, [Next]_vars PROVE IInv'
  OBVIOUS
<1>0. IsBuilder(fbb) /\ OffsetsMade
  BY DEF IInv
<1>1. ASSUME NEW s \in Strings, CreateString(s)
      PROVE  IInv'
  <2>1. IsBuilder(Push(fbb, StringCells(s)))
    BY <1>0, CellsType, PushType
  <2> QED
    BY <1>1, <2>1, CreateKeeps DEF CreateString, Types
<1>2. CASE CreateVector
  <2>1. ASSUME NEW q \in Ids, Create(VectorOfIds(fbb, q), "ids", q)
        PROVE  IInv'
    BY <1>0, <2>1, VectorsType, CreateKeeps DEF Types, Fields
  <2>2. ASSUME NEW os \in Texts, Create(VectorOfStrings(fbb, os), "strings", Values(os))
        PROVE  IInv'
    BY <1>0, <2>2, VectorsType, CreateKeeps DEF Types, Fields
  <2> QED
    BY <1>2, <2>1, <2>2 DEF CreateVector
<1>3. CASE RecordBuilder
  <2>1. IsBuilder(fbb') /\ OffsetsMade'
    BY <1>0, <1>3, StartType DEF RecordBuilder, OffsetsMade
  <2> QED
    BY <1>3, <2>1, UnchangedKeeps DEF RecordBuilder, IInv
<1>4. ASSUME NEW f \in Fields, add(f)
      PROVE  IInv'
  <2>1. PICK o \in made[f] : fbb' = AddOffset(fbb, f, o)
    BY <1>4 DEF add
  <2>2. o.at \in Int
    BY <1>0 DEF OffsetsMade, Types
  <2>3. IsBuilder(fbb') /\ OffsetsMade'
    BY <1>0, <1>4, <2>1, <2>2, AddType DEF add, OffsetsMade
  <2> QED
    BY <1>4, <2>3, UnchangedKeeps DEF add, IInv
<1>5. CASE Finish
  <2>1. IsBuilder(EndTable(fbb)) /\ LastTable(fbb) \in Int
    BY <1>0, EndType
  <2>2. OffsetsMade'
    BY <1>0, <1>5, <2>1, KeepType DEF Finish, Types
  <2> QED
    BY <1>5, <2>1, <2>2, UnchangedKeeps DEF Finish, IInv
<1>6. CASE CreateRecordOf
  <2>1. PICK i \in made["ids"] \cup {Null}, s \in made["strings"] \cup {Null} : CreateRecord(fbb, i, s)
    BY <1>6 DEF CreateRecordOf
  <2>2. i.at \in Int /\ s.at \in Int
    BY <1>0, <2>1 DEF OffsetsMade, Types, Fields, Null, Offset
  <2> QED
    BY <1>0, <2>1, <2>2, CreateRecordKeeps
<1>7. CASE CreateRecordDirect
  <2>1. PICK q \in Ids, os \in Texts :
          LET i == VectorOfIds(fbb, q)
              s == VectorOfStrings(fbb, os)
              is == VectorOfStrings(i, os)
              si == VectorOfIds(s, q)
          IN  \/ CreateRecord(is, Offset(Size(i), q), Offset(Size(is), Values(os)))
              \/ CreateRecord(si, Offset(Size(si), q), Offset(Size(s), Values(os)))
              \/ CreateRecord(i, Offset(Size(i), q), Null)
              \/ CreateRecord(s, Null, Offset(Size(s), Values(os)))
    BY <1>7 DEF CreateRecordDirect
  <2> DEFINE i == VectorOfIds(fbb, q)
             s == VectorOfStrings(fbb, os)
             is == VectorOfStrings(i, os)
             si == VectorOfIds(s, q)
  <2>2. IsBuilder(i) /\ IsBuilder(s)
    BY <1>0, VectorsType
  <2>3. IsBuilder(is) /\ IsBuilder(si)
    BY <1>0, <2>2, VectorsType
  <2>4. \A b, v : IsBuilder(b) => Offset(Size(b), v).at \in Int
    BY DEF IsBuilder, Size, Offset
  <2>5. Null.at \in Int
    BY DEF Null, Offset
  <2> HIDE DEF i, s, is, si
  <2>6. CASE CreateRecord(is, Offset(Size(i), q), Offset(Size(is), Values(os)))
    BY <2>2, <2>3, <2>4, <2>6, CreateRecordKeeps
  <2>7. CASE CreateRecord(si, Offset(Size(si), q), Offset(Size(s), Values(os)))
    BY <2>2, <2>3, <2>4, <2>7, CreateRecordKeeps
  <2>8. CASE CreateRecord(i, Offset(Size(i), q), Null)
    BY <2>2, <2>4, <2>5, <2>8, CreateRecordKeeps
  <2>9. CASE CreateRecord(s, Null, Offset(Size(s), Values(os)))
    BY <2>2, <2>4, <2>5, <2>9, CreateRecordKeeps
  <2> QED
    BY <2>1, <2>6, <2>7, <2>8, <2>9 DEF i, s, is, si
<1>8. ASSUME NEW prefixed \in BOOLEAN, FinishRecordBuffer(prefixed)
      PROVE  IInv'
  <2>1. PICK r \in made["record"] :
          LET b == Push(fbb, <<ReferTo(fbb, r.at)>>)
              whole == IF prefixed THEN Push(b, <<Size(b)>>) ELSE b
          IN  data' = whole.buf /\ fbb' = whole
    BY <1>8 DEF FinishRecordBuffer
  <2> DEFINE b == Push(fbb, <<ReferTo(fbb, r.at)>>)
             whole == IF prefixed THEN Push(b, <<Size(b)>>) ELSE b
  <2>2. <<ReferTo(fbb, r.at)>> \in Seq(Int)
    <3>1. r.at \in Int /\ Size(fbb) \in Int
      <4>1. "record" \in Types
        BY DEF Types
      <4> QED
        BY <1>0, <4>1 DEF OffsetsMade, IsBuilder, Size
    <3> QED
      BY <3>1 DEF ReferTo
  <2>3. IsBuilder(b)
    BY <1>0, <2>2, PushType
  <2>4. <<Size(b)>> \in Seq(Int)
    BY <2>3 DEF IsBuilder, Size
  <2>5. IsBuilder(whole)
    BY <2>3, <2>4, PushType
  <2> HIDE DEF whole
  <2>6. data' = whole.buf /\ fbb' = whole
    BY <2>1 DEF whole
  <2>7. IsBuilder(fbb') /\ IsBuffer'
    BY <1>8, <2>5, <2>6 DEF IsBuffer, IsBuilder, FinishRecordBuffer
  <2>8. OffsetsMade' /\ pc = "build" /\ pc' = "data" /\ touched' = touched
    BY <1>0, <1>8 DEF FinishRecordBuffer, OffsetsMade
  <2> QED
    BY <2>7, <2>8 DEF IInv, Established, InBounds, Inside
<1>9. CASE Damage
  <2>1. data' \in Seq(Int)
    <3>1. data \in Seq(Int)
      BY DEF IInv, IsBuffer
    <3>2. ASSUME NEW k \in DOMAIN data, NEW x \in Damages, data' = [data EXCEPT ![k] = x]
          PROVE  data' \in Seq(Int)
      BY <3>1, <3>2, ReplaceType
    <3>3. ASSUME NEW n \in 0 .. Len(data) - 1, data' = SubSeq(data, 1, n)
          PROVE  data' \in Seq(Int)
      BY <3>1, <3>3
    <3> QED
      BY <1>9, <3>2, <3>3 DEF Damage
  <2>2. IsBuilder(fbb') /\ OffsetsMade' /\ IsBuffer'
    BY <1>0, <1>9, <2>1 DEF Damage, built, OffsetsMade, IInv, IsBuffer
  <2> QED
    BY <1>9, <2>2 DEF Damage, IInv, Established, InBounds, Inside
<1>10. ASSUME VerifyBuffer \/ Verify \/ GetRecord
       PROVE  IInv'
  <2>1. Established' /\ InBounds'
    BY <1>10, VerifyBufferStep, VerifyStep, GetRecordStep
  <2>2. UNCHANGED <<fbb, made, data, start>> /\ pc' \notin {"build", "data"}
    BY <1>10 DEF VerifyBuffer, Verify, GetRecord, Check, built, VerifyTableStart, VerifyOffset,
                 VerifyVector, VerifyVectorOfStrings
  <2>3. IsBuilder(fbb') /\ OffsetsMade' /\ IsBuffer'
    BY <2>2 DEF IInv, OffsetsMade, IsBuffer
  <2> QED
    BY <2>1, <2>2, <2>3 DEF IInv
<1>11. CASE UNCHANGED vars
  <2>1. Unchanged /\ UNCHANGED <<fbb, made>>
    BY <1>11 DEF vars, Unchanged
  <2>2. IsBuilder(fbb') /\ OffsetsMade'
    BY <1>0, <2>1 DEF OffsetsMade
  <2> QED
    BY <2>1, <2>2, UnchangedKeeps DEF IInv
<1> QED
  BY <1>1, <1>2, <1>3, <1>4, <1>5, <1>6, <1>7, <1>8, <1>9, <1>10, <1>11 DEF Next

(***************************************************************************)
(* Verify and the accessors of an accepted buffer stay inside it           *)
(* (Record::Verify): its checks, in its order, are enough for each other.  *)
(***************************************************************************)
THEOREM StaysInside == Spec => []InBounds
<1>1. Init => IInv
  BY InitIInv
<1>2. IInv /\ [Next]_vars => IInv'
  BY NextIInv
<1>3. IInv => InBounds
  BY DEF IInv
<1> QED
  BY <1>1, <1>2, <1>3, PTL DEF Spec

-----------------------------------------------------------------------------
(* The objects of a buffer. *)

\* The cell at an offset, which a buffer keeps while it grows, and the offset
\* that the one in a cell leads to.
Cell(b, o) == b.buf[Size(b) - o + 1]
To(b, o) == o - Cell(b, o)

Grows(b, c) == Size(b) <= Size(c) /\ \A o \in 1 .. Size(b) : Cell(c, o) = Cell(b, o)

IsText(b, o, s) ==
  /\ s \in Seq(Int) /\ o \in Int /\ o <= Size(b) /\ Len(s) + 2 <= o
  /\ Cell(b, o) = Len(s) /\ Cell(b, o - Len(s) - 1) = 0
  /\ \A k \in 1 .. Len(s) : Cell(b, o - k) = s[k]

IsIds(b, o, q) ==
  /\ q \in Seq(Int) /\ o \in Int /\ o <= Size(b) /\ Len(q) < o
  /\ Cell(b, o) = Len(q)
  /\ \A k \in 1 .. Len(q) : Cell(b, o - k) = q[k]

IsTexts(b, o, vs) ==
  /\ Len(vs) \in Nat /\ vs = [k \in 1 .. Len(vs) |-> vs[k]]
  /\ o \in Int /\ o <= Size(b) /\ Len(vs) < o
  /\ Cell(b, o) = Len(vs)
  /\ \A k \in 1 .. Len(vs) : Cell(b, o - k) > 0 /\ IsText(b, To(b, o - k), vs[k])

IsVector(b, f, o, x) == IF f = "ids" THEN IsIds(b, o, x) ELSE IsTexts(b, o, x)

\* A field of a table, at c.
IsField(b, f, c, x) == c \in 1 .. Size(b) /\ Cell(b, c) > 0 /\ IsVector(b, f, To(b, c), x)

IsVtable(b, v) == v \in 1 .. Size(b) /\ Cell(b, v) \in 2 .. 4 /\ Cell(b, v) <= v
EntryOf(b, v, f) == IF VT[f] < Cell(b, v) THEN Cell(b, v - VT[f]) ELSE 0

IsRecord(b, t, value) ==
  LET v == t + Cell(b, t)
  IN  /\ t \in 1 .. Size(b) /\ IsVtable(b, v)
      /\ \A f \in Fields :
           LET e == EntryOf(b, v, f)
           IN  IF e = 0 THEN value[f] = <<>>
               ELSE e > 0 /\ value[f] = <<value[f][1]>> /\ IsField(b, f, t - e, value[f][1])

\* The objects of m are where their Offsets say.
IsObject(b, type, o, x) ==
  IF type = "string" THEN IsText(b, o, x)
  ELSE IF type = "record" THEN IsRecord(b, o, x) ELSE IsVector(b, type, o, x)
Objects(b, m) == \A type \in Types : \A o \in m[type] : IsObject(b, type, o.at, o.value)

\* The table under construction has the fields it is said to have.
TableSound(b) ==
  /\ b.value = [f \in Fields |-> b.value[f]]
  /\ \A f \in Fields :
       IF b.fields[f] = 0 THEN b.value[f] = <<>>
       ELSE b.value[f] = <<b.value[f][1]>> /\ IsField(b, f, b.fields[f], b.value[f][1])

Vtables(b) == \A v \in b.vtables : IsVtable(b, v)

Good(b) == IsBuilder(b) /\ TableSound(b) /\ Vtables(b)

-----------------------------------------------------------------------------
(* Lemmas: what is in a buffer stays there. *)

\* To push cells leaves those that are there at their offsets.
LEMMA PushFacts ==
  ASSUME NEW b, IsBuilder(b), NEW cells \in Seq(Int), NEW c, c = Push(b, cells)
  PROVE  /\ IsBuilder(c) /\ Grows(b, c) /\ Size(b) \in Nat
         /\ Size(c) = Size(b) + Len(cells)
         /\ \A j \in 1 .. Len(cells) : Cell(c, Size(c) - j + 1) = cells[j]
         /\ c.vtables = b.vtables /\ c.fields = b.fields /\ c.value = b.value /\ c.start = b.start
<1>1. IsBuilder(c)
  BY PushType
<1>2. /\ c.buf = cells \o b.buf
      /\ c.vtables = b.vtables /\ c.fields = b.fields /\ c.value = b.value /\ c.start = b.start
  BY DEF Push, IsBuilder
<1>3. b.buf \in Seq(Int) /\ Len(b.buf) \in Nat /\ Len(cells) \in Nat
  BY DEF IsBuilder
<1>4. Len(c.buf) = Len(cells) + Len(b.buf)
  BY <1>2, <1>3
<1>5. \A j \in 1 .. Len(cells) : c.buf[j] = cells[j]
  BY <1>2, <1>3
<1>6. \A j \in 1 .. Len(b.buf) : c.buf[Len(cells) + j] = b.buf[j]
  <2> TAKE j \in 1 .. Len(b.buf)
  <2>1. /\ Len(cells) + j \in 1 .. Len(cells) + Len(b.buf)
        /\ ~(Len(cells) + j <= Len(cells)) /\ Len(cells) + j - Len(cells) = j
    BY <1>3
  <2>2. c.buf[Len(cells) + j] = b.buf[Len(cells) + j - Len(cells)]
    BY <1>2, <1>3, <2>1
  <2> QED
    BY <2>1, <2>2
<1>7. \A o \in 1 .. Size(b) : Cell(c, o) = Cell(b, o)
  <2> TAKE o \in 1 .. Size(b)
  <2>1. Len(b.buf) - o + 1 \in 1 .. Len(b.buf)
    BY <1>3 DEF Size
  <2>2. c.buf[Len(cells) + (Len(b.buf) - o + 1)] = b.buf[Len(b.buf) - o + 1]
    BY <1>6, <2>1
  <2>3. Len(cells) + (Len(b.buf) - o + 1) = Len(c.buf) - o + 1
    BY <1>3, <1>4
  <2> QED
    BY <2>2, <2>3 DEF Cell, Size
<1>8. \A j \in 1 .. Len(cells) : Cell(c, Size(c) - j + 1) = cells[j]
  <2> TAKE j \in 1 .. Len(cells)
  <2>1. Len(c.buf) - (Len(c.buf) - j + 1) + 1 = j
    BY <1>3, <1>4
  <2> QED
    BY <1>5, <2>1 DEF Cell, Size
<1> QED
  BY <1>1, <1>2, <1>3, <1>4, <1>7, <1>8 DEF Grows, Size

\* A cell of a buffer is a number.
LEMMA CellType ==
  ASSUME NEW b, IsBuilder(b)
  PROVE  Size(b) \in Nat /\ \A o \in 1 .. Size(b) : Cell(b, o) \in Int
<1>1. b.buf \in Seq(Int) /\ Size(b) = Len(b.buf) /\ Len(b.buf) \in Nat
  BY DEF IsBuilder, Size
<1>2. \A o \in 1 .. Size(b) : Len(b.buf) - o + 1 \in 1 .. Len(b.buf)
  BY <1>1
<1> QED
  BY <1>1, <1>2, ElementOfSeq DEF Cell

\* Growing is a preorder.
LEMMA GrowsFacts ==
  /\ \A b : Size(b) \in Nat => Grows(b, b)
  /\ \A b, c, d : Size(b) \in Nat /\ Size(c) \in Nat /\ Size(d) \in Nat
                  /\ Grows(b, c) /\ Grows(c, d) => Grows(b, d)
BY DEF Grows

\* The cells of an object after its first are nearer to the end.
LEMMA Below == \A n, o, z \in Nat : n < o /\ o <= z => \A k \in 1 .. n : o - k \in 1 .. z
OBVIOUS

\* What is in a buffer is there when it has grown.
LEMMA TextStays ==
  ASSUME NEW b, NEW c, IsBuilder(b), IsBuilder(c), Grows(b, c)
  PROVE  \A o, s : IsText(b, o, s) => IsText(c, o, s)
<1> TAKE o, s
<1> HAVE IsText(b, o, s)
<1>1. Size(b) \in Nat /\ Size(c) \in Nat /\ Size(b) <= Size(c)
  BY CellType DEF Grows
<1>2. Len(s) \in Nat /\ o \in 1 .. Size(b) /\ o - Len(s) - 1 \in 1 .. Size(b)
  BY <1>1 DEF IsText
<1>3. \A k \in 1 .. Len(s) : o - k \in 1 .. Size(b)
  <2>1. o \in Nat /\ Len(s) < o /\ o <= Size(b)
    BY <1>1, <1>2
  <2> QED
    BY <1>1, <1>2, <2>1, Below, Zenon
<1> QED
  BY <1>1, <1>2, <1>3 DEF IsText, Grows

LEMMA IdsStay ==
  ASSUME NEW b, NEW c, IsBuilder(b), IsBuilder(c), Grows(b, c)
  PROVE  \A o, q : IsIds(b, o, q) => IsIds(c, o, q)
<1> TAKE o, q
<1> HAVE IsIds(b, o, q)
<1>1. Size(b) \in Nat /\ Size(c) \in Nat /\ Size(b) <= Size(c)
  BY CellType DEF Grows
<1>2. Len(q) \in Nat /\ o \in 1 .. Size(b)
  BY <1>1 DEF IsIds
<1>3. \A k \in 1 .. Len(q) : o - k \in 1 .. Size(b)
  <2>1. o \in Nat /\ Len(q) < o /\ o <= Size(b)
    BY <1>1, <1>2 DEF IsIds
  <2> QED
    BY <1>1, <1>2, <2>1, Below, Zenon
<1> QED
  BY <1>1, <1>2, <1>3 DEF IsIds, Grows

LEMMA TextsStay ==
  ASSUME NEW b, NEW c, IsBuilder(b), IsBuilder(c), Grows(b, c)
  PROVE  \A o, vs : IsTexts(b, o, vs) => IsTexts(c, o, vs)
<1> TAKE o, vs
<1> HAVE IsTexts(b, o, vs)
<1>1. Size(b) \in Nat /\ Size(c) \in Nat /\ Size(b) <= Size(c)
  BY CellType DEF Grows
<1>2. Len(vs) \in Nat /\ o \in 1 .. Size(b)
  BY <1>1 DEF IsTexts
<1>3. \A k \in 1 .. Len(vs) : o - k \in 1 .. Size(b)
  <2>1. o \in Nat /\ Len(vs) < o /\ o <= Size(b)
    BY <1>1, <1>2 DEF IsTexts
  <2> QED
    BY <1>1, <1>2, <2>1, Below, Zenon
<1>4. \A k \in 1 .. Len(vs) : Cell(c, o - k) > 0 /\ IsText(c, To(c, o - k), vs[k])
  BY <1>3, TextStays DEF IsTexts, Grows, To
<1> QED
  BY <1>1, <1>2, <1>4 DEF IsTexts, Grows

LEMMA FieldStays ==
  ASSUME NEW b, NEW c, IsBuilder(b), IsBuilder(c), Grows(b, c)
  PROVE  /\ \A f, o, x : IsVector(b, f, o, x) => IsVector(c, f, o, x)
         /\ \A f, o, x : IsField(b, f, o, x) => IsField(c, f, o, x)
<1>1. \A f, o, x : IsVector(b, f, o, x) => IsVector(c, f, o, x)
  BY IdsStay, TextsStay DEF IsVector
<1>2. Size(b) \in Nat /\ Size(c) \in Nat /\ Size(b) <= Size(c)
  BY CellType DEF Grows
<1> QED
  BY <1>1, <1>2 DEF IsField, Grows, To

LEMMA VtableStays ==
  ASSUME NEW b, NEW c, IsBuilder(b), IsBuilder(c), Grows(b, c), NEW v, IsVtable(b, v)
  PROVE  IsVtable(c, v) /\ \A f \in Fields : EntryOf(c, v, f) = EntryOf(b, v, f)
<1>1. Size(b) \in Nat /\ Size(c) \in Nat /\ Size(b) <= Size(c)
  BY CellType DEF Grows
<1>2. v \in 1 .. Size(b) /\ Cell(c, v) = Cell(b, v)
  BY DEF IsVtable, Grows
<1>3. \A f \in Fields : VT[f] \in {2, 3}
  BY DEF Fields, VT
<1>4. ASSUME NEW f \in Fields, VT[f] < Cell(b, v)
      PROVE  v - VT[f] \in 1 .. Size(b)
  BY <1>1, <1>2, <1>3, <1>4 DEF IsVtable
<1> QED
  BY <1>1, <1>2, <1>4 DEF IsVtable, EntryOf, Grows

LEMMA RecordStays ==
  ASSUME NEW b, NEW c, IsBuilder(b), IsBuilder(c), Grows(b, c)
  PROVE  \A t, value : IsRecord(b, t, value) => IsRecord(c, t, value)
<1> TAKE t, value
<1> HAVE IsRecord(b, t, value)
<1> DEFINE v == t + Cell(b, t)
<1>1. Size(b) \in Nat /\ Size(c) \in Nat /\ Size(b) <= Size(c)
  BY CellType DEF Grows
<1>2. t \in 1 .. Size(b) /\ Cell(c, t) = Cell(b, t)
  BY DEF IsRecord, Grows
<1>3. IsVtable(c, v) /\ \A f \in Fields : EntryOf(c, v, f) = EntryOf(b, v, f)
  BY VtableStays DEF IsRecord
<1> QED
  BY <1>1, <1>2, <1>3, FieldStays DEF IsRecord

-----------------------------------------------------------------------------
(* Lemmas: what a call puts into a buffer is what it was to be. *)

\* A string and a vector of numbers, cell by cell.
LEMMA CellsFacts ==
  ASSUME NEW q \in Seq(Int)
  PROVE  /\ StringCells(q) \in Seq(Int) /\ Len(StringCells(q)) = Len(q) + 2
         /\ StringCells(q)[1] = Len(q) /\ StringCells(q)[Len(q) + 2] = 0
         /\ \A k \in 1 .. Len(q) : StringCells(q)[k + 1] = q[k]
         /\ VectorCells(q) \in Seq(Int) /\ Len(VectorCells(q)) = Len(q) + 1
         /\ VectorCells(q)[1] = Len(q)
         /\ \A k \in 1 .. Len(q) : VectorCells(q)[k + 1] = q[k]
<1> DEFINE v == <<Len(q)>> \o q
<1>1. Len(q) \in Nat /\ <<Len(q)>> \in Seq(Int) /\ <<0>> \in Seq(Int)
  OBVIOUS
<1>2. /\ v \in Seq(Int) /\ Len(v) = Len(q) + 1 /\ v[1] = Len(q)
      /\ \A k \in 1 .. Len(q) : v[k + 1] = q[k]
  BY <1>1
<1> HIDE DEF v
<1> DEFINE s == v \o <<0>>
<1>3. /\ s \in Seq(Int) /\ Len(s) = Len(v) + 1 /\ s[Len(v) + 1] = 0
      /\ \A k \in 1 .. Len(v) : s[k] = v[k]
  BY <1>1, <1>2
<1> HIDE DEF s
<1>4. /\ s \in Seq(Int) /\ Len(s) = Len(q) + 2 /\ s[1] = Len(q) /\ s[Len(q) + 2] = 0
      /\ \A k \in 1 .. Len(q) : s[k + 1] = q[k]
  <2>1. Len(v) + 1 = Len(q) + 2 /\ 1 \in 1 .. Len(v)
    BY <1>1, <1>2
  <2>2. s \in Seq(Int) /\ Len(s) = Len(q) + 2 /\ s[1] = Len(q) /\ s[Len(q) + 2] = 0
    BY <1>2, <1>3, <2>1, Zenon
  <2>3. ASSUME NEW k \in 1 .. Len(q) PROVE s[k + 1] = q[k]
    <3>1. k + 1 \in 1 .. Len(v)
      BY <1>1, <1>2
    <3> QED
      BY <1>2, <1>3, <3>1, Zenon
  <2> QED
    BY <2>2, <2>3, Zenon
<1>5. StringCells(q) = s /\ VectorCells(q) = v
  BY DEF StringCells, VectorCells, s, v
<1> QED
  BY <1>2, <1>4, <1>5

\* The cells after the first one pushed.
Pushed(b, cells, c) ==
  /\ Size(b) \in Nat /\ Size(c) \in Nat /\ Size(c) = Size(b) + Len(cells)
  /\ Cell(c, Size(c)) = cells[1]
  /\ \A k \in 1 .. Len(cells) - 1 : Cell(c, Size(c) - k) = cells[k + 1]
  /\ c.vtables = b.vtables /\ c.fields = b.fields /\ c.value = b.value

LEMMA PushedFacts ==
  \A b, cells, c : IsBuilder(b) /\ cells \in Seq(Int) /\ Len(cells) > 0 /\ c = Push(b, cells) =>
    IsBuilder(c) /\ Grows(b, c) /\ Pushed(b, cells, c)
<1> TAKE b, cells, c
<1> HAVE IsBuilder(b) /\ cells \in Seq(Int) /\ Len(cells) > 0 /\ c = Push(b, cells)
<1>0. Len(cells) \in Nat
  OBVIOUS
<1>1. /\ Size(b) \in Nat /\ Len(cells) \in Nat /\ Size(c) = Size(b) + Len(cells)
      /\ \A j \in 1 .. Len(cells) : Cell(c, Size(c) - j + 1) = cells[j]
  BY <1>0, PushFacts
<1>2. Size(c) \in Nat /\ 1 \in 1 .. Len(cells) /\ Size(c) - 1 + 1 = Size(c)
  BY <1>1
<1>3. ASSUME NEW k \in 1 .. Len(cells) - 1
      PROVE  Cell(c, Size(c) - k) = cells[k + 1]
  <2>1. k + 1 \in 1 .. Len(cells) /\ Size(c) - (k + 1) + 1 = Size(c) - k
    BY <1>1, <1>2
  <2> QED
    BY <1>1, <2>1
<1>4. /\ IsBuilder(c) /\ Grows(b, c)
      /\ c.vtables = b.vtables /\ c.fields = b.fields /\ c.value = b.value
  BY PushFacts
<1> QED
  BY <1>1, <1>2, <1>3, <1>4 DEF Pushed

\* The string pushed last is at the size of the buffer.
LEMMA TextMade ==
  ASSUME NEW b, IsBuilder(b), NEW s \in Seq(Int), NEW c, c = Push(b, StringCells(s))
  PROVE  IsBuilder(c) /\ Grows(b, c) /\ IsText(c, Size(c), s)
<1> DEFINE cells == StringCells(s)
<1>1. /\ cells \in Seq(Int) /\ Len(cells) = Len(s) + 2 /\ cells[1] = Len(s)
      /\ cells[Len(s) + 2] = 0 /\ Len(s) \in Nat
      /\ \A k \in 1 .. Len(s) : cells[k + 1] = s[k]
  <2>1. Len(s) \in Nat
    OBVIOUS
  <2> QED
    BY <2>1, CellsFacts, Zenon
<1> HIDE DEF cells
<1>2. c = Push(b, cells) /\ Len(cells) > 0
  BY <1>1 DEF cells
<1>a. IsBuilder(c) /\ Grows(b, c) /\ Pushed(b, cells, c)
  BY <1>1, <1>2, PushedFacts, Zenon
<1>3. /\ Size(c) \in Nat /\ Size(b) \in Nat /\ Size(c) = Size(b) + Len(s) + 2
      /\ Cell(c, Size(c)) = Len(s)
      /\ \A k \in 1 .. Len(s) + 1 : Cell(c, Size(c) - k) = cells[k + 1]
  <2>1. Len(cells) - 1 = Len(s) + 1
    BY <1>1
  <2>2. /\ Size(c) \in Nat /\ Size(c) = Size(b) + Len(cells) /\ Size(b) \in Nat
        /\ Cell(c, Size(c)) = cells[1]
        /\ \A k \in 1 .. Len(cells) - 1 : Cell(c, Size(c) - k) = cells[k + 1]
    BY <1>a DEF Pushed
  <2>3. Size(c) = Size(b) + Len(s) + 2
    BY <1>1, <2>2
  <2> QED
    BY <1>1, <2>1, <2>2, <2>3, Zenon
<1>4. Cell(c, Size(c) - Len(s) - 1) = 0
  <2>1. /\ Len(s) + 1 \in 1 .. Len(s) + 1 /\ (Len(s) + 1) + 1 = Len(s) + 2
        /\ Size(c) - (Len(s) + 1) = Size(c) - Len(s) - 1
    BY <1>1, <1>3
  <2> QED
    BY <1>1, <1>3, <2>1
<1>5. ASSUME NEW k \in 1 .. Len(s) PROVE Cell(c, Size(c) - k) = s[k]
  <2>1. k \in 1 .. Len(s) + 1
    BY <1>1
  <2> QED
    BY <1>1, <1>3, <2>1, Zenon
<1>6. Size(c) <= Size(c) /\ Len(s) + 2 <= Size(c)
  BY <1>1, <1>3
<1>7. IsText(c, Size(c), s)
  BY <1>3, <1>4, <1>5, <1>6 DEF IsText
<1> QED
  BY <1>a, <1>7

\* So is a vector of integers.
LEMMA IdsMade ==
  ASSUME NEW b, IsBuilder(b), NEW q \in Seq(Int), NEW c, c = VectorOfIds(b, q)
  PROVE  IsBuilder(c) /\ Grows(b, c) /\ IsIds(c, Size(c), q)
<1> DEFINE cells == VectorCells(q)
<1>1. /\ cells \in Seq(Int) /\ Len(cells) = Len(q) + 1 /\ cells[1] = Len(q) /\ Len(q) \in Nat
      /\ \A k \in 1 .. Len(q) : cells[k + 1] = q[k]
  <2>1. Len(q) \in Nat
    OBVIOUS
  <2> QED
    BY <2>1, CellsFacts, Zenon
<1> HIDE DEF cells
<1>2. c = Push(b, cells) /\ Len(cells) > 0
  BY <1>1 DEF cells, VectorOfIds
<1>a. IsBuilder(c) /\ Grows(b, c) /\ Pushed(b, cells, c)
  BY <1>1, <1>2, PushedFacts, Zenon
<1>3. /\ Size(c) \in Nat /\ Size(b) \in Nat /\ Size(c) = Size(b) + Len(q) + 1
      /\ Cell(c, Size(c)) = Len(q)
      /\ \A k \in 1 .. Len(q) : Cell(c, Size(c) - k) = cells[k + 1]
  <2>1. Len(cells) - 1 = Len(q)
    BY <1>1
  <2>2. /\ Size(c) \in Nat /\ Size(c) = Size(b) + Len(cells) /\ Size(b) \in Nat
        /\ Cell(c, Size(c)) = cells[1]
        /\ \A k \in 1 .. Len(cells) - 1 : Cell(c, Size(c) - k) = cells[k + 1]
    BY <1>a DEF Pushed
  <2>3. Size(c) = Size(b) + Len(q) + 1
    BY <1>1, <2>2
  <2> QED
    BY <1>1, <2>1, <2>2, <2>3, Zenon
<1>4. \A k \in 1 .. Len(q) : Cell(c, Size(c) - k) = q[k]
  BY <1>1, <1>3, Zenon
<1>5. Size(c) <= Size(c) /\ Len(q) < Size(c)
  BY <1>1, <1>3
<1>6. IsIds(c, Size(c), q)
  BY <1>3, <1>4, <1>5 DEF IsIds
<1> QED
  BY <1>a, <1>6

\* An offset relative to the k-th cell after the last leads back.
LEMMA BackTo ==
  \A size, at, k, n, cell, new \in Int :
    at <= size /\ k <= n /\ new = size + n + 1 /\ cell = size + n - k + 1 - at
    => cell > 0 /\ new - k - cell = at
<1> TAKE size, at, k, n, cell, new \in Int
<1> HAVE at <= size /\ k <= n /\ new = size + n + 1 /\ cell = size + n - k + 1 - at
<1>1. new - k - cell = at
  OBVIOUS
<1>2. cell > 0
  OBVIOUS
<1> QED
  BY <1>1, <1>2

\* And a vector of strings, which are in the buffer already.
LEMMA TextsMade ==
  ASSUME NEW b, IsBuilder(b), NEW n \in Nat, NEW os, DOMAIN os = 1 .. n, os = [k \in 1 .. n |-> os[k]],
         \A k \in 1 .. n : IsText(b, os[k].at, os[k].value),
         NEW c, c = VectorOfStrings(b, os)
  PROVE  IsBuilder(c) /\ Grows(b, c) /\ IsTexts(c, Size(c), Values(os))
<1> DEFINE at == [k \in 1 .. n |-> os[k].at]
           rest == [k \in 1 .. n |-> Size(b) + n - k + 1 - at[k]]
           cells == <<n>> \o rest
<1>1. Size(b) \in Nat /\ \A k \in 1 .. n : at[k] \in Int /\ at[k] <= Size(b)
  BY CellType DEF IsText
<1>2. at \in Seq(Int) /\ Len(at) = n
  BY <1>1
<1>3. rest \in Seq(Int) /\ Len(rest) = n /\ \A k \in 1 .. n : rest[k] = Size(b) + n - k + 1 - at[k]
  <2>1. \A k \in 1 .. n : Size(b) + n - k + 1 - at[k] \in Int
    BY <1>1
  <2>2. \A k \in 1 .. n : rest[k] = Size(b) + n - k + 1 - at[k]
    OBVIOUS
  <2>3. \A k \in 1 .. n : rest[k] \in Int
    BY <2>1, <2>2
  <2>4. DOMAIN rest = 1 .. n /\ rest = [k \in 1 .. n |-> rest[k]]
    OBVIOUS
  <2> HIDE DEF at, rest
  <2> QED
    BY <2>2, <2>3, <2>4
<1>4. OffsetCells(b, at) = cells
  <2>1. DOMAIN at = 1 .. n
    OBVIOUS
  <2> HIDE DEF at
  <2> QED
    BY <1>2, <2>1 DEF OffsetCells
<1>5. VectorOfStrings(b, os) = Push(b, cells)
  BY <1>4 DEF VectorOfStrings
<1>6. \A k \in 1 .. n : at[k] = os[k].at
  OBVIOUS
<1> HIDE DEF at, rest
<1>7. /\ cells \in Seq(Int) /\ Len(cells) = n + 1 /\ cells[1] = n
      /\ \A k \in 1 .. n : cells[k + 1] = rest[k]
  <2>1. <<n>> \in Seq(Int) /\ Len(<<n>>) = 1
    OBVIOUS
  <2> QED
    BY <1>3, <2>1
<1> HIDE DEF cells
<1>8. /\ Size(c) \in Nat /\ Size(c) = Size(b) + n + 1 /\ Cell(c, Size(c)) = n
      /\ \A k \in 1 .. n : Cell(c, Size(c) - k) = cells[k + 1]
  <2>1. Len(cells) - 1 = n /\ Len(cells) > 0 /\ c = Push(b, cells)
    BY <1>5, <1>7
  <2>a. Pushed(b, cells, c)
    BY <1>7, <2>1, PushedFacts, Zenon
  <2>2. /\ Size(c) \in Nat /\ Size(c) = Size(b) + Len(cells) /\ Cell(c, Size(c)) = cells[1]
        /\ \A k \in 1 .. Len(cells) - 1 : Cell(c, Size(c) - k) = cells[k + 1]
    BY <2>a DEF Pushed
  <2>3. Size(b) + (n + 1) = Size(b) + n + 1
    BY <1>1
  <2> QED
    BY <1>7, <2>1, <2>2, <2>3, Zenon
<1>9. IsBuilder(c) /\ Grows(b, c)
  BY <1>5, <1>7, PushFacts
<1> DEFINE vs == Values(os)
<1>10. vs = [k \in 1 .. n |-> os[k].value] /\ Len(vs) = n
  BY DEF Values
<1> HIDE DEF vs
<1>11. ASSUME NEW k \in 1 .. n
       PROVE  Cell(c, Size(c) - k) > 0 /\ IsText(c, To(c, Size(c) - k), vs[k])
  <2>1. Cell(c, Size(c) - k) = Size(b) + n - k + 1 - at[k] /\ Cell(c, Size(c) - k) \in Int
    <3>1. Size(b) \in Int /\ n \in Int /\ k \in Int /\ at[k] \in Int
      BY <1>1
    <3>2. Size(b) + n - k + 1 - at[k] \in Int
      BY <3>1
    <3>3. Cell(c, Size(c) - k) = Size(b) + n - k + 1 - at[k]
      BY <1>3, <1>7, <1>8
    <3> QED
      BY <3>2, <3>3
  <2>2. Cell(c, Size(c) - k) > 0 /\ To(c, Size(c) - k) = at[k]
    <3>1. /\ Size(b) \in Int /\ at[k] \in Int /\ at[k] <= Size(b) /\ k \in Int /\ k <= n
          /\ Size(c) = Size(b) + n + 1 /\ n \in Int /\ Size(c) \in Int
      BY <1>1, <1>8
    <3> DEFINE size == Size(b)
               cell == Cell(c, Size(c) - k)
               new == Size(c)
               place == at[k]
    <3>2. To(c, Size(c) - k) = new - k - cell
      BY DEF To
    <3>3. /\ size \in Int /\ place \in Int /\ k \in Int /\ n \in Int /\ cell \in Int /\ new \in Int
          /\ place <= size /\ k <= n /\ new = size + n + 1 /\ cell = size + n - k + 1 - place
      BY <2>1, <3>1
    <3> HIDE DEF size, cell, new, place
    <3>4. cell > 0 /\ new - k - cell = place
      BY <3>3, BackTo
    <3> QED
      BY <3>2, <3>4 DEF cell, place
  <2>3. IsText(c, at[k], os[k].value)
    BY <1>6, <1>9, TextStays
  <2> QED
    BY <1>10, <2>2, <2>3
<1>12. vs = [k \in 1 .. n |-> vs[k]]
  BY <1>10
<1>13. IsTexts(c, Size(c), vs)
  <2>1. Size(c) \in Int /\ Size(c) <= Size(c) /\ n < Size(c)
    BY <1>1, <1>8
  <2> QED
    BY <1>8, <1>10, <1>11, <1>12, <2>1, Zenon DEF IsTexts
<1> QED
  BY <1>9, <1>13 DEF vs

\* What is known of a builder stays true when its buffer has grown.
LEMMA GoodStays ==
  ASSUME NEW b, NEW c, Good(b), IsBuilder(c), Grows(b, c),
         c.vtables = b.vtables, c.fields = b.fields, c.value = b.value
  PROVE  Good(c)
<1>1. \A f, o, x : IsField(b, f, o, x) => IsField(c, f, o, x)
  BY FieldStays DEF Good
<1>2. TableSound(c)
  BY <1>1 DEF Good, TableSound
<1>3. Vtables(c)
  BY VtableStays DEF Good, Vtables
<1> QED
  BY <1>2, <1>3 DEF Good

\* A table is started without fields, and gets those that are added.
LEMMA StartGood ==
  ASSUME NEW b, Good(b)
  PROVE  Good(StartTable(b)) /\ Grows(b, StartTable(b))
<1> DEFINE c == StartTable(b)
<1>1. IsBuilder(b) /\ IsBuilder(c)
  BY StartType DEF Good
<1>2. /\ c.buf = b.buf /\ c.vtables = b.vtables
      /\ c.fields = [f \in Fields |-> 0] /\ c.value = [f \in Fields |-> <<>>]
  BY <1>1 DEF StartTable, IsBuilder, Absent
<1> HIDE DEF c
<1>3. Size(c) = Size(b) /\ \A o : Cell(c, o) = Cell(b, o)
  BY <1>2 DEF Size, Cell
<1>4. Grows(b, c)
  BY <1>1, <1>3, CellType DEF Grows
<1>5. TableSound(c)
  BY <1>2 DEF TableSound
<1>6. Vtables(c)
  BY <1>2, <1>3 DEF Vtables, Good, IsVtable
<1>7. Good(c)
  BY <1>1, <1>5, <1>6 DEF Good
<1> QED
  BY <1>4, <1>7 DEF c

LEMMA AddGood ==
  ASSUME NEW b, Good(b), NEW f \in Fields, NEW o, o.at \in Int,
         o = Null \/ IsVector(b, f, o.at, o.value)
  PROVE  Good(AddOffset(b, f, o)) /\ Grows(b, AddOffset(b, f, o))
<1>0. IsBuilder(b) /\ Size(b) \in Nat
  BY CellType DEF Good
<1>1. CASE o = Null
  BY <1>0, <1>1, GrowsFacts DEF AddOffset
<1>2. CASE o # Null
  <2> DEFINE cells == <<ReferTo(b, o.at)>>
             c == Push(b, cells)
             d == AddOffset(b, f, o)
  <2>1. o.at <= Size(b) /\ IsVector(b, f, o.at, o.value)
    BY <1>2 DEF IsVector, IsIds, IsTexts
  <2>2. cells \in Seq(Int) /\ Len(cells) = 1 /\ cells[1] = Size(b) + 1 - o.at
    BY <1>0 DEF ReferTo
  <2>3. d = [c EXCEPT !.fields[f] = Size(b) + 1, !.value[f] = <<o.value>>] /\ IsBuilder(d)
    BY <1>0, <1>2, AddType DEF AddOffset
  <2>4. /\ IsBuilder(c) /\ Grows(b, c) /\ Size(c) = Size(b) + 1 /\ Cell(c, Size(c)) = cells[1]
        /\ c.vtables = b.vtables /\ c.fields = b.fields /\ c.value = b.value
    <3> HIDE DEF cells
    <3>1. c = Push(b, cells) /\ Len(cells) > 0
      BY <2>2
    <3> HIDE DEF c
    <3>2. Pushed(b, cells, c) /\ IsBuilder(c) /\ Grows(b, c)
      BY <1>0, <2>2, <3>1, PushedFacts, Zenon
    <3> QED
      BY <2>2, <3>2 DEF Pushed
  <2> HIDE DEF c, cells, d
  <2>5. /\ d.buf = c.buf /\ d.vtables = c.vtables
        /\ d.fields = [c.fields EXCEPT ![f] = Size(b) + 1]
        /\ d.value = [c.value EXCEPT ![f] = <<o.value>>]
    <3>1. "value" \in DOMAIN d
      BY <2>3 DEF IsBuilder
    <3> QED
      BY <2>3, <2>4, <3>1 DEF IsBuilder
  <2>6. Size(d) = Size(c) /\ \A p : Cell(d, p) = Cell(c, p)
    BY <2>5 DEF Size, Cell
  <2>7. Grows(b, d)
    BY <2>4, <2>6 DEF Grows
  <2>8. IsField(d, f, Size(b) + 1, o.value)
    <3>1. Cell(d, Size(b) + 1) = Size(b) + 1 - o.at
      BY <2>2, <2>4, <2>6
    <3>2. Cell(d, Size(b) + 1) > 0 /\ To(d, Size(b) + 1) = o.at
      BY <1>0, <2>1, <3>1 DEF To
    <3>3. IsVector(d, f, o.at, o.value)
      BY <1>0, <2>1, <2>3, <2>7, FieldStays
    <3> QED
      BY <1>0, <2>4, <2>6, <3>2, <3>3 DEF IsField
  <2>9. TableSound(d)
    <3>1. /\ d.value = [g \in Fields |-> d.value[g]]
          /\ d.value[f] = <<o.value>> /\ d.fields[f] = Size(b) + 1
          /\ \A g \in Fields : g # f => d.value[g] = b.value[g] /\ d.fields[g] = b.fields[g]
      <4>1. d.value = [b.value EXCEPT ![f] = <<o.value>>]
            /\ d.fields = [b.fields EXCEPT ![f] = Size(b) + 1]
        BY <2>4, <2>5
      <4>2. b.value = [g \in Fields |-> b.value[g]] /\ b.fields \in [Fields -> Int]
        BY <1>0 DEF Good, TableSound, IsBuilder
      <4>3. DOMAIN b.value = Fields /\ DOMAIN b.fields = Fields
        BY <4>2
      <4> QED
        BY <4>1, <4>3
    <3>2. \A g \in Fields : \A p, x : IsField(b, g, p, x) => IsField(d, g, p, x)
      BY <1>0, <2>3, <2>7, FieldStays
    <3>3. ASSUME NEW g \in Fields
          PROVE  IF d.fields[g] = 0 THEN d.value[g] = <<>>
                 ELSE d.value[g] = <<d.value[g][1]>> /\ IsField(d, g, d.fields[g], d.value[g][1])
      <4>1. CASE g = f
        <5>1. Size(b) + 1 # 0 /\ <<o.value>>[1] = o.value
          BY <1>0
        <5> QED
          BY <2>8, <3>1, <4>1, <5>1
      <4>2. CASE g # f
        BY <3>1, <3>2, <4>2 DEF Good, TableSound
      <4> QED
        BY <4>1, <4>2
    <3> QED
      BY <3>1, <3>3 DEF TableSound
  <2>10. Vtables(d)
    BY <1>0, <2>3, <2>4, <2>5, <2>7, VtableStays DEF Vtables, Good
  <2> QED
    BY <2>3, <2>7, <2>9, <2>10 DEF Good, d
<1> QED
  BY <1>1, <1>2

\* The vtable of a table: its size and, as far as it goes, the fields.
LEMMA VtableFacts ==
  ASSUME NEW b, IsBuilder(b), NEW t \in Int, NEW w, w = VtableOf(b, t)
  PROVE  /\ w \in Seq(Int) /\ Len(w) \in 2 .. 4 /\ w[1] = Len(w)
         /\ \A f \in Fields : IF VT[f] < Len(w)
                              THEN w[VT[f] + 1] = IF b.fields[f] = 0 THEN 0 ELSE t - b.fields[f]
                              ELSE b.fields[f] = 0
<1> DEFINE entry(f) == IF b.fields[f] = 0 THEN 0 ELSE t - b.fields[f]
           whole == <<4, t - b.start, entry("ids"), entry("strings")>>
           size == IF b.fields["strings"] # 0 THEN 4 ELSE IF b.fields["ids"] # 0 THEN 3 ELSE 2
           cut == SubSeq(whole, 1, size)
<1>1. w \in Seq(Int) /\ w = [cut EXCEPT ![1] = size]
  BY VtableType DEF VtableOf
<1>2. /\ entry("ids") \in Int /\ entry("strings") \in Int /\ b.start \in Int
      /\ b.fields["ids"] \in Int /\ b.fields["strings"] \in Int
  BY DEF IsBuilder, Fields
<1>3. /\ whole \in Seq(Int) /\ Len(whole) = 4
      /\ whole[3] = entry("ids") /\ whole[4] = entry("strings")
  BY <1>2
<1>4. size \in 2 .. 4
  OBVIOUS
<1>5. /\ size >= 3 \/ b.fields["ids"] = 0
      /\ size >= 4 \/ b.fields["strings"] = 0
  OBVIOUS
<1> HIDE DEF whole, size
<1>6. cut \in Seq(Int) /\ Len(cut) = size /\ \A k \in 1 .. size : cut[k] = whole[k]
  <2>1. \A k \in 1 .. size : whole[k] \in Int
    <3>1. \A k \in 1 .. size : k \in 1 .. Len(whole)
      BY <1>3, <1>4
    <3> QED
      BY <1>3, <3>1, ElementOfSeq
  <2>2. size \in Int /\ 1 <= size /\ size - 1 + 1 = size /\ \A k \in 1 .. size : 1 + k - 1 = k
    BY <1>4
  <2>3. /\ cut \in Seq(Int) /\ Len(cut) = size - 1 + 1
        /\ \A k \in 1 .. size - 1 + 1 : cut[k] = whole[1 + k - 1]
    BY <2>1, <2>2, SubSeqProperties
  <2> HIDE DEF cut
  <2> QED
    BY <2>2, <2>3
<1> HIDE DEF cut
<1>7. Len(w) = size /\ w[1] = size /\ \A k \in 2 .. size : w[k] = whole[k]
  BY <1>1, <1>4, <1>6
<1>8. VT["ids"] = 2 /\ VT["strings"] = 3 /\ Fields = {"ids", "strings"}
  BY DEF VT, Fields
<1>9. ASSUME NEW f \in Fields
      PROVE  IF VT[f] < size THEN w[VT[f] + 1] = entry(f) ELSE b.fields[f] = 0
  <2>1. CASE f = "ids"
    <3>1. CASE size >= 3
      <4>1. 3 \in 2 .. size
        BY <1>4, <3>1
      <4> QED
        BY <1>3, <1>4, <1>7, <1>8, <2>1, <3>1, <4>1
    <3>2. CASE size = 2
      BY <1>5, <1>8, <2>1, <3>2
    <3> QED
      BY <1>4, <3>1, <3>2
  <2>2. CASE f = "strings"
    <3>1. CASE size = 4
      <4>1. 4 \in 2 .. size
        BY <1>4, <3>1
      <4> QED
        BY <1>3, <1>4, <1>7, <1>8, <2>2, <3>1, <4>1
    <3>2. CASE size # 4
      BY <1>4, <1>5, <1>8, <2>2, <3>2
    <3> QED
      BY <3>1, <3>2
  <2> QED
    BY <1>8, <2>1, <2>2
<1> QED
  BY <1>1, <1>4, <1>7, <1>9

\* The cells of a vtable in the buffer.
LEMMA VtableCells ==
  \A b, v, w : IsBuilder(b) /\ IsVtable(b, v) /\ w = VtableAt(b, v) =>
    Len(w) = Cell(b, v) /\ \A j \in 0 .. Len(w) - 1 : Cell(b, v - j) = w[j + 1]
<1> TAKE b, v, w
<1> HAVE IsBuilder(b) /\ IsVtable(b, v) /\ w = VtableAt(b, v)
<1> DEFINE p == Size(b) - v + 1
           n == Cell(b, v)
<1>1. /\ b.buf \in Seq(Int) /\ Size(b) \in Nat /\ Size(b) = Len(b.buf)
      /\ v \in 1 .. Size(b) /\ n \in 2 .. 4 /\ n <= v
  BY DEF IsBuilder, Size, IsVtable
<1>2. w = SubSeq(b.buf, p, p + n - 1)
  BY DEF VtableAt, Cell
<1> HIDE DEF n
<1>3. p \in 1 .. Len(b.buf) /\ p + n - 1 \in 1 .. Len(b.buf)
  <2>1. v \in Int /\ n \in Int /\ 2 <= n /\ n <= v /\ v <= Len(b.buf)
    BY <1>1
  <2> QED
    BY <1>1, <2>1
<1> HIDE DEF p
<1>4. Len(w) = n /\ \A k \in 1 .. n : w[k] = b.buf[p + k - 1]
  <2>1. \A k \in p .. p + n - 1 : b.buf[k] \in Int
    <3>1. \A k \in p .. p + n - 1 : k \in 1 .. Len(b.buf)
      BY <1>3
    <3> QED
      BY <1>1, <3>1, ElementOfSeq
  <2>2. p \in Int /\ p + n - 1 \in Int /\ p <= p + n - 1 /\ (p + n - 1) - p + 1 = n
    BY <1>1, <1>3
  <2>3. /\ Len(w) = (p + n - 1) - p + 1
        /\ \A k \in 1 .. (p + n - 1) - p + 1 : w[k] = b.buf[p + k - 1]
    BY <1>2, <2>1, <2>2, SubSeqProperties
  <2> QED
    BY <2>2, <2>3
<1>5. ASSUME NEW j \in 0 .. n - 1 PROVE Cell(b, v - j) = w[j + 1]
  <2>1. Size(b) - (v - j) + 1 = p + (j + 1) - 1 /\ j + 1 \in 1 .. n
    BY <1>1 DEF p
  <2> QED
    BY <1>4, <2>1 DEF Cell
<1> QED
  BY <1>4, <1>5 DEF n

\* A cell of a buffer replaced.
Replaced(b, c, t, x) ==
  Size(c) = Size(b) /\ Cell(c, t) = x /\ \A o \in 1 .. Size(b) : o # t => Cell(c, o) = Cell(b, o)

LEMMA CellReplaced ==
  \A b, c, t, x : IsBuilder(b) /\ t \in 1 .. Size(b) /\ c.buf = [b.buf EXCEPT ![Size(b) - t + 1] = x]
                 => Replaced(b, c, t, x)
<1> TAKE b, c, t, x
<1> HAVE IsBuilder(b) /\ t \in 1 .. Size(b) /\ c.buf = [b.buf EXCEPT ![Size(b) - t + 1] = x]
<1>1. b.buf \in Seq(Int) /\ Size(b) = Len(b.buf) /\ Size(b) \in Nat
  BY DEF IsBuilder, Size
<1>2. Size(b) - t + 1 \in 1 .. Len(b.buf)
  BY <1>1
<1>3. /\ Len(c.buf) = Len(b.buf) /\ c.buf[Size(b) - t + 1] = x
      /\ \A k \in 1 .. Len(b.buf) : k # Size(b) - t + 1 => c.buf[k] = b.buf[k]
  BY <1>1, <1>2
<1>4. \A o \in 1 .. Size(b) : o # t =>
        Size(b) - o + 1 \in 1 .. Len(b.buf) /\ Size(b) - o + 1 # Size(b) - t + 1
  BY <1>1
<1>5. Size(c) = Size(b)
  BY <1>3 DEF Size
<1> QED
  BY <1>3, <1>4, <1>5 DEF Cell, Replaced

(***************************************************************************)
(* What EndTable leaves: the first cell of the table leads to a vtable,    *)
(* shared with an earlier table or not, that says where the fields are.    *)
(***************************************************************************)
Ended(b, e, v, w) ==
  /\ Grows(b, e) /\ LastTable(b) \in 1 .. Size(e)
  /\ LastTable(b) + Cell(e, LastTable(b)) = v
  /\ v \in 1 .. Size(e) /\ Len(w) <= v
  /\ \A j \in 0 .. Len(w) - 1 : Cell(e, v - j) = w[j + 1]
  /\ e.vtables = b.vtables \cup {v} /\ e.fields = b.fields /\ e.value = b.value

LEMMA EndCells ==
  ASSUME NEW b, Good(b)
  PROVE  \E v : Ended(b, EndTable(b), v, VtableOf(b, LastTable(b)))
<1> DEFINE t == Size(b) + 1
           c == Push(b, <<0>>)
           w == VtableOf(b, t)
           same == {v \in b.vtables : VtableAt(b, v) = w}
           d == IF same # {} THEN c ELSE Push(c, w)
           v == IF same # {} THEN CHOOSE v \in same : TRUE ELSE Size(d)
           e == EndTable(b)
<1>1. IsBuilder(b) /\ Size(b) \in Nat /\ IsBuilder(e)
  BY CellType, EndType DEF Good
<1>2. t \in Nat /\ t = LastTable(b) /\ t > Size(b) /\ t = Size(b) + 1
  BY <1>1 DEF LastTable
<1>3. w \in Seq(Int) /\ Len(w) \in 2 .. 4
  BY <1>1, <1>2, VtableFacts
<1>4. /\ IsBuilder(c) /\ Grows(b, c) /\ Size(c) = t
      /\ c.vtables = b.vtables /\ c.fields = b.fields /\ c.value = b.value
  <2> DEFINE cells == <<0>>
  <2>1. cells \in Seq(Int) /\ Len(cells) = 1 /\ Len(cells) > 0 /\ c = Push(b, cells)
    OBVIOUS
  <2> HIDE DEF c, cells
  <2>2. IsBuilder(c) /\ Grows(b, c) /\ Pushed(b, cells, c)
    BY <1>1, <2>1, PushedFacts, Zenon
  <2> QED
    BY <2>1, <2>2 DEF Pushed
<1>5. e = [d EXCEPT !.buf[Size(d) - t + 1] = v - t, !.vtables = @ \cup {v}, !.nested = FALSE]
  BY DEF EndTable
<1> HIDE DEF c, w, e, t
<1>6. CASE same # {}
  <2>1. d = c /\ v \in b.vtables /\ VtableAt(b, v) = w
    BY <1>6
  <2> HIDE DEF v, d, same
  <2>2. IsVtable(b, v)
    BY <2>1 DEF Good, Vtables
  <2>3. /\ v \in 1 .. Size(b) /\ Len(w) = Cell(b, v) /\ Len(w) <= v
        /\ \A j \in 0 .. Len(w) - 1 : Cell(b, v - j) = w[j + 1]
    <3>1. Len(w) = Cell(b, v) /\ \A j \in 0 .. Len(w) - 1 : Cell(b, v - j) = w[j + 1]
      <4>1. w = VtableAt(b, v)
        BY <2>1
      <4> QED
        BY <1>1, <2>2, <4>1, VtableCells
    <3> QED
      BY <2>2, <3>1 DEF IsVtable
  <2>4. /\ e.buf = [c.buf EXCEPT ![Size(c) - t + 1] = v - t]
        /\ e.vtables = b.vtables \cup {v} /\ e.fields = b.fields /\ e.value = b.value
    BY <1>4, <1>5, <2>1 DEF IsBuilder
  <2>5. t \in 1 .. Size(c)
    BY <1>1, <1>2, <1>4
  <2>6. /\ Size(e) = t /\ Cell(e, t) = v - t
        /\ \A o \in 1 .. Size(c) : o # t => Cell(e, o) = Cell(c, o)
    <3>1. Replaced(c, e, t, v - t)
      BY <1>4, <2>4, <2>5, CellReplaced, Zenon
    <3> QED
      BY <1>4, <3>1 DEF Replaced
  <2>7. \A o \in 1 .. Size(b) : Cell(e, o) = Cell(b, o)
    <3> TAKE o \in 1 .. Size(b)
    <3>1. o \in 1 .. Size(c) /\ o # t
      BY <1>1, <1>2, <1>4
    <3> QED
      BY <1>4, <2>6, <3>1 DEF Grows
  <2>8. Grows(b, e) /\ t + Cell(e, t) = v /\ v \in 1 .. Size(e) /\ t \in 1 .. Size(e)
    BY <1>1, <1>2, <2>3, <2>5, <2>6, <2>7 DEF Grows
  <2>9. ASSUME NEW j \in 0 .. Len(w) - 1
        PROVE  Cell(e, v - j) = w[j + 1]
    <3>1. v - j \in 1 .. Size(b)
      BY <1>1, <1>3, <2>3
    <3> QED
      BY <2>3, <2>7, <3>1
  <2>10. Ended(b, e, v, w)
    BY <1>2, <2>3, <2>4, <2>8, <2>9 DEF Ended
  <2> QED
    BY <1>2, <2>10 DEF e, w
<1>7. CASE same = {}
  <2>1. d = Push(c, w) /\ v = Size(d)
    BY <1>7
  <2> HIDE DEF v, d, same
  <2>2. Len(w) > 0 /\ Len(w) \in Nat
    <3>1. \A n \in 2 .. 4 : n > 0 /\ n \in Nat
      OBVIOUS
    <3> QED
      BY <1>3, <3>1, Zenon
  <2>3. IsBuilder(d) /\ Grows(c, d) /\ Pushed(c, w, d)
    BY <1>3, <1>4, <2>1, <2>2, PushedFacts, Zenon
  <2>4. d.vtables = b.vtables /\ d.fields = b.fields /\ d.value = b.value
    BY <1>4, <2>3 DEF Pushed
  <2>5. /\ e.buf = [d.buf EXCEPT ![Size(d) - t + 1] = v - t]
        /\ e.vtables = b.vtables \cup {v} /\ e.fields = b.fields /\ e.value = b.value
    BY <1>5, <2>3, <2>4 DEF IsBuilder
  <2>6. Size(d) = t + Len(w) /\ t \in 1 .. Size(d) /\ Size(d) \in Nat
    BY <1>1, <1>2, <1>4, <2>2, <2>3 DEF Pushed
  <2>7. /\ Size(e) = Size(d) /\ Cell(e, t) = v - t
        /\ \A o \in 1 .. Size(d) : o # t => Cell(e, o) = Cell(d, o)
    <3>1. Replaced(d, e, t, v - t)
      BY <2>3, <2>5, <2>6, CellReplaced, Zenon
    <3> QED
      BY <3>1 DEF Replaced
  <2>8. \A o \in 1 .. Size(b) : Cell(e, o) = Cell(b, o)
    <3> TAKE o \in 1 .. Size(b)
    <3>1. o \in 1 .. Size(c) /\ o \in 1 .. Size(d) /\ o # t
      BY <1>1, <1>2, <1>4, <2>2, <2>6
    <3> QED
      BY <1>4, <2>3, <2>7, <3>1 DEF Grows
  <2>9. /\ Grows(b, e) /\ t + Cell(e, t) = v /\ v \in 1 .. Size(e)
        /\ t \in 1 .. Size(e) /\ Len(w) <= v
    <3>1. v \in Nat /\ Size(e) = v /\ v = t + Len(w) /\ Size(b) <= Size(e) /\ t >= 1
      BY <1>1, <1>2, <2>1, <2>2, <2>6, <2>7
    <3>2. t + (v - t) = v /\ v \in 1 .. v /\ t \in 1 .. v /\ Len(w) <= v
      BY <1>2, <2>2, <3>1
    <3> QED
      BY <2>7, <2>8, <3>1, <3>2 DEF Grows
  <2>10. ASSUME NEW j \in 0 .. Len(w) - 1
         PROVE  Cell(e, v - j) = w[j + 1]
    <3>1. v - j \in 1 .. Size(d) /\ v - j # t
      BY <1>2, <2>1, <2>2, <2>6
    <3>2. Cell(d, v - j) = w[j + 1]
      <4>1. CASE j = 0
        BY <2>1, <2>3, <2>6, <4>1 DEF Pushed
      <4>2. CASE j # 0
        <5>1. j \in 1 .. Len(w) - 1
          BY <2>2, <4>2
        <5> QED
          BY <2>1, <2>3, <5>1 DEF Pushed
      <4> QED
        BY <4>1, <4>2
    <3> QED
      BY <2>7, <3>1, <3>2
  <2>11. Ended(b, e, v, w)
    BY <1>2, <2>5, <2>9, <2>10 DEF Ended
  <2> QED
    BY <1>2, <2>11 DEF e, w
<1> QED
  BY <1>6, <1>7

LEMMA EndGood ==
  ASSUME NEW b, Good(b)
  PROVE  /\ Good(EndTable(b)) /\ Grows(b, EndTable(b))
         /\ IsRecord(EndTable(b), LastTable(b), b.value)
<1> DEFINE t == LastTable(b)
           e == EndTable(b)
           w == VtableOf(b, t)
<1>1. IsBuilder(b) /\ Size(b) \in Nat /\ IsBuilder(e) /\ t = Size(b) + 1 /\ t \in Int
  BY CellType, EndType DEF Good, LastTable
<1>2. PICK v : Ended(b, e, v, w)
  BY EndCells
<1>3. /\ w \in Seq(Int) /\ Len(w) \in 2 .. 4 /\ w[1] = Len(w)
      /\ \A f \in Fields : IF VT[f] < Len(w)
                           THEN w[VT[f] + 1] = IF b.fields[f] = 0 THEN 0 ELSE t - b.fields[f]
                           ELSE b.fields[f] = 0
  BY <1>1, VtableFacts
<1> HIDE DEF e, w, t
<1>4. Grows(b, e) /\ v \in 1 .. Size(e) /\ t \in 1 .. Size(e) /\ t + Cell(e, t) = v /\ Len(w) <= v
  BY <1>2 DEF Ended, t
<1>5. Cell(e, v) = Len(w)
  <2>1. \A n \in 2 .. 4 : 0 \in 0 .. n - 1
    OBVIOUS
  <2>2. v - 0 = v /\ 0 + 1 = 1
    BY <1>4
  <2>3. Cell(e, v - 0) = w[0 + 1]
    BY <1>2, <1>3, <2>1, Zenon DEF Ended
  <2> QED
    BY <1>3, <2>2, <2>3
<1>6. IsVtable(e, v)
  BY <1>3, <1>4, <1>5 DEF IsVtable
<1>7. ASSUME NEW f \in Fields
      PROVE  EntryOf(e, v, f) = IF b.fields[f] = 0 THEN 0 ELSE t - b.fields[f]
  <2>1. VT[f] \in Nat
    BY DEF VT, Fields
  <2>2. CASE VT[f] < Len(w)
    <3>1. VT[f] \in 0 .. Len(w) - 1
      BY <1>3, <2>1, <2>2
    <3> QED
      BY <1>2, <1>3, <1>5, <2>2, <3>1 DEF EntryOf, Ended
  <2>3. CASE ~(VT[f] < Len(w))
    BY <1>3, <1>5, <2>3 DEF EntryOf
  <2> QED
    BY <2>2, <2>3
<1>8. \A f, o, x : IsField(b, f, o, x) => IsField(e, f, o, x)
  BY <1>1, <1>4, FieldStays
<1>9. ASSUME NEW f \in Fields
      PROVE  IF EntryOf(e, v, f) = 0 THEN b.value[f] = <<>>
             ELSE /\ EntryOf(e, v, f) > 0 /\ b.value[f] = <<b.value[f][1]>>
                  /\ IsField(e, f, t - EntryOf(e, v, f), b.value[f][1])
  <2>1. CASE b.fields[f] = 0
    BY <1>7, <2>1 DEF Good, TableSound
  <2>2. CASE b.fields[f] # 0
    <3>1. b.value[f] = <<b.value[f][1]>> /\ IsField(b, f, b.fields[f], b.value[f][1])
      BY <2>2 DEF Good, TableSound
    <3>2. b.fields[f] \in 1 .. Size(b)
      BY <3>1 DEF IsField
    <3>3. EntryOf(e, v, f) = t - b.fields[f]
      BY <1>7, <2>2
    <3>4. t - b.fields[f] > 0 /\ t - (t - b.fields[f]) = b.fields[f]
      BY <1>1, <3>2
    <3> QED
      BY <1>8, <3>1, <3>3, <3>4
  <2> QED
    BY <2>1, <2>2
<1>10. IsRecord(e, t, b.value)
  BY <1>4, <1>6, <1>9 DEF IsRecord
<1>11. TableSound(e)
  <2>1. e.fields = b.fields /\ e.value = b.value
    BY <1>2 DEF Ended
  <2> QED
    BY <1>8, <2>1 DEF Good, TableSound
<1>12. Vtables(e)
  <2>1. e.vtables = b.vtables \cup {v}
    BY <1>2 DEF Ended
  <2>2. \A u \in b.vtables : IsVtable(e, u)
    BY <1>1, <1>4, VtableStays DEF Good, Vtables
  <2> QED
    BY <1>6, <2>1, <2>2 DEF Vtables
<1>13. Good(e)
  BY <1>1, <1>11, <1>12 DEF Good
<1> QED
  BY <1>4, <1>10, <1>13 DEF e, t

-----------------------------------------------------------------------------
(* What the program builds. *)

(***************************************************************************)
(* While a buffer is built, every Offset that the program holds leads to   *)
(* the object it was returned for, every field set so far to its vector,   *)
(* and every vtable that may be shared is one.                             *)
(***************************************************************************)
Kept == Good(fbb) /\ Objects(fbb, made)

\* Objects stay where they are when the buffer grows.
LEMMA ObjectsStay ==
  ASSUME NEW b, NEW c, IsBuilder(b), IsBuilder(c), Grows(b, c), NEW m, Objects(b, m)
  PROVE  Objects(c, m)
<1> SUFFICES ASSUME NEW type \in Types, NEW o \in m[type], IsObject(b, type, o.at, o.value)
             PROVE  IsObject(c, type, o.at, o.value)
  BY DEF Objects
<1>1. CASE type = "string"
  BY <1>1, TextStays DEF IsObject
<1>2. CASE type = "record"
  BY <1>2, RecordStays DEF IsObject
<1>3. CASE type # "string" /\ type # "record"
  BY <1>3, FieldStays DEF IsObject
<1> QED
  BY <1>1, <1>2, <1>3

\* One more object.
LEMMA KeepObject ==
  ASSUME OffsetsMade, NEW b, Objects(b, made), NEW type \in Types, NEW at, NEW value,
         Keep(type, at, value), IsObject(b, type, at, value)
  PROVE  Objects(b, made')
<1>1. made' = [made EXCEPT ![type] = @ \cup {Offset(at, value)}] /\ DOMAIN made = Types
  BY DEF Keep, OffsetsMade
<1>2. Offset(at, value).at = at /\ Offset(at, value).value = value
  BY DEF Offset
<1>3. \A u \in Types : \A o \in made'[u] :
        o \in made[u] \/ (u = type /\ o = Offset(at, value))
  BY <1>1
<1> QED
  BY <1>2, <1>3 DEF Objects

\* Create, of an object that is in the buffer.
LEMMA CreateObject ==
  ASSUME OffsetsMade, Kept, NEW b, Good(b), Grows(fbb, b), NEW type \in Types, NEW value,
         IsObject(b, type, Size(b), value), Create(b, type, value)
  PROVE  Kept'
<1>1. IsBuilder(fbb) /\ IsBuilder(b) /\ Objects(fbb, made)
  BY DEF Kept, Good
<1>2. Objects(b, made)
  BY <1>1, ObjectsStay
<1>3. Keep(type, Size(b), value) /\ fbb' = b
  BY DEF Create
<1>4. Objects(b, made')
  BY <1>2, <1>3, KeepObject
<1> QED
  BY <1>3, <1>4 DEF Kept

\* The texts of a vector, among the strings that are in the buffer.
LEMMA TextsFacts ==
  ASSUME NEW b, Objects(b, made), NEW os \in Texts
  PROVE  \E n \in Nat : /\ DOMAIN os = 1 .. n /\ os = [k \in 1 .. n |-> os[k]]
                        /\ \A k \in 1 .. n : IsText(b, os[k].at, os[k].value)
<1>1. PICK n \in 0 .. MaxStrings : os \in [1 .. n -> made["string"]]
  BY DEF Texts
<1>2. n \in Nat /\ DOMAIN os = 1 .. n /\ os = [k \in 1 .. n |-> os[k]]
  BY <1>1
<1>3. \A k \in 1 .. n : os[k] \in made["string"]
  BY <1>1
<1>4. \A o \in made["string"] : IsText(b, o.at, o.value)
  BY DEF Objects, Types, IsObject
<1> QED
  BY <1>2, <1>3, <1>4

\* Vectors that are created in a builder.
LEMMA VectorsGood ==
  ASSUME NEW b, Good(b), Objects(b, made)
  PROVE  /\ \A q \in Ids : LET c == VectorOfIds(b, q)
                           IN  Good(c) /\ Grows(b, c) /\ IsVector(c, "ids", Size(c), q)
         /\ \A os \in Texts : LET c == VectorOfStrings(b, os)
                              IN  /\ Good(c) /\ Grows(b, c)
                                  /\ IsVector(c, "strings", Size(c), Values(os))
<1>0. IsBuilder(b)
  BY DEF Good
<1>1. ASSUME NEW q \in Ids, NEW c, c = VectorOfIds(b, q)
      PROVE  Good(c) /\ Grows(b, c) /\ IsVector(c, "ids", Size(c), q)
  <2>1. q \in Seq(Int)
    OBVIOUS
  <2>2. IsBuilder(c) /\ Grows(b, c) /\ IsIds(c, Size(c), q)
    BY <1>0, <1>1, <2>1, IdsMade
  <2>3. c.vtables = b.vtables /\ c.fields = b.fields /\ c.value = b.value
    BY <1>0, <1>1 DEF VectorOfIds, Push, IsBuilder
  <2> QED
    BY <2>2, <2>3, GoodStays DEF IsVector
<1>2. ASSUME NEW os \in Texts, NEW c, c = VectorOfStrings(b, os)
      PROVE  Good(c) /\ Grows(b, c) /\ IsVector(c, "strings", Size(c), Values(os))
  <2>1. PICK n \in Nat : /\ DOMAIN os = 1 .. n /\ os = [k \in 1 .. n |-> os[k]]
                         /\ \A k \in 1 .. n : IsText(b, os[k].at, os[k].value)
    BY TextsFacts
  <2>2. IsBuilder(c) /\ Grows(b, c) /\ IsTexts(c, Size(c), Values(os))
    BY <1>0, <1>2, <2>1, TextsMade
  <2>3. c.vtables = b.vtables /\ c.fields = b.fields /\ c.value = b.value
    BY <1>0, <1>2 DEF VectorOfStrings, Push, IsBuilder
  <2> QED
    BY <2>2, <2>3, GoodStays DEF IsVector
<1> QED
  BY <1>1, <1>2

\* CreateRecord, of vectors that are in the buffer or left out.
LEMMA CreateRecordObject ==
  ASSUME OffsetsMade, Kept, NEW b, Good(b), Grows(fbb, b),
         NEW i, i.at \in Int, i = Null \/ IsVector(b, "ids", i.at, i.value),
         NEW s, s.at \in Int, s = Null \/ IsVector(b, "strings", s.at, s.value),
         CreateRecord(b, i, s)
  PROVE  Kept'
<1> DEFINE c == StartTable(b)
           d == AddOffset(c, "strings", s)
           r == AddOffset(d, "ids", i)
           e == EndTable(r)
<1>0. IsBuilder(b) /\ "ids" \in Fields /\ "strings" \in Fields
  BY DEF Good, Fields
<1>1. Good(c) /\ Grows(b, c) /\ IsBuilder(c)
  BY StartGood DEF Good
<1> HIDE DEF c
<1>2. s = Null \/ IsVector(c, "strings", s.at, s.value)
  BY <1>0, <1>1, FieldStays
<1>3. Good(d) /\ Grows(c, d) /\ IsBuilder(d)
  BY <1>0, <1>1, <1>2, AddGood DEF Good
<1> HIDE DEF d
<1>4. i = Null \/ IsVector(d, "ids", i.at, i.value)
  BY <1>0, <1>1, <1>3, FieldStays
<1>5. Good(r) /\ Grows(d, r) /\ IsBuilder(r)
  BY <1>0, <1>3, <1>4, AddGood DEF Good
<1>6. fbb' = e /\ Keep("record", LastTable(r), r.value)
  BY DEF CreateRecord, Record, c, d
<1> HIDE DEF r
<1>7. Good(e) /\ Grows(r, e) /\ IsRecord(e, LastTable(r), r.value) /\ IsBuilder(e)
  BY <1>5, EndGood DEF Good
<1> HIDE DEF e
<1>8. Objects(e, made)
  <2>1. Objects(fbb, made) /\ IsBuilder(fbb)
    BY DEF Kept, Good
  <2>2. Objects(b, made)
    BY <1>0, <2>1, ObjectsStay
  <2>3. Objects(c, made)
    BY <1>0, <1>1, <2>2, ObjectsStay
  <2>4. Objects(d, made)
    BY <1>1, <1>3, <2>3, ObjectsStay
  <2>5. Objects(r, made)
    BY <1>3, <1>5, <2>4, ObjectsStay
  <2> QED
    BY <1>5, <1>7, <2>5, ObjectsStay
<1>9. Objects(e, made')
  BY <1>6, <1>7, <1>8, KeepObject DEF IsObject, Types
<1> QED
  BY <1>6, <1>7, <1>9 DEF Kept

-----------------------------------------------------------------------------
(* What the reader finds. *)

(***************************************************************************)
(* The buffer d, finished from b, leads to a record of the value, which,   *)
(* like its vtable, lies behind what d starts with.                        *)
(***************************************************************************)
Finished(b, d, first, value) ==
  /\ d = b.buf /\ 2 * Len(d) < Wrap
  /\ first = 1 => d[1] = Len(d) - 1
  /\ \E t \in 1 .. Len(d) - first - 1 :
       /\ d[first + 1] = Len(d) - first - t
       /\ t + Cell(b, t) < Len(d)
       /\ IsRecord(b, t, value)

LEMMA FinishBuffer ==
  ASSUME OffsetsMade, Kept, NEW prefixed \in BOOLEAN, FinishRecordBuffer(prefixed)
  PROVE  Finished(fbb', data', start', root')
<1>1. PICK r \in made["record"] :
        LET b == Push(fbb, <<ReferTo(fbb, r.at)>>)
            whole == IF prefixed THEN Push(b, <<Size(b)>>) ELSE b
        IN  /\ 2 * Size(whole) < Wrap
            /\ data' = whole.buf /\ fbb' = whole /\ root' = r.value
  BY DEF FinishRecordBuffer
<1> DEFINE t == r.at
           cells == <<ReferTo(fbb, t)>>
           b == Push(fbb, cells)
           prefix == <<Size(b)>>
           whole == IF prefixed THEN Push(b, prefix) ELSE b
<1>2. /\ 2 * Size(whole) < Wrap /\ data' = whole.buf /\ fbb' = whole /\ root' = r.value
      /\ start' = IF prefixed THEN 1 ELSE 0
  BY <1>1 DEF FinishRecordBuffer
<1>3. IsBuilder(fbb) /\ Size(fbb) \in Nat /\ IsRecord(fbb, t, r.value)
  BY CellType DEF Kept, Good, Objects, IsObject, Types
<1>4. t \in 1 .. Size(fbb) /\ t + Cell(fbb, t) \in 1 .. Size(fbb)
  BY <1>3 DEF IsRecord, IsVtable
<1>5. cells \in Seq(Int) /\ Len(cells) = 1 /\ Len(cells) > 0 /\ cells[1] = Size(fbb) + 1 - t
  BY <1>3, <1>4 DEF ReferTo
<1>6. /\ IsBuilder(b) /\ Grows(fbb, b) /\ Size(b) = Size(fbb) + 1 /\ Size(b) \in Nat
      /\ Cell(b, Size(b)) = Size(fbb) + 1 - t
  <2> HIDE DEF cells
  <2>1. b = Push(fbb, cells)
    OBVIOUS
  <2> HIDE DEF b
  <2>2. IsBuilder(b) /\ Grows(fbb, b) /\ Pushed(fbb, cells, b)
    BY <1>3, <1>5, <2>1, PushedFacts, Zenon
  <2> QED
    BY <1>5, <2>2 DEF Pushed
<1> HIDE DEF cells, b
<1>7. prefix \in Seq(Int) /\ Len(prefix) = 1 /\ Len(prefix) > 0 /\ prefix[1] = Size(b)
  BY <1>6
<1> HIDE DEF prefix
<1>8. \A c : c.buf = data' => Len(data') = Size(c) /\ \A k \in Int : data'[k] = Cell(c, Size(c) - k + 1)
  <2> TAKE c
  <2> HAVE c.buf = data'
  <2>1. Size(c) = Len(data')
    BY DEF Size
  <2>2. IsBuilder(whole)
    BY <1>6, <1>7, PushType
  <2>3. Len(data') \in Nat
    BY <1>2, <2>2 DEF IsBuilder
  <2>4. \A k \in Int : Len(data') - (Len(data') - k + 1) + 1 = k
    BY <2>3
  <2> QED
    BY <2>1, <2>4 DEF Cell
<1>9. CASE ~prefixed
  <2>1. /\ fbb' = b /\ data' = b.buf /\ start' = 0 /\ root' = r.value /\ 2 * Size(b) < Wrap
    BY <1>2, <1>9
  <2>2. Len(data') = Size(b) /\ data'[1] = Cell(b, Size(b) - 1 + 1)
    <3>1. b.buf = data' /\ 1 \in Int
      BY <2>1
    <3> QED
      BY <1>8, <3>1, Zenon
  <2>3. Size(b) - 1 + 1 = Size(b) /\ Size(b) - 0 - t = Size(fbb) + 1 - t /\ 0 + 1 = 1
    BY <1>3, <1>4, <1>6
  <2>4. data'[0 + 1] = Len(data') - 0 - t
    BY <1>6, <2>2, <2>3
  <2>5. t \in 1 .. Len(data') - 0 - 1 /\ t + Cell(b, t) < Len(data')
    <3>1. Cell(b, t) = Cell(fbb, t)
      BY <1>4, <1>6 DEF Grows
    <3> QED
      BY <1>3, <1>4, <1>6, <2>2, <3>1
  <2>6. IsRecord(b, t, r.value)
    BY <1>3, <1>6, RecordStays
  <2>7. Finished(b, data', 0, r.value)
    BY <2>1, <2>2, <2>4, <2>5, <2>6 DEF Finished
  <2> QED
    BY <2>1, <2>7
<1>10. CASE prefixed
  <2>1. /\ fbb' = whole /\ data' = whole.buf /\ start' = 1 /\ root' = r.value
        /\ 2 * Size(whole) < Wrap /\ whole = Push(b, prefix)
    BY <1>2, <1>10
  <2> HIDE DEF whole
  <2>2. IsBuilder(whole) /\ Grows(b, whole) /\ Pushed(b, prefix, whole)
    BY <1>6, <1>7, <2>1, PushedFacts, Zenon
  <2>3. /\ Size(whole) = Size(b) + 1 /\ Size(whole) \in Nat
        /\ Cell(whole, Size(whole)) = Size(b)
        /\ Cell(whole, Size(b)) = Size(fbb) + 1 - t
    <3>1. Size(b) \in 1 .. Size(b)
      BY <1>3, <1>6
    <3> QED
      BY <1>6, <1>7, <2>2, <3>1 DEF Pushed, Grows
  <2>4. /\ Len(data') = Size(whole) /\ data'[1] = Cell(whole, Size(whole) - 1 + 1)
        /\ data'[2] = Cell(whole, Size(whole) - 2 + 1)
    <3>1. whole.buf = data' /\ 1 \in Int /\ 2 \in Int
      BY <2>1
    <3> QED
      BY <1>8, <3>1, Zenon
  <2>5. /\ Size(whole) - 1 + 1 = Size(whole) /\ Size(whole) - 2 + 1 = Size(b)
        /\ Size(whole) - 1 - t = Size(fbb) + 1 - t /\ 1 + 1 = 2 /\ Size(b) = Size(whole) - 1
    BY <1>3, <1>4, <1>6, <2>3
  <2>6. data'[1 + 1] = Len(data') - 1 - t /\ data'[1] = Len(data') - 1
    BY <2>3, <2>4, <2>5
  <2>7. t \in 1 .. Len(data') - 1 - 1 /\ t + Cell(whole, t) < Len(data')
    <3>1. Cell(whole, t) = Cell(fbb, t)
      <4>1. t \in 1 .. Size(b)
        BY <1>3, <1>4, <1>6
      <4> QED
        BY <1>4, <1>6, <2>2, <4>1 DEF Grows
    <3> QED
      BY <1>3, <1>4, <1>6, <2>3, <2>4, <3>1
  <2>8. IsRecord(whole, t, r.value)
    <3>1. IsRecord(b, t, r.value)
      BY <1>3, <1>6, RecordStays
    <3> QED
      BY <1>6, <2>2, <3>1, RecordStays
  <2>9. Finished(whole, data', 1, r.value)
    BY <2>1, <2>4, <2>6, <2>7, <2>8 DEF Finished
  <2> QED
    BY <2>1, <2>9
<1> QED
  BY <1>9, <1>10

\* A buffer that is as it was built.
AsBuilt == IsBuilder(fbb) /\ IsBuffer /\ Finished(fbb, data, start, root)

\* Its cells, counted from its start and from its end.
LEMMA ReadCells ==
  ASSUME AsBuilt
  PROVE  /\ Len(data) \in Nat /\ Len(data) < Wrap /\ Size(fbb) = Len(data)
         /\ \A o \in 1 .. Len(data) : At(Len(data) - o) = Cell(fbb, o)
         /\ \A o \in 1 .. Len(data) :
              Cell(fbb, o) \in 0 .. Len(data) => U(Len(data) - o) = Cell(fbb, o)
         /\ \A o \in 1 .. Len(data), k \in Nat :
              k <= o /\ k < Len(data) => In(Len(data) - o, k)
<1> DEFINE n == Len(data)
<1>1. n \in Nat /\ Wrap \in Nat /\ 2 * n < Wrap /\ data = fbb.buf
  BY DEF AsBuilt, IsBuffer, Finished
<1>2. Size(fbb) = n
  BY <1>1 DEF Size
<1> HIDE DEF n
<1>3. n < Wrap
  BY <1>1
<1>4. ASSUME NEW o \in 1 .. n PROVE At(n - o) = Cell(fbb, o)
  <2>1. n - o \in 0 .. n - 1
    BY <1>1
  <2> QED
    BY <1>1, <1>2, <2>1 DEF At, Cell, n
<1>5. ASSUME NEW o \in 1 .. n, Cell(fbb, o) \in 0 .. n
      PROVE  U(n - o) = Cell(fbb, o)
  <2>1. \A x \in 0 .. n : x % Wrap = x
    BY <1>1, <1>3
  <2> QED
    BY <1>4, <1>5, <2>1 DEF U
<1>6. ASSUME NEW o \in 1 .. n, NEW k \in Nat, k <= o, k < n
      PROVE  In(n - o, k)
  <2>1. n - o \in 0 .. n - k
    BY <1>1, <1>6
  <2> QED
    BY <1>6, <2>1 DEF In, n
<1> QED
  BY <1>1, <1>2, <1>3, <1>4, <1>5, <1>6 DEF n

\* The root leads to the table, and that to its vtable.
LEMMA ReadTable ==
  ASSUME AsBuilt
  PROVE  \E t, v \in 1 .. Len(data) - 1 :
           /\ Leads(start) /\ (start = 1 => U(0) = Len(data) - 1) /\ Rooted /\ Tabled
           /\ Table = Len(data) - t /\ v = t + Cell(fbb, t) /\ IsRecord(fbb, t, root)
           /\ \A f \in Fields : EntryOf(fbb, v, f) \in 0 .. Len(data) => Entry(f) = EntryOf(fbb, v, f)
<1> DEFINE n == Len(data)
<1>1. PICK t \in 1 .. n - start - 1 :
        data[start + 1] = n - start - t /\ t + Cell(fbb, t) < n /\ IsRecord(fbb, t, root)
  BY DEF AsBuilt, Finished
<1> DEFINE v == t + Cell(fbb, t)
<1>2. n \in Nat /\ start \in {0, 1} /\ IsBuffer
  BY ReadCells DEF AsBuilt, IsBuffer
<1>3. /\ Size(fbb) = n
      /\ \A o \in 1 .. n : At(n - o) = Cell(fbb, o)
      /\ \A o \in 1 .. n : Cell(fbb, o) \in 0 .. n => U(n - o) = Cell(fbb, o)
      /\ \A o \in 1 .. n, k \in Nat : k <= o /\ k < n => In(n - o, k)
  BY ReadCells
<1>4. start = 1 => data[1] = n - 1
  BY DEF AsBuilt, Finished
<1>5. n < Wrap /\ Wrap \in Nat
  BY ReadCells
<1>6. IsVtable(fbb, v)
  BY <1>1 DEF IsRecord
<1> HIDE DEF n
<1>7. t \in 1 .. n /\ t \in 1 .. n - 1 /\ n >= 2 /\ n - start \in 1 .. n
  BY <1>1, <1>2
<1>8. \A p \in 0 .. n - 1 : data[p + 1] \in 0 .. n => U(p) = data[p + 1]
  <2>1. \A x \in 0 .. n : x % Wrap = x
    BY <1>2, <1>5
  <2> QED
    BY <2>1 DEF U, At, n
<1>9. U(start) = n - start - t
  <2>1. start \in 0 .. n - 1 /\ n - start - t \in 0 .. n
    BY <1>1, <1>2
  <2> QED
    BY <1>1, <1>8, <2>1
<1>10. Table = n - t
  BY <1>2, <1>7, <1>9 DEF Table
<1>11. start = 1 => U(0) = n - 1
  <2>1. 0 \in 0 .. n - 1 /\ n - 1 \in 0 .. n /\ 0 + 1 = 1
    BY <1>2, <1>7
  <2> QED
    BY <1>4, <1>8, <2>1
<1>12. In(start, 1) /\ In(Table, 1)
  <2>1. 1 \in Nat /\ 1 <= t /\ 1 < n /\ 1 <= n - start /\ n - (n - start) = start
    BY <1>2, <1>7
  <2>2. In(n - (n - start), 1)
    BY <1>3, <1>7, <2>1
  <2>3. In(n - t, 1)
    BY <1>3, <1>7, <2>1
  <2> QED
    BY <1>10, <2>1, <2>2, <2>3
<1>13. Leads(start)
  <2>1. U(start) # 0
    BY <1>1, <1>2, <1>9
  <2> QED
    BY <1>12, <2>1 DEF Leads, Table
<1>14. v \in 1 .. n - 1 /\ v \in 1 .. n /\ Cell(fbb, v) \in 2 .. 4 /\ Cell(fbb, v) <= v
  BY <1>1, <1>2, <1>3, <1>6 DEF IsVtable
<1>15. Vtable = n - v
  <2>1. At(Table) = Cell(fbb, t) /\ Cell(fbb, t) \in Int
    <3>1. Cell(fbb, t) \in Int
      BY <1>3, <1>7, CellType DEF AsBuilt
    <3> QED
      BY <1>3, <1>7, <1>10, <3>1
  <2> QED
    BY <1>2, <1>7, <1>10, <2>1 DEF Vtable
<1> HIDE DEF v
<1>16. U(Vtable) = Cell(fbb, v)
  <2>1. Cell(fbb, v) \in 0 .. n
    BY <1>2, <1>14
  <2> QED
    BY <1>3, <1>14, <1>15, <2>1
<1>17. Tabled
  <2>1. 1 \in Nat /\ 1 <= v /\ 1 < n /\ Cell(fbb, v) \in Nat /\ Cell(fbb, v) < n
    BY <1>2, <1>7, <1>14
  <2>2. In(n - v, 1) /\ In(n - v, Cell(fbb, v))
    BY <1>3, <1>14, <2>1
  <2> QED
    BY <1>15, <1>16, <2>2 DEF Tabled
<1>18. ASSUME NEW f \in Fields, EntryOf(fbb, v, f) \in 0 .. n
       PROVE  Entry(f) = EntryOf(fbb, v, f)
  <2>1. VT[f] \in 2 .. 3
    BY DEF VT, Fields
  <2>2. CASE VT[f] < Cell(fbb, v)
    <3>1. v - VT[f] \in 1 .. n /\ n - (v - VT[f]) = (n - v) + VT[f]
      BY <1>2, <1>14, <2>1, <2>2
    <3>2. Cell(fbb, v - VT[f]) = EntryOf(fbb, v, f)
      BY <2>2 DEF EntryOf
    <3>3. U(n - (v - VT[f])) = EntryOf(fbb, v, f)
      BY <1>3, <1>18, <3>1, <3>2
    <3>4. Entry(f) = U(Vtable + VT[f])
      BY <1>16, <2>2 DEF Entry
    <3> QED
      BY <1>15, <3>1, <3>3, <3>4
  <2>3. CASE ~(VT[f] < Cell(fbb, v))
    BY <1>16, <2>3 DEF Entry, EntryOf
  <2> QED
    BY <2>2, <2>3
<1>19. Rooted
  BY <1>12 DEF Rooted
<1> QED
  BY <1>1, <1>7, <1>10, <1>11, <1>13, <1>14, <1>17, <1>18, <1>19 DEF n, v

\* A field that is set leads to its vector.
LEMMA ReadField ==
  ASSUME AsBuilt, NEW f \in Fields
  PROVE  \/ Entry(f) = 0 /\ root[f] = <<>>
         \/ \E o \in 1 .. Len(data) - 1 :
              /\ Entry(f) # 0 /\ Leads(Field(f)) /\ Pointer(f) = Len(data) - o
              /\ root[f] = <<root[f][1]>> /\ IsVector(fbb, f, o, root[f][1])
<1> DEFINE n == Len(data)
<1>1. PICK t, v \in 1 .. n - 1 :
        /\ Table = n - t /\ v = t + Cell(fbb, t) /\ IsRecord(fbb, t, root)
        /\ \A g \in Fields : EntryOf(fbb, v, g) \in 0 .. n => Entry(g) = EntryOf(fbb, v, g)
  BY ReadTable
<1>2. /\ n \in Nat /\ Size(fbb) = n
      /\ \A o \in 1 .. n : Cell(fbb, o) \in 0 .. n => U(n - o) = Cell(fbb, o)
      /\ \A o \in 1 .. n, k \in Nat : k <= o /\ k < n => In(n - o, k)
  BY ReadCells
<1> HIDE DEF n
<1> DEFINE e == EntryOf(fbb, v, f)
<1>3. IF e = 0 THEN root[f] = <<>>
      ELSE e > 0 /\ root[f] = <<root[f][1]>> /\ IsField(fbb, f, t - e, root[f][1])
  BY <1>1 DEF IsRecord
<1>4. CASE e = 0
  <2>1. e \in 0 .. n
    BY <1>2, <1>4
  <2> QED
    BY <1>1, <1>3, <1>4, <2>1
<1>5. CASE e # 0
  <2>1. e > 0 /\ root[f] = <<root[f][1]>> /\ IsField(fbb, f, t - e, root[f][1])
    BY <1>3, <1>5
  <2>2. e \in Int
    <3>1. VT[f] \in 2 .. 3 /\ IsVtable(fbb, v)
      BY <1>1 DEF VT, Fields, IsRecord
    <3>2. VT[f] < Cell(fbb, v) => v - VT[f] \in 1 .. Size(fbb)
      BY <1>1, <1>2, <3>1 DEF IsVtable
    <3> QED
      BY <3>2, CellType DEF EntryOf, AsBuilt
  <2> HIDE DEF e
  <2> DEFINE c == t - e
  <2>3. c \in 1 .. n /\ Cell(fbb, c) > 0 /\ IsVector(fbb, f, To(fbb, c), root[f][1])
    BY <1>2, <2>1 DEF IsField
  <2>4. e \in 0 .. n /\ c < n
    BY <1>1, <1>2, <2>1, <2>2, <2>3
  <2>5. Field(f) = n - c
    <3>1. Entry(f) = e
      BY <1>1, <2>4 DEF e
    <3> QED
      BY <1>1, <1>2, <2>2, <3>1 DEF Field
  <2> HIDE DEF c
  <2> DEFINE o == To(fbb, c)
  <2>6. o \in Nat /\ o > 0 /\ Cell(fbb, c) \in Int
    <3>1. o > 0
      BY <2>3 DEF IsVector, IsIds, IsTexts
    <3>2. Cell(fbb, c) \in Int
      BY <1>2, <2>3, CellType DEF AsBuilt
    <3> QED
      BY <2>3, <3>1, <3>2 DEF To
  <2>7. Cell(fbb, c) \in 0 .. n /\ o \in 1 .. n - 1 /\ (n - c) + Cell(fbb, c) = n - o
    BY <1>2, <2>3, <2>4, <2>6 DEF To
  <2>8. U(Field(f)) = Cell(fbb, c)
    BY <1>2, <2>3, <2>5, <2>7
  <2>9. Pointer(f) = n - o
    BY <2>5, <2>7, <2>8 DEF Pointer
  <2>10. Leads(Field(f))
    <3>1. 1 \in Nat /\ 1 <= c /\ 1 <= o /\ 1 < n /\ o \in 1 .. n
      BY <1>2, <2>3, <2>7
    <3>2. In(n - c, 1) /\ In(n - o, 1)
      BY <1>2, <2>3, <3>1
    <3> QED
      BY <2>3, <2>5, <2>7, <2>8, <3>2 DEF Leads
  <2>11. Entry(f) # 0
    BY <1>1, <1>5, <2>4 DEF e
  <2> QED
    BY <2>1, <2>3, <2>7, <2>9, <2>10, <2>11 DEF n
<1> QED
  BY <1>4, <1>5

\* A string, and what is read of it.
LEMMA ReadText ==
  ASSUME AsBuilt, NEW o, NEW s, IsText(fbb, o, s)
  PROVE  SoundText(Len(data) - o) /\ Cells(Len(data) - o) = s
<1> DEFINE n == Len(data)
           p == n - o
<1>1. /\ n \in Nat /\ Size(fbb) = n
      /\ \A i \in 1 .. n : At(n - i) = Cell(fbb, i)
      /\ \A i \in 1 .. n : Cell(fbb, i) \in 0 .. n => U(n - i) = Cell(fbb, i)
      /\ \A i \in 1 .. n, k \in Nat : k <= i /\ k < n => In(n - i, k)
  BY ReadCells
<1>2. /\ s \in Seq(Int) /\ o \in Int /\ o <= n /\ Len(s) + 2 <= o
      /\ Cell(fbb, o) = Len(s) /\ Cell(fbb, o - Len(s) - 1) = 0
      /\ \A k \in 1 .. Len(s) : Cell(fbb, o - k) = s[k]
  BY <1>1 DEF IsText
<1>3. Len(s) \in Nat
  BY <1>2
<1> HIDE DEF n
<1>4. /\ o \in 1 .. n /\ Len(s) \in 0 .. n /\ 1 <= o /\ 1 < n /\ 1 \in Nat
      /\ 1 + Len(s) \in Nat /\ 1 + Len(s) <= o /\ 1 + Len(s) < n
      /\ o - Len(s) - 1 \in 1 .. n /\ n - (o - Len(s) - 1) = (n - o) + 1 + Len(s)
      /\ 1 <= o - Len(s) - 1
  BY <1>1, <1>2, <1>3
<1>5. U(p) = Len(s)
  BY <1>1, <1>2, <1>4
<1>6. Sound(p)
  <2>1. In(n - o, 1) /\ In(n - o, 1 + Len(s))
    BY <1>1, <1>4
  <2> QED
    BY <1>5, <2>1 DEF Sound
<1>7. Terminator(p) = n - (o - Len(s) - 1)
  BY <1>4, <1>5 DEF Terminator
<1>8. SoundText(p)
  <2>1. In(n - (o - Len(s) - 1), 1)
    BY <1>1, <1>4
  <2>2. At(n - (o - Len(s) - 1)) = 0
    BY <1>1, <1>2, <1>4
  <2> QED
    BY <1>6, <1>7, <2>1, <2>2 DEF SoundText
<1>9. ASSUME NEW k \in 1 .. Len(s) PROVE At(p + k) = s[k]
  <2>1. o - k \in 1 .. n /\ n - (o - k) = (n - o) + k
    BY <1>1, <1>2, <1>3
  <2> QED
    BY <1>1, <1>2, <2>1
<1>10. Cells(p) = s
  <2>1. s = [k \in 1 .. Len(s) |-> s[k]]
    BY <1>2
  <2>2. Cells(p) = [k \in 1 .. Len(s) |-> At(p + k)]
    BY <1>5 DEF Cells
  <2> QED
    BY <1>9, <2>1, <2>2
<1> QED
  BY <1>8, <1>10 DEF n

\* A vector of integers.
LEMMA ReadIds ==
  ASSUME AsBuilt, NEW o \in 1 .. Len(data) - 1, NEW q, IsIds(fbb, o, q)
  PROVE  Sound(Len(data) - o) /\ Cells(Len(data) - o) = q
<1> DEFINE n == Len(data)
           p == n - o
<1>1. /\ n \in Nat /\ Size(fbb) = n
      /\ \A i \in 1 .. n : At(n - i) = Cell(fbb, i)
      /\ \A i \in 1 .. n : Cell(fbb, i) \in 0 .. n => U(n - i) = Cell(fbb, i)
      /\ \A i \in 1 .. n, k \in Nat : k <= i /\ k < n => In(n - i, k)
  BY ReadCells
<1>2. /\ q \in Seq(Int) /\ Len(q) < o /\ Cell(fbb, o) = Len(q) /\ o \in 1 .. n - 1
      /\ \A k \in 1 .. Len(q) : Cell(fbb, o - k) = q[k]
  BY <1>1 DEF IsIds
<1>3. Len(q) \in Nat
  BY <1>2
<1> HIDE DEF n
<1>4. /\ o \in 1 .. n /\ Len(q) \in 0 .. n /\ 1 <= o /\ 1 < n /\ 1 \in Nat
      /\ 1 + Len(q) \in Nat /\ 1 + Len(q) <= o /\ 1 + Len(q) < n
  BY <1>1, <1>2, <1>3
<1>5. U(p) = Len(q)
  BY <1>1, <1>2, <1>4
<1>6. Sound(p)
  <2>1. In(n - o, 1) /\ In(n - o, 1 + Len(q))
    BY <1>1, <1>4
  <2> QED
    BY <1>5, <2>1 DEF Sound
<1>7. ASSUME NEW k \in 1 .. Len(q) PROVE At(p + k) = q[k]
  <2>1. o - k \in 1 .. n /\ n - (o - k) = (n - o) + k
    BY <1>1, <1>2, <1>3
  <2> QED
    BY <1>1, <1>2, <2>1
<1>8. Cells(p) = q
  <2>1. q = [k \in 1 .. Len(q) |-> q[k]]
    BY <1>2
  <2>2. Cells(p) = [k \in 1 .. Len(q) |-> At(p + k)]
    BY <1>5 DEF Cells
  <2> QED
    BY <1>7, <2>1, <2>2
<1> QED
  BY <1>6, <1>8 DEF n

\* A vector of strings.
LEMMA ReadTexts ==
  ASSUME AsBuilt, NEW o \in 1 .. Len(data) - 1, NEW vs, IsTexts(fbb, o, vs),
         Pointer("strings") = Len(data) - o, Entry("strings") # 0
  PROVE  /\ Sound(Len(data) - o) /\ TextsSound
         /\ [k \in Elements("strings") |-> Cells(Text(k))] = vs
<1> DEFINE n == Len(data)
           p == n - o
<1>1. /\ n \in Nat /\ Size(fbb) = n
      /\ \A i \in 1 .. n : At(n - i) = Cell(fbb, i)
      /\ \A i \in 1 .. n : Cell(fbb, i) \in 0 .. n => U(n - i) = Cell(fbb, i)
      /\ \A i \in 1 .. n, k \in Nat : k <= i /\ k < n => In(n - i, k)
  BY ReadCells
<1>2. /\ Len(vs) \in Nat /\ vs = [k \in 1 .. Len(vs) |-> vs[k]]
      /\ Len(vs) < o /\ Cell(fbb, o) = Len(vs) /\ o \in 1 .. n - 1
      /\ \A k \in 1 .. Len(vs) : Cell(fbb, o - k) > 0 /\ IsText(fbb, To(fbb, o - k), vs[k])
  BY <1>1 DEF IsTexts
<1> HIDE DEF n
<1>3. /\ o \in 1 .. n /\ Len(vs) \in 0 .. n /\ 1 <= o /\ 1 < n /\ 1 \in Nat
      /\ 1 + Len(vs) \in Nat /\ 1 + Len(vs) <= o /\ 1 + Len(vs) < n
  BY <1>1, <1>2
<1>4. U(p) = Len(vs)
  BY <1>1, <1>2, <1>3
<1>5. Sound(p)
  <2>1. In(n - o, 1) /\ In(n - o, 1 + Len(vs))
    BY <1>1, <1>3
  <2> QED
    BY <1>4, <2>1 DEF Sound
<1>6. Elements("strings") = 1 .. Len(vs)
  BY <1>4 DEF Elements, n
<1>7. ASSUME NEW k \in 1 .. Len(vs)
      PROVE  SoundText(Text(k)) /\ Cells(Text(k)) = vs[k]
  <2> DEFINE c == o - k
             x == To(fbb, c)
  <2>1. c \in 1 .. n /\ n - c = p + k
    BY <1>1, <1>2
  <2>2. Cell(fbb, c) > 0 /\ IsText(fbb, x, vs[k])
    BY <1>2
  <2>3. Cell(fbb, c) \in Int
    BY <1>1, <2>1, CellType DEF AsBuilt
  <2> HIDE DEF c
  <2>4. x \in Int /\ x > 0
    <3>1. vs[k] \in Seq(Int) /\ Len(vs[k]) + 2 <= x /\ x \in Int
      BY <2>2 DEF IsText
    <3>2. Len(vs[k]) \in Nat
      BY <3>1
    <3> QED
      BY <3>1, <3>2
  <2>5. Cell(fbb, c) \in 0 .. n /\ (n - c) + Cell(fbb, c) = n - x
    <3>1. x = c - Cell(fbb, c) /\ c \in Int /\ c <= n
      BY <1>1, <2>1 DEF To
    <3> DEFINE a == Cell(fbb, c)
    <3>2. a \in Int /\ a > 0 /\ x = c - a
      BY <2>2, <2>3, <3>1
    <3> HIDE DEF a, x
    <3>3. n \in Int /\ x > 0
      BY <1>1, <2>4
    <3>4. a \in 0 .. n /\ (n - c) + a = n - x
      BY <3>1, <3>2, <3>3
    <3> QED
      BY <3>4 DEF a
  <2>6. U(n - c) = Cell(fbb, c)
    BY <1>1, <2>1, <2>5
  <2>7. Text(k) = n - x
    BY <2>1, <2>5, <2>6 DEF Text, n
  <2> QED
    BY <2>2, <2>7, ReadText DEF n
<1>8. TextsSound
  BY <1>6, <1>7 DEF TextsSound
<1>9. [k \in Elements("strings") |-> Cells(Text(k))] = vs
  BY <1>2, <1>6, <1>7
<1> QED
  BY <1>5, <1>8, <1>9 DEF n

(***************************************************************************)
(* A buffer that is as it was built passes every check, and is read as     *)
(* what it was built from.                                                 *)
(***************************************************************************)
LEMMA ReadRecord ==
  ASSUME AsBuilt
  PROVE  /\ Leads(start) /\ (start = 1 => U(0) = Len(data) - 1) /\ Rooted /\ Tabled
         /\ \A f \in Fields : FieldSound(f) /\ VectorSound(f)
         /\ TextsSound
         /\ ids = root["ids"] /\ strings = root["strings"]
<1>1. Leads(start) /\ (start = 1 => U(0) = Len(data) - 1) /\ Rooted /\ Tabled
  BY ReadTable
<1>2. FieldSound("ids") /\ VectorSound("ids") /\ ids = root["ids"]
  <2>1. CASE Entry("ids") = 0 /\ root["ids"] = <<>>
    BY <2>1 DEF FieldSound, VectorSound, ids
  <2>2. ASSUME NEW o \in 1 .. Len(data) - 1, Entry("ids") # 0, Leads(Field("ids")),
               Pointer("ids") = Len(data) - o, root["ids"] = <<root["ids"][1]>>,
               IsVector(fbb, "ids", o, root["ids"][1])
        PROVE  FieldSound("ids") /\ VectorSound("ids") /\ ids = root["ids"]
    <3>1. IsIds(fbb, o, root["ids"][1])
      BY <2>2 DEF IsVector
    <3>2. Sound(Pointer("ids")) /\ Cells(Pointer("ids")) = root["ids"][1]
      BY <2>2, <3>1, ReadIds
    <3>3. ids = <<Cells(Pointer("ids"))>>
      BY <2>2 DEF ids
    <3>4. FieldSound("ids") /\ VectorSound("ids")
      BY <2>2, <3>2 DEF FieldSound, VectorSound
    <3> QED
      BY <2>2, <3>2, <3>3, <3>4, Zenon
  <2> QED
    BY <2>1, <2>2, ReadField DEF Fields
<1>3. FieldSound("strings") /\ VectorSound("strings") /\ TextsSound /\ strings = root["strings"]
  <2>1. CASE Entry("strings") = 0 /\ root["strings"] = <<>>
    BY <2>1 DEF FieldSound, VectorSound, strings, TextsSound, Elements
  <2>2. ASSUME NEW o \in 1 .. Len(data) - 1, Entry("strings") # 0, Leads(Field("strings")),
               Pointer("strings") = Len(data) - o, root["strings"] = <<root["strings"][1]>>,
               IsVector(fbb, "strings", o, root["strings"][1])
        PROVE  FieldSound("strings") /\ VectorSound("strings") /\ TextsSound /\ strings = root["strings"]
    <3>1. IsTexts(fbb, o, root["strings"][1])
      BY <2>2 DEF IsVector
    <3>2. /\ Sound(Pointer("strings")) /\ TextsSound
          /\ [k \in Elements("strings") |-> Cells(Text(k))] = root["strings"][1]
      BY <2>2, <3>1, ReadTexts
    <3>3. strings = <<[k \in Elements("strings") |-> Cells(Text(k))]>>
      BY <2>2 DEF strings
    <3>4. FieldSound("strings") /\ VectorSound("strings")
      BY <2>2, <3>2 DEF FieldSound, VectorSound
    <3> QED
      BY <2>2, <3>2, <3>3, <3>4, Zenon
  <2> QED
    BY <2>1, <2>2, ReadField DEF Fields
<1> QED
  BY <1>1, <1>2, <1>3 DEF Fields

\* Then the accessors look inside only.
LEMMA ReadInside ==
  ASSUME AsBuilt, GetRecord
  PROVE  \A p \in touched' : p \in 0 .. Len(data) - 1
<1>1. /\ IsBuffer /\ Rooted /\ Tabled /\ TextsSound /\ "ids" \in Fields /\ "strings" \in Fields
      /\ \A f \in Fields : FieldSound(f) /\ VectorSound(f)
  BY ReadRecord DEF AsBuilt, Fields
<1>2. \A p \in VectorCellsOf("ids") \cup VectorCellsOf("strings") : p \in 0 .. Len(data) - 1
  BY <1>1, VectorInside
<1>3. \A k \in Elements("strings") : \A p \in Text(k) .. Terminator(Text(k)) : p \in 0 .. Len(data) - 1
  BY <1>1, TextInside DEF TextsSound
<1> QED
  BY <1>2, <1>3 DEF GetRecord

-----------------------------------------------------------------------------
(* The steps of the program, again. *)

(***************************************************************************)
(* While the buffer is built it is sound; as long as nothing damages it    *)
(* then, it is what was built, and whatever has come of it is what should. *)
(***************************************************************************)
Faithful ==
  /\ damages \in Nat
  /\ pc = "build" => Kept /\ damages = 0
  /\ pc # "build" /\ damages = 0 => Finished(fbb, data, start, root)
  /\ BuiltIsAccepted
  /\ pc \in {"read", "trusted"} /\ damages = 0 => Inside

LEMMA InitFaithful == Init => Faithful
<1> SUFFICES ASSUME Init PROVE Faithful
  OBVIOUS
<1>1. IsBuilder(fbb)
  BY DEF Init, IsBuilder
<1>2. TableSound(fbb) /\ Vtables(fbb)
  BY DEF Init, TableSound, Vtables, Absent
<1>3. Objects(fbb, made)
  BY DEF Init, Objects, Types
<1> QED
  BY <1>1, <1>2, <1>3 DEF Init, Faithful, Kept, Good, BuiltIsAccepted

\* A call that adds to the buffer.
LEMMA BuildFaithful ==
  ASSUME Faithful, pc = "build", Kept', Unchanged
  PROVE  Faithful'
BY DEF Faithful, Unchanged, BuiltIsAccepted

\* A check that a buffer passes if it is as it was built.
LEMMA CheckFaithful ==
  ASSUME IInv, Faithful, UNCHANGED <<built, data, start, damages>>,
         pc \notin {"build", "refused", "read", "trusted"},
         pc' \notin {"build", "read", "trusted"}, AsBuilt => pc' # "refused"
  PROVE  Faithful'
<1>1. UNCHANGED <<fbb, made, root, data, start, damages>>
  BY DEF built
<1>2. damages = 0 => AsBuilt
  BY DEF Faithful, AsBuilt, IInv
<1> QED
  BY <1>1, <1>2 DEF Faithful, BuiltIsAccepted

LEMMA VerifyFaithful ==
  ASSUME IInv, Faithful, VerifyBuffer \/ Verify
  PROVE  Faithful'
<1>1. AsBuilt => /\ Leads(start) /\ (start = 1 => U(0) = Len(data) - 1) /\ Rooted /\ Tabled
                 /\ \A f \in Fields : FieldSound(f) /\ VectorSound(f)
                 /\ TextsSound
  BY ReadRecord
<1>2. "ids" \in Fields /\ "strings" \in Fields
  BY DEF Fields
<1>3. /\ UNCHANGED <<built, data, start, damages>>
      /\ pc \notin {"build", "refused", "read", "trusted"}
      /\ pc' \notin {"build", "read", "trusted"}
  BY DEF VerifyBuffer, Verify, Check, VerifyTableStart, VerifyOffset, VerifyVector, VerifyVectorOfStrings
<1>4. ASSUME VerifyBuffer PROVE AsBuilt => pc' # "refused"
  BY <1>1, <1>4 DEF VerifyBuffer, Check
<1>5. ASSUME VerifyTableStart PROVE AsBuilt => pc' # "refused"
  BY <1>1, <1>5 DEF VerifyTableStart, Check, Rooted, Tabled
<1>6. ASSUME NEW f \in Fields, NEW step \in {"ids offset", "strings offset"}, VerifyOffset(f, step)
      PROVE  AsBuilt => pc' # "refused"
  BY <1>1, <1>6 DEF VerifyOffset, Check, FieldSound, Fields
<1>7. ASSUME NEW f \in Fields, NEW next \in {"strings offset", "texts"}, VerifyVector(f, next)
      PROVE  AsBuilt => pc' # "refused"
  BY <1>1, <1>7 DEF VerifyVector, Check, VectorSound, Fields
<1>8. ASSUME VerifyVectorOfStrings PROVE AsBuilt => pc' # "refused"
  BY <1>1, <1>8 DEF VerifyVectorOfStrings, Check, TextsSound
<1>9. AsBuilt => pc' # "refused"
  BY <1>2, <1>4, <1>5, <1>6, <1>7, <1>8 DEF Verify
<1> QED
  BY <1>3, <1>9, CheckFaithful

LEMMA GetRecordFaithful ==
  ASSUME IInv, Faithful, GetRecord
  PROVE  Faithful'
<1>1. UNCHANGED <<fbb, made, root, data, start, damages>> /\ pc' \in {"read", "trusted"} /\ pc # "build"
  BY DEF GetRecord, built
<1>2. damages = 0 => AsBuilt
  BY <1>1 DEF Faithful, AsBuilt, IInv
<1>3. damages = 0 => Inside'
  BY <1>1, <1>2, ReadInside DEF Inside
<1> QED
  BY <1>1, <1>3 DEF Faithful, BuiltIsAccepted

LEMMA NextFaithful == IInv /\ Faithful /\ [Next]_vars => Faithful'
<1> SUFFICES ASSUME IInv, Faithful, [Next]_vars PROVE Faithful'
  OBVIOUS
<1>0. IsBuilder(fbb) /\ OffsetsMade /\ Strings \subseteq Seq(Int)
  BY DEF IInv
<1>b. pc = "build" => Kept /\ Good(fbb) /\ Objects(fbb, made)
  BY DEF Faithful, Kept
<1>1. ASSUME NEW s \in Strings, CreateString(s)
      PROVE  Faithful'
  <2> DEFINE c == Push(fbb, StringCells(s))
  <2>1. pc = "build" /\ Create(c, "string", s) /\ Unchanged
    BY <1>1 DEF CreateString, Create
  <2>2. s \in Seq(Int)
    BY <1>0
  <2>3. IsBuilder(c) /\ Grows(fbb, c) /\ IsText(c, Size(c), s)
    BY <1>0, <2>2, TextMade
  <2>4. c.vtables = fbb.vtables /\ c.fields = fbb.fields /\ c.value = fbb.value
    BY <1>0 DEF Push, IsBuilder
  <2> HIDE DEF c
  <2>5. Good(c)
    BY <1>b, <2>1, <2>3, <2>4, GoodStays
  <2>6. Kept'
    BY <1>0, <1>b, <2>1, <2>3, <2>5, CreateObject DEF IsObject, Types
  <2> QED
    BY <2>1, <2>6, BuildFaithful
<1>2. CASE CreateVector
  <2>1. ASSUME NEW q \in Ids, Create(VectorOfIds(fbb, q), "ids", q)
        PROVE  Faithful'
    <3>1. pc = "build" /\ Unchanged
      BY <2>1 DEF Create
    <3> DEFINE c == VectorOfIds(fbb, q)
    <3>2. Good(c) /\ Grows(fbb, c) /\ IsVector(c, "ids", Size(c), q)
      BY <1>b, <3>1, VectorsGood
    <3> HIDE DEF c
    <3>3. IsObject(c, "ids", Size(c), q) /\ "ids" \in Types
      BY <3>2 DEF IsObject, Types, Fields
    <3>4. Create(c, "ids", q)
      BY <2>1 DEF c
    <3>5. Kept'
      BY <1>0, <1>b, <3>1, <3>2, <3>3, <3>4, CreateObject
    <3> QED
      BY <3>1, <3>5, BuildFaithful
  <2>2. ASSUME NEW os \in Texts, Create(VectorOfStrings(fbb, os), "strings", Values(os))
        PROVE  Faithful'
    <3>1. pc = "build" /\ Unchanged
      BY <2>2 DEF Create
    <3> DEFINE c == VectorOfStrings(fbb, os)
    <3>2. Good(c) /\ Grows(fbb, c) /\ IsVector(c, "strings", Size(c), Values(os))
      BY <1>b, <3>1, VectorsGood
    <3> HIDE DEF c
    <3>3. IsObject(c, "strings", Size(c), Values(os)) /\ "strings" \in Types
      BY <3>2 DEF IsObject, Types, Fields
    <3>4. Create(c, "strings", Values(os))
      BY <2>2 DEF c
    <3>5. Kept'
      BY <1>0, <1>b, <3>1, <3>2, <3>3, <3>4, CreateObject
    <3> QED
      BY <3>1, <3>5, BuildFaithful
  <2> QED
    BY <1>2, <2>1, <2>2 DEF CreateVector
<1>3. CASE RecordBuilder
  <2>1. pc = "build" /\ fbb' = StartTable(fbb) /\ made' = made /\ Unchanged
    BY <1>3 DEF RecordBuilder, Building
  <2>2. Good(fbb') /\ Grows(fbb, fbb') /\ IsBuilder(fbb')
    BY <1>b, <2>1, StartGood DEF Good
  <2>3. Objects(fbb', made)
    BY <1>0, <1>b, <2>1, <2>2, ObjectsStay
  <2>4. Kept'
    BY <2>1, <2>2, <2>3 DEF Kept
  <2> QED
    BY <2>1, <2>4, BuildFaithful
<1>4. ASSUME NEW f \in Fields, add(f)
      PROVE  Faithful'
  <2>1. PICK o \in made[f] : fbb' = AddOffset(fbb, f, o)
    BY <1>4 DEF add
  <2>2. pc = "build" /\ made' = made /\ Unchanged
    BY <1>4 DEF add
  <2>3. o.at \in Int /\ IsVector(fbb, f, o.at, o.value)
    <3>1. f \in Types /\ f # "string" /\ f # "record"
      BY DEF Types, Fields
    <3> QED
      BY <1>0, <1>b, <2>2, <3>1 DEF OffsetsMade, Objects, IsObject
  <2>4. Good(fbb') /\ Grows(fbb, fbb') /\ IsBuilder(fbb')
    BY <1>b, <2>1, <2>2, <2>3, AddGood DEF Good
  <2>5. Objects(fbb', made)
    BY <1>0, <1>b, <2>2, <2>4, ObjectsStay
  <2>6. Kept'
    BY <2>2, <2>4, <2>5 DEF Kept
  <2> QED
    BY <2>2, <2>6, BuildFaithful
<1>5. CASE Finish
  <2>1. pc = "build" /\ fbb' = EndTable(fbb) /\ Keep("record", LastTable(fbb), fbb.value) /\ Unchanged
    BY <1>5 DEF Finish
  <2>2. /\ Good(fbb') /\ Grows(fbb, fbb') /\ IsBuilder(fbb')
        /\ IsRecord(fbb', LastTable(fbb), fbb.value)
    BY <1>b, <2>1, EndGood DEF Good
  <2>3. Objects(fbb', made)
    BY <1>0, <1>b, <2>1, <2>2, ObjectsStay
  <2>4. Objects(fbb', made')
    BY <1>0, <2>1, <2>2, <2>3, KeepObject DEF IsObject, Types
  <2>5. Kept'
    BY <2>2, <2>4 DEF Kept
  <2> QED
    BY <2>1, <2>5, BuildFaithful
<1>6. CASE CreateRecordOf
  <2>1. PICK i \in made["ids"] \cup {Null}, s \in made["strings"] \cup {Null} : CreateRecord(fbb, i, s)
    BY <1>6 DEF CreateRecordOf
  <2>2. pc = "build" /\ Unchanged
    BY <1>6, <2>1 DEF CreateRecordOf, Building, CreateRecord
  <2>3. /\ i.at \in Int /\ (i = Null \/ IsVector(fbb, "ids", i.at, i.value))
        /\ s.at \in Int /\ (s = Null \/ IsVector(fbb, "strings", s.at, s.value))
    BY <1>0, <1>b, <2>1, <2>2 DEF OffsetsMade, Types, Fields, Null, Offset, Objects, IsObject
  <2>4. Grows(fbb, fbb)
    BY <1>0, GrowsFacts, CellType
  <2>5. Kept'
    BY <1>0, <1>b, <2>1, <2>2, <2>3, <2>4, CreateRecordObject
  <2> QED
    BY <2>2, <2>5, BuildFaithful
<1>7. CASE CreateRecordDirect
  <2>1. PICK q \in Ids, os \in Texts :
          LET i == VectorOfIds(fbb, q)
              s == VectorOfStrings(fbb, os)
              is == VectorOfStrings(i, os)
              si == VectorOfIds(s, q)
          IN  \/ CreateRecord(is, Offset(Size(i), q), Offset(Size(is), Values(os)))
              \/ CreateRecord(si, Offset(Size(si), q), Offset(Size(s), Values(os)))
              \/ CreateRecord(i, Offset(Size(i), q), Null)
              \/ CreateRecord(s, Null, Offset(Size(s), Values(os)))
    BY <1>7 DEF CreateRecordDirect
  <2> DEFINE i == VectorOfIds(fbb, q)
             s == VectorOfStrings(fbb, os)
             is == VectorOfStrings(i, os)
             si == VectorOfIds(s, q)
  <2>2. pc = "build"
    BY <1>7 DEF CreateRecordDirect, Building
  <2>3. \A b : Good(b) /\ Grows(fbb, b) => IsBuilder(b) /\ Objects(b, made)
    BY <1>0, <1>b, <2>2, ObjectsStay DEF Good
  <2>4. Good(i) /\ Grows(fbb, i) /\ IsVector(i, "ids", Size(i), q)
    BY <1>b, <2>2, VectorsGood
  <2>5. Good(s) /\ Grows(fbb, s) /\ IsVector(s, "strings", Size(s), Values(os))
    BY <1>b, <2>2, VectorsGood
  <2> HIDE DEF i, s
  <2>6. Good(is) /\ Grows(i, is) /\ IsVector(is, "strings", Size(is), Values(os))
    BY <2>3, <2>4, VectorsGood
  <2>7. Good(si) /\ Grows(s, si) /\ IsVector(si, "ids", Size(si), q)
    BY <2>3, <2>5, VectorsGood
  <2> HIDE DEF is, si
  <2>8. IsVector(is, "ids", Size(i), q) /\ IsVector(si, "strings", Size(s), Values(os))
    BY <2>3, <2>4, <2>5, <2>6, <2>7, FieldStays DEF Good
  <2>9. Grows(fbb, is) /\ Grows(fbb, si)
    <3>1. /\ Size(fbb) \in Nat /\ Size(i) \in Nat /\ Size(s) \in Nat
          /\ Size(is) \in Nat /\ Size(si) \in Nat
      BY <1>0, <2>4, <2>5, <2>6, <2>7, CellType DEF Good
    <3> QED
      BY <2>4, <2>5, <2>6, <2>7, <3>1, GrowsFacts
  <2>10. \A at, v : Offset(at, v).at = at /\ Offset(at, v).value = v
    BY DEF Offset
  <2>11. Null.at \in Int
    BY DEF Null, Offset
  <2>12. \A b : Good(b) => Size(b) \in Int
    BY CellType DEF Good
  <2>13. CASE CreateRecord(is, Offset(Size(i), q), Offset(Size(is), Values(os)))
    BY <1>0, <1>b, <2>2, <2>4, <2>6, <2>8, <2>9, <2>10, <2>12, <2>13, CreateRecordObject, BuildFaithful
       DEF CreateRecord
  <2>14. CASE CreateRecord(si, Offset(Size(si), q), Offset(Size(s), Values(os)))
    BY <1>0, <1>b, <2>2, <2>5, <2>7, <2>8, <2>9, <2>10, <2>12, <2>14, CreateRecordObject, BuildFaithful
       DEF CreateRecord
  <2>15. CASE CreateRecord(i, Offset(Size(i), q), Null)
    BY <1>0, <1>b, <2>2, <2>4, <2>10, <2>11, <2>12, <2>15, CreateRecordObject, BuildFaithful
       DEF CreateRecord
  <2>16. CASE CreateRecord(s, Null, Offset(Size(s), Values(os)))
    BY <1>0, <1>b, <2>2, <2>5, <2>10, <2>11, <2>12, <2>16, CreateRecordObject, BuildFaithful
       DEF CreateRecord
  <2> QED
    BY <2>1, <2>13, <2>14, <2>15, <2>16 DEF i, s, is, si
<1>8. ASSUME NEW prefixed \in BOOLEAN, FinishRecordBuffer(prefixed)
      PROVE  Faithful'
  <2>1. pc = "build" /\ pc' = "data" /\ damages' = damages
    BY <1>8 DEF FinishRecordBuffer
  <2>2. Finished(fbb', data', start', root')
    BY <1>0, <1>8, <1>b, <2>1, FinishBuffer
  <2> QED
    BY <2>1, <2>2 DEF Faithful, BuiltIsAccepted
<1>9. CASE Damage
  <2>1. pc = "data" /\ pc' = pc /\ damages' = damages + 1
    BY <1>9 DEF Damage
  <2>2. damages' \in Nat /\ damages' # 0
    BY <2>1 DEF Faithful
  <2> QED
    BY <2>1, <2>2 DEF Faithful, BuiltIsAccepted
<1>10. ASSUME VerifyBuffer \/ Verify \/ GetRecord
       PROVE  Faithful'
  BY <1>10, VerifyFaithful, GetRecordFaithful
<1>11. CASE UNCHANGED vars
  BY <1>11 DEF vars, Faithful, Kept, BuiltIsAccepted, Inside
<1> QED
  BY <1>1, <1>2, <1>3, <1>4, <1>5, <1>6, <1>7, <1>8, <1>9, <1>10, <1>11 DEF Next

(***************************************************************************)
(* A buffer that nothing has changed since it was built is accepted        *)
(* (Record::Verify), whatever records and vectors it was built from, by    *)
(* whichever calls of the builder.                                         *)
(***************************************************************************)
THEOREM AcceptsBuilt == Spec => []BuiltIsAccepted
<1>1. Init => IInv /\ Faithful
  BY InitIInv, InitFaithful
<1>2. IInv /\ Faithful /\ [Next]_vars => IInv' /\ Faithful'
  BY NextIInv, NextFaithful
<1>3. Faithful => BuiltIsAccepted
  BY DEF Faithful
<1> QED
  BY <1>1, <1>2, <1>3, PTL DEF Spec

(***************************************************************************)
(* It is read as what its record was made from, inside the buffer, whether *)
(* it was verified before or not (GetRecord, and the accessors).           *)
(***************************************************************************)
THEOREM ReadsWhatWasBuilt == Spec => []ReadsBack
<1>1. Init => IInv /\ Faithful
  BY InitIInv, InitFaithful
<1>2. IInv /\ Faithful /\ [Next]_vars => IInv' /\ Faithful'
  BY NextIInv, NextFaithful
<1>3. IInv /\ Faithful => ReadsBack
  <2> SUFFICES ASSUME IInv, Faithful, pc \in {"read", "trusted"}, damages = 0
               PROVE  Inside /\ ids = root["ids"] /\ strings = root["strings"]
    BY DEF ReadsBack
  <2>1. AsBuilt
    BY DEF AsBuilt, Faithful, IInv
  <2> QED
    BY <2>1, ReadRecord DEF Faithful
<1> QED
  BY <1>1, <1>2, <1>3, PTL DEF Spec
=============================================================================
