-------------------------- MODULE FlatbuffersRecord --------------------------
(***************************************************************************)
(* flatbuffers_test::Record: records are built into a buffer that grows    *)
(* towards its front, then a buffer, which may have been damaged in        *)
(* between, is verified and read.  The buffer is a sequence of cells: a    *)
(* scalar, a character, an offset or an entry of a vtable is one cell.  An *)
(* Offset is the distance of an object from the end of the buffer.         *)
(***************************************************************************)
EXTENDS Integers, Sequences, FiniteSets

CONSTANTS
  Ids,         \* the vectors of integers
  Strings,     \* the strings, sequences of characters
  Damages,     \* what a cell of a buffer from elsewhere may hold
  Wrap,        \* 2^w: a cell read as an unsigned number
  MaxStrings,  \* bound: the strings of a vector
  MaxRecords,  \* bound: the records in a buffer
  MaxObjects,  \* bound: the strings and vectors in a buffer
  MaxDamaged,  \* bound: the cells of a buffer that is damaged
  MaxDamages   \* bound: how often

ASSUME CellsAssumption == Ids \subseteq Seq(Int) /\ Strings \subseteq Seq(Int) /\ Damages \subseteq Int
ASSUME WrapAssumption == Wrap \in Nat \ {0}

\* The fields by their place in a vtable, after its size and the table's.
VT == [ids |-> 2, strings |-> 3]
Fields == {"ids", "strings"}

VARIABLES
  fbb,       \* the builder: buf, the vtables by offset, and, while a table is
             \* built, where it starts, its fields by offset and their values
  made,      \* the Offsets the program holds, by type, each with (history)
             \* the value of its object
  root,      \* the record the buffer was finished with
  data,      \* the buffer that is verified and read
  start,     \* where it starts: after its size, if it has that prefix
  damages,   \* how much it differs from what was built
  pc,        \* "build", "data", the next check of Verify, or its end
  touched    \* the cells looked at in the last step

vars == <<fbb, made, root, data, start, damages, pc, touched>>
built == <<fbb, made, root>>

\* The value of a record, and that of one without fields.
Absent == [f \in Fields |-> <<>>]

Init ==
  /\ fbb = [buf |-> <<>>, vtables |-> {}, nested |-> FALSE, start |-> 0,
            fields |-> [f \in Fields |-> 0], value |-> Absent]
  /\ made = [t \in Fields \cup {"string", "record"} |-> {}] /\ root = Absent
  /\ data = <<>> /\ start = 0 /\ damages = 0
  /\ pc = "build" /\ touched = {}

-----------------------------------------------------------------------------
(* FlatBufferBuilder. *)

Offset(at, value) == [at |-> at, value |-> value]
Null == Offset(0, <<>>)

Size(b) == Len(b.buf)
Push(b, cells) == [b EXCEPT !.buf = cells \o @]

\* An offset in the cell pushed next, relative to that cell.
ReferTo(b, o) == Size(b) + 1 - o

StringCells(s) == <<Len(s)>> \o s \o <<0>>
VectorCells(q) == <<Len(q)>> \o q
\* The offsets os go into the buffer from the last to the first.
OffsetCells(b, os) == <<Len(os)>> \o [k \in DOMAIN os |-> Size(b) + Len(os) - k + 1 - os[k]]

StartTable(b) ==
  [b EXCEPT !.nested = TRUE, !.start = Size(b), !.fields = [f \in Fields |-> 0], !.value = Absent]

\* A null offset is the default: the field is left out.
AddOffset(b, f, o) ==
  IF o = Null THEN b
  ELSE [Push(b, <<ReferTo(b, o.at)>>) EXCEPT !.fields[f] = Size(b) + 1, !.value[f] = <<o.value>>]

\* The vtable of the table whose first cell is at offset t, cut after the last
\* field that is set.
VtableOf(b, t) ==
  LET entry(f) == IF b.fields[f] = 0 THEN 0 ELSE t - b.fields[f]
      whole == <<4, t - b.start, entry("ids"), entry("strings")>>
      size == IF b.fields["strings"] # 0 THEN 4 ELSE IF b.fields["ids"] # 0 THEN 3 ELSE 2
  IN  [SubSeq(whole, 1, size) EXCEPT ![1] = size]

\* The cells of the vtable at offset v.
VtableAt(b, v) == LET p == Size(b) - v + 1 IN SubSeq(b.buf, p, p + b.buf[p] - 1)

\* A table's Offset is that of its first cell, written last.
LastTable(b) == Size(b) + 1

\* The first cell of the table, then a vtable unless an equal one is there.
EndTable_Last(b) ==
  LET t == Size(b) + 1
      c == Push(b, <<0>>)
      d == IF b.vtables # {} THEN c ELSE Push(c, VtableOf(b, t))
      v == IF b.vtables # {} THEN CHOOSE v \in b.vtables : TRUE ELSE Size(d)
  IN  [d EXCEPT !.buf[Size(d) - t + 1] = v - t, !.vtables = @ \cup {v}, !.nested = FALSE]
EndTable(b) ==
  LET t == Size(b) + 1
      c == Push(b, <<0>>)
      same == {v \in b.vtables : VtableAt(b, v) = VtableOf(b, t)}
      d == IF same # {} THEN c ELSE Push(c, VtableOf(b, t))
      v == IF same # {} THEN CHOOSE v \in same : TRUE ELSE Size(d)
  IN  [d EXCEPT !.buf[Size(d) - t + 1] = v - t, !.vtables = @ \cup {v}, !.nested = FALSE]

-----------------------------------------------------------------------------
(* Building: what a program may call, and what it holds afterwards. *)

Keep(type, at, value) == made' = [made EXCEPT ![type] = @ \cup {Offset(at, value)}]
Unchanged == UNCHANGED <<root, data, start, damages, pc, touched>>

\* An object is created outside of tables only, and its Offset kept.
Create(b, type, value) ==
  /\ pc = "build" /\ ~fbb.nested
  /\ fbb' = b /\ Keep(type, Size(b), value)
  /\ Unchanged

More == Cardinality(made["string"]) + Cardinality(made["ids"])
          + Cardinality(made["strings"]) < MaxObjects
CreateString(s) == More /\ Create(Push(fbb, StringCells(s)), "string", s)

VectorOfIds(b, q) == Push(b, VectorCells(q))
VectorOfStrings(b, os) == Push(b, OffsetCells(b, [k \in DOMAIN os |-> os[k].at]))
Values(os) == [k \in DOMAIN os |-> os[k].value]
Texts == UNION {[1 .. n -> made["string"]] : n \in 0 .. MaxStrings}

CreateVector ==
  /\ More
  /\ \/ \E q \in Ids : Create(VectorOfIds(fbb, q), "ids", q)
     \/ \E os \in Texts : Create(VectorOfStrings(fbb, os), "strings", Values(os))

Building == pc = "build" /\ ~fbb.nested /\ Cardinality(made["record"]) < MaxRecords

RecordBuilder ==
  /\ Building
  /\ fbb' = StartTable(fbb)
  /\ UNCHANGED made /\ Unchanged

\* A field is set at most once: the library asserts it.
add(f) ==
  /\ pc = "build" /\ fbb.nested /\ fbb.fields[f] = 0
  /\ \E o \in made[f] : fbb' = AddOffset(fbb, f, o)
  /\ UNCHANGED made /\ Unchanged

Finish ==
  /\ pc = "build" /\ fbb.nested
  /\ fbb' = EndTable(fbb)
  /\ Keep("record", LastTable(fbb), fbb.value)
  /\ Unchanged

\* All calls of CreateRecord on the builder, strings first.
Record(b, ids, strings) == AddOffset(AddOffset(StartTable(b), "strings", strings), "ids", ids)

CreateRecord(b, ids, strings) ==
  LET r == Record(b, ids, strings)
  IN  /\ fbb' = EndTable(r)
      /\ Keep("record", LastTable(r), r.value)
      /\ Unchanged

CreateRecordOf ==
  /\ Building
  /\ \E ids \in made["ids"] \cup {Null}, strings \in made["strings"] \cup {Null} :
       CreateRecord(fbb, ids, strings)

\* The two vectors are arguments of one call, created in either order.
CreateRecordDirect ==
  /\ Building
  /\ \E q \in Ids, os \in Texts :
       LET i == VectorOfIds(fbb, q)
           s == VectorOfStrings(fbb, os)
           is == VectorOfStrings(i, os)
           si == VectorOfIds(s, q)
           ids(b) == Offset(Size(b), q)
           strings(b) == Offset(Size(b), Values(os))
       IN  \/ CreateRecord(is, ids(i), strings(is))
           \/ CreateRecord(si, ids(si), strings(s))
           \/ CreateRecord(i, ids(i), Null)
           \/ CreateRecord(s, Null, strings(s))

\* The buffer ends up with the offset of the root first, after its own size if
\* it is to have that prefix.  A buffer half as long as offsets reach is never
\* finished: the library asserts that it stays shorter.
FinishRecordBuffer(prefixed) ==
  /\ pc = "build" /\ ~fbb.nested
  /\ \E r \in made["record"] :
       LET b == Push(fbb, <<ReferTo(fbb, r.at)>>)
           whole == IF prefixed THEN Push(b, <<Size(b)>>) ELSE b
       IN  /\ 2 * Size(whole) < Wrap
           /\ data' = whole.buf /\ fbb' = whole /\ root' = r.value
  /\ start' = IF prefixed THEN 1 ELSE 0
  /\ pc' = "data"
  /\ UNCHANGED <<made, damages, touched>>

\* On its way to the reader the buffer may lose cells or have some replaced.
Damage ==
  /\ pc = "data" /\ damages < MaxDamages /\ Len(data) <= MaxDamaged
  /\ damages' = damages + 1
  /\ \/ \E k \in DOMAIN data, x \in Damages : data' = [data EXCEPT ![k] = x]
     \/ \E n \in 0 .. Len(data) - 1 : data' = SubSeq(data, 1, n)
  /\ UNCHANGED <<built, start, pc, touched>>

-----------------------------------------------------------------------------
(* Reading: cells are counted from 0. *)

\* Verifier::Verify.
In_Less(p, n) == n < Len(data) /\ p \in 0 .. Len(data) - n - 1
In(p, n) == n < Len(data) /\ p \in 0 .. Len(data) - n
At(p) == IF p \in 0 .. Len(data) - 1 THEN data[p + 1] ELSE 0
U(p) == At(p) % Wrap

Table == start + U(start)
Vtable == Table - At(Table)

\* GetPointer, and what it looks at.
Entry(f) == IF VT[f] < U(Vtable) THEN U(Vtable + VT[f]) ELSE 0
Field(f) == Table + Entry(f)
Pointer(f) == Field(f) + U(Field(f))
EntryCells(f) == {start, Table, Vtable} \cup {p \in {Vtable + VT[f]} : VT[f] < U(Vtable)}
PointerCells(f) == EntryCells(f) \cup {p \in {Field(f)} : Entry(f) # 0}

\* The offset in cell p leads from there to another cell of the buffer.
Leads(p) == In(p, 1) /\ U(p) # 0 /\ In(p + U(p), 1)
Sound(v) == In(v, 1) /\ In(v, 1 + U(v))
Guarded(p) == {q \in {p} : In(q, 1)}

\* The next check: what it finds and looks at, and the one after it.
Check(step, ok, cells, next) ==
  /\ pc = step
  /\ pc' = IF ok THEN next ELSE "refused"
  /\ touched' = cells
  /\ UNCHANGED <<built, data, start, damages>>

VerifyBuffer ==
  Check("data", Leads(start) /\ (start = 1 => U(0) = Len(data) - 1),
        UNION {Guarded(p) : p \in 0 .. start}, "table")

VerifyTableStart ==
  Check("table", In(Table, 1) /\ In(Vtable, 1) /\ In(Vtable, U(Vtable)),
        {start} \cup Guarded(Table) \cup (IF In(Table, 1) THEN Guarded(Vtable) ELSE {}),
        "ids offset")

VerifyOffset(f, step) ==
  Check(step, Entry(f) # 0 => Leads(Field(f)),
        EntryCells(f) \cup (IF Entry(f) # 0 THEN Guarded(Field(f)) ELSE {}), f)

VerifyVector(f, next) ==
  Check(f, Entry(f) # 0 => Sound(Pointer(f)),
        PointerCells(f) \cup (IF Entry(f) # 0 THEN Guarded(Pointer(f)) ELSE {}), next)

\* The elements of a vector, and the string the k-th of "strings" leads to.
Elements(f) == IF Entry(f) = 0 THEN {} ELSE 1 .. U(Pointer(f))
Text(k) == LET p == Pointer("strings") + k IN p + U(p)
Terminator(v) == v + 1 + U(v)
SoundText(v) == Sound(v) /\ In(Terminator(v), 1) /\ At(Terminator(v)) = 0
TextCells(v) == Guarded(v) \cup (IF Sound(v) THEN Guarded(Terminator(v)) ELSE {})

VectorCellsOf(f) ==
  PointerCells(f) \cup (IF Entry(f) # 0 THEN {Pointer(f)} ELSE {})
                  \cup {Pointer(f) + k : k \in Elements(f)}

\* The strings are looked at up to the first that is refused.
VerifyVectorOfStrings ==
  LET n == Elements("strings")
  IN  Check("texts", \A k \in n : SoundText(Text(k)),
            VectorCellsOf("strings") \cup
              UNION {TextCells(Text(k)) : k \in {k \in n : \A j \in 1 .. k - 1 : SoundText(Text(j))}},
            "accepted")

\* Record::Verify.
Verify_Short ==
  \/ VerifyTableStart
  \/ VerifyOffset("ids", "ids offset") \/ VerifyVector("ids", "strings offset")
  \/ VerifyOffset("strings", "strings offset")
  \/ Check("strings", TRUE, {}, "texts")
  \/ VerifyVectorOfStrings
Verify ==
  \/ VerifyTableStart
  \/ VerifyOffset("ids", "ids offset") \/ VerifyVector("ids", "strings offset")
  \/ VerifyOffset("strings", "strings offset") \/ VerifyVector("strings", "texts")
  \/ VerifyVectorOfStrings

\* What the program gets from the accessors, and all the cells they look at.
Cells(v) == [k \in 1 .. U(v) |-> At(v + k)]
ids == IF Entry("ids") = 0 THEN <<>> ELSE <<Cells(Pointer("ids"))>>
strings == IF Entry("strings") = 0 THEN <<>>
           ELSE <<[k \in Elements("strings") |-> Cells(Text(k))]>>

\* A buffer that is known to be as it was built is not verified: the benchmark
\* does not either.
GetRecord ==
  /\ \/ pc = "accepted" /\ pc' = "read"
     \/ pc = "data" /\ damages = 0 /\ pc' = "trusted"
  /\ touched' = VectorCellsOf("ids") \cup VectorCellsOf("strings") \cup
                UNION {Text(k) .. Terminator(Text(k)) : k \in Elements("strings")}
  /\ UNCHANGED <<built, data, start, damages>>

Next ==
  \/ \E s \in Strings : CreateString(s)
  \/ CreateVector
  \/ RecordBuilder \/ (\E f \in Fields : add(f)) \/ Finish
  \/ CreateRecordOf \/ CreateRecordDirect
  \/ \E prefixed \in BOOLEAN : FinishRecordBuffer(prefixed)
  \/ Damage
  \/ VerifyBuffer \/ Verify \/ GetRecord

Spec == Init /\ [][Next]_vars

-----------------------------------------------------------------------------
(* Properties *)

(***************************************************************************)
(* Neither Verify, while it finds out whether a buffer can be read, nor    *)
(* the accessors after it has said so look at a cell outside the buffer:   *)
(* each check relies on those before it and not on what was built.         *)
(***************************************************************************)
Inside == \A p \in touched : p \in 0 .. Len(data) - 1
InBounds == pc # "trusted" => Inside

(* A buffer is refused only if it is another than was built. *)
BuiltIsAccepted == pc = "refused" => damages > 0

(***************************************************************************)
(* The accessors return what the record the buffer was finished with was   *)
(* made from, whatever other records, sharing its vtable or not, lie in    *)
(* the buffer; a field left out stays different from an empty one.  It     *)
(* takes no verification for that if the buffer is as it was built.        *)
(***************************************************************************)
ReadsBack ==
  pc \in {"read", "trusted"} /\ damages = 0 =>
    Inside /\ ids = root["ids"] /\ strings = root["strings"]
=============================================================================
