-------------------------- MODULE ThriftRecordProofs --------------------------
(***************************************************************************)
(* Theorems about ThriftRecord: for every set of structs on the wire, of   *)
(* any length, and every earlier content of the record.                    *)
(***************************************************************************)
EXTENDS ThriftRecord, TLAPS

USE StreamsAssumption, RecordsAssumption, BlankAssumption

\* Two sequences of the same length with the same elements are the same.
LEMMA SameSeq ==
  ASSUME NEW S, NEW s \in Seq(S), NEW q \in Seq(S), Len(s) = Len(q),
         \A i \in 1 .. Len(s) : s[i] = q[i]
  PROVE  s = q
<1>1. s = [i \in 1 .. Len(s) |-> s[i]] /\ q = [i \in 1 .. Len(q) |-> q[i]]
  OBVIOUS
<1> QED
  BY <1>1

\* A field read() knows is a list for its target and for no other member.
LEMMA KnownIsFor ==
  ASSUME NEW f \in Field, NEW t \in Members
  PROVE  /\ Known(f) => Member[f.fid] \in Members /\ (IsFor(f, t) <=> t = Member[f.fid])
         /\ ~Known(f) => ~IsFor(f, t)
<1>1. DOMAIN Member = 1 .. 2 /\ Member[1] = "ids" /\ Member[2] = "strings"
  BY DEF Member
<1>2. \A m \in 1 .. 2 : m = 1 \/ m = 2
  OBVIOUS
<1> QED
  BY <1>1, <1>2 DEF Known, IsFor, Members, Field

\* Reading one more field adds that field to the occurrences of its member.
LEMMA OccurrencesStep ==
  ASSUME NEW t \in Members, stream \in Seq(Field), NEW n \in 1 .. Len(stream)
  PROVE  /\ IsFor(stream[n], t) => Occurrences(t, n + 1) = Occurrences(t, n) \cup {n}
         /\ ~IsFor(stream[n], t) => Occurrences(t, n + 1) = Occurrences(t, n)
         /\ \A j \in Occurrences(t, n) : j < n
BY DEF Occurrences

\* The value of a member after one more field: the list of that field if it
\* is for the member, the value it had otherwise.
LEMMA AsReadStep ==
  ASSUME NEW t \in Members, stream \in Seq(Field), NEW n \in 1 .. Len(stream)
  PROVE  /\ IsFor(stream[n], t) => AsRead(t, n + 1, stream[n].elems)
         /\ ~IsFor(stream[n], t) => \A v : AsRead(t, n, v) <=> AsRead(t, n + 1, v)
<1>1. ASSUME IsFor(stream[n], t)
      PROVE  AsRead(t, n + 1, stream[n].elems)
  <2>1. n \in Occurrences(t, n + 1)
    BY <1>1, OccurrencesStep
  <2>2. \A k \in Occurrences(t, n + 1) : k <= n
    BY <1>1, OccurrencesStep DEF Occurrences
  <2> QED
    BY <2>1, <2>2 DEF AsRead
<1>2. ASSUME ~IsFor(stream[n], t)
      PROVE  \A v : AsRead(t, n, v) <=> AsRead(t, n + 1, v)
  BY <1>2, OccurrencesStep DEF AsRead
<1> QED
  BY <1>1, <1>2

(***************************************************************************)
(* The inductive invariant.  Between two fields every member is as the     *)
(* fields before pos leave it; within a list all members but its target    *)
(* are, and the elements read so far are those of the wire.                *)
(***************************************************************************)
Within == pc \in {"size", "element"}

IInv ==
  /\ TypeOK
  /\ Within => More /\ Known(Current)
  /\ pc = "skip" => More /\ ~Known(Current)
  /\ pc = "size" => record[Target] = <<>> /\ done = 0
  /\ pc = "element" =>
       /\ done <= Len(Current.elems) /\ Len(record[Target]) = Len(Current.elems)
       /\ \A i \in 1 .. done : record[Target][i] = Current.elems[i]
  /\ pc # "failed" =>
       \A t \in Members :
         /\ isset[t] <=> Occurrences(t, pos) # {}
         /\ ~(Within /\ t = Target) => AsRead(t, pos, record[t])
  /\ pc = "returned" => \A t \in Members : isset[t]
  /\ pc = "invalid" => \E t \in Members : ~isset[t]
  /\ pc \in {"returned", "invalid"} => pos = Len(stream) + 1
  /\ TornOnlyAtFailure

\* The inductive invariant holds when read() is called.
LEMMA InitIInv == Init => IInv
<1> SUFFICES ASSUME Init PROVE IInv
  OBVIOUS
<1>1. stream \in Seq(Field) /\ old \in Record
  BY DEF Init
<1>2. record \in [Members -> Seq(Elem \cup {Torn})]
  BY <1>1 DEF Init, Record
<1>3. TypeOK
  BY <1>1, <1>2 DEF Init, TypeOK
<1>4. \A t \in Members : Occurrences(t, 1) = {}
  BY DEF Occurrences
<1>5. \A t \in Members : AsRead(t, 1, record[t])
  BY <1>4 DEF AsRead, Init
<1> QED
  BY <1>3, <1>4, <1>5 DEF IInv, Init, Within, TornOnlyAtFailure

\* What is at hand while a field is being read.
LEMMA FieldAtHand ==
  ASSUME TypeOK, More
  PROVE  /\ stream \in Seq(Field) /\ pos \in 1 .. Len(stream) /\ Current \in Field
         /\ Current.elems \in Seq(Elem) /\ Len(Current.elems) \in Nat
         /\ Known(Current) => Target \in Members /\ \A t \in Members : IsFor(Current, t) <=> t = Target
         /\ ~Known(Current) => \A t \in Members : ~IsFor(Current, t)
<1>1. stream \in Seq(Field) /\ pos \in 1 .. Len(stream)
  BY DEF TypeOK, More
<1>2. Current \in Field
  BY <1>1 DEF Current
<1>3. Current.elems \in Seq(Elem) /\ Len(Current.elems) \in Nat
  BY <1>2 DEF Field
<1>4. Known(Current) => Target \in Members
  <2>1. DOMAIN Member = 1 .. 2 /\ Member[1] = "ids" /\ Member[2] = "strings"
    BY DEF Member
  <2> QED
    BY <2>1 DEF Known, Target, Members
<1> QED
  BY <1>1, <1>2, <1>3, <1>4, KnownIsFor DEF Target

\* Clearing the list of a known field keeps the inductive invariant.
LEMMA StepBeginList == IInv /\ BeginList => IInv'
<1> SUFFICES ASSUME IInv, BeginList PROVE IInv'
  OBVIOUS
<1>1. TypeOK /\ More /\ Known(Current) /\ Target \in Members
  BY FieldAtHand DEF IInv, BeginList
<1>2. record' = [record EXCEPT ![Target] = <<>>] /\ Len(<<>>) = 0
  BY DEF BeginList
<1>3. record' \in [Members -> Seq(Elem \cup {Torn})]
  BY <1>1, <1>2 DEF TypeOK
<1>4. TypeOK'
  BY <1>1, <1>3 DEF BeginList, TypeOK
<1>5. \A t \in Members : t # Target => AsRead(t, pos, record[t]) /\ record'[t] = record[t]
  BY <1>1, <1>2 DEF IInv, BeginList, Within, TypeOK
<1>6. Current' = Current /\ Target' = Target /\ More' = More /\ Known(Current)' = Known(Current)
  BY DEF BeginList, Current, Target, More, Known
<1>7. \A t \in Members : /\ isset'[t] <=> Occurrences(t, pos)' # {}
                         /\ t # Target => AsRead(t, pos, record[t])'
  BY <1>1, <1>5 DEF IInv, BeginList, Occurrences, AsRead
<1>8. record'[Target] = <<>>
  BY <1>1, <1>2 DEF TypeOK
<1> QED
  BY <1>1, <1>4, <1>6, <1>7, <1>8 DEF IInv, BeginList, Within, TornOnlyAtFailure

\* Turning to a field to skip keeps the inductive invariant.
LEMMA StepBeginSkip == IInv /\ BeginSkip => IInv'
BY DEF IInv, BeginSkip, TypeOK, Within, TornOnlyAtFailure, Current, Target, More, Known,
   Occurrences, AsRead

\* Resizing the list keeps the inductive invariant.
LEMMA StepReadSize == IInv /\ ReadSize => IInv'
<1> SUFFICES ASSUME IInv, ReadSize PROVE IInv'
  OBVIOUS
<1> DEFINE n == Len(Current.elems)
<1>1. TypeOK /\ More /\ Known(Current) /\ Target \in Members /\ n \in Nat
  BY FieldAtHand DEF IInv, ReadSize, Within
<1>2. record[Target] = <<>> /\ done = 0
  BY DEF IInv, ReadSize
<1>3. Resized(record[Target], n) = [i \in 1 .. n |-> Blank]
  BY <1>2 DEF Resized
<1>4. Resized(record[Target], n) \in Seq(Elem \cup {Torn}) /\ Len(Resized(record[Target], n)) = n
  BY <1>1, <1>3
<1>5. record' = [record EXCEPT ![Target] = Resized(record[Target], n)]
  BY DEF ReadSize
<1>6. record' \in [Members -> Seq(Elem \cup {Torn})] /\ Len(record'[Target]) = n
  BY <1>1, <1>4, <1>5 DEF TypeOK
<1>7. TypeOK'
  BY <1>1, <1>6 DEF ReadSize, TypeOK
<1>8. Current' = Current /\ Target' = Target /\ More' = More /\ Known(Current)' = Known(Current)
  BY DEF ReadSize, Current, Target, More, Known
<1>9. \A t \in Members : /\ isset'[t] <=> Occurrences(t, pos)' # {}
                         /\ t # Target => AsRead(t, pos, record[t])'
  <2>1. \A t \in Members : t # Target => AsRead(t, pos, record[t]) /\ record'[t] = record[t]
    BY <1>1, <1>5 DEF IInv, ReadSize, Within, TypeOK
  <2>2. \A t \in Members : isset[t] <=> Occurrences(t, pos) # {}
    BY DEF IInv, ReadSize
  <2> QED
    BY <2>1, <2>2 DEF ReadSize, Occurrences, AsRead
<1> QED
  BY <1>1, <1>2, <1>6, <1>7, <1>8, <1>9 DEF IInv, ReadSize, Within, TornOnlyAtFailure

\* Reading an element keeps the inductive invariant.
LEMMA StepReadElement == IInv /\ ReadElement => IInv'
<1> SUFFICES ASSUME IInv, ReadElement PROVE IInv'
  OBVIOUS
<1> DEFINE e == Current.elems
           s == record[Target]
<1>1. TypeOK /\ More /\ Known(Current) /\ Target \in Members /\ e \in Seq(Elem) /\ Len(e) \in Nat
  BY FieldAtHand DEF IInv, ReadElement, Within
<1>2. done \in Nat /\ done + 1 \in 1 .. Len(e) /\ Len(s) = Len(e) /\ s \in Seq(Elem \cup {Torn})
  BY <1>1 DEF IInv, ReadElement, TypeOK
<1>3. e[done + 1] \in Elem
  BY <1>1, <1>2
<1> DEFINE q == [s EXCEPT ![done + 1] = e[done + 1]]
<1>4. q \in Seq(Elem \cup {Torn}) /\ Len(q) = Len(e) /\ q[done + 1] = e[done + 1]
      /\ \A i \in 1 .. done : q[i] = s[i]
  BY <1>2, <1>3
<1>5. record' = [record EXCEPT ![Target] = q] /\ done' = done + 1
  BY DEF ReadElement
<1>6. record' \in [Members -> Seq(Elem \cup {Torn})] /\ record'[Target] = q
  BY <1>1, <1>4, <1>5 DEF TypeOK
<1>7. TypeOK'
  BY <1>1, <1>2, <1>5, <1>6 DEF ReadElement, TypeOK
<1>8. Current' = Current /\ Target' = Target /\ More' = More /\ Known(Current)' = Known(Current)
  BY DEF ReadElement, Current, Target, More, Known
<1>9. \A t \in Members : /\ isset'[t] <=> Occurrences(t, pos)' # {}
                         /\ t # Target => AsRead(t, pos, record[t])'
  <2>1. \A t \in Members : t # Target => AsRead(t, pos, record[t]) /\ record'[t] = record[t]
    BY <1>1, <1>5 DEF IInv, ReadElement, Within, TypeOK
  <2>2. \A t \in Members : isset[t] <=> Occurrences(t, pos) # {}
    BY DEF IInv, ReadElement
  <2> QED
    BY <2>1, <2>2 DEF ReadElement, Occurrences, AsRead
<1>10. \A i \in 1 .. done + 1 : q[i] = e[i]
  <2>1. \A i \in 1 .. done : s[i] = e[i]
    BY DEF IInv, ReadElement
  <2> QED
    BY <1>2, <1>4, <2>1
<1> QED
  BY <1>1, <1>2, <1>4, <1>5, <1>6, <1>7, <1>8, <1>9, <1>10
     DEF IInv, ReadElement, Within, TornOnlyAtFailure

\* Completing a list keeps the inductive invariant.
LEMMA StepEndList == IInv /\ EndList => IInv'
<1> SUFFICES ASSUME IInv, EndList PROVE IInv'
  OBVIOUS
<1>1. /\ TypeOK /\ More /\ Known(Current) /\ Target \in Members
      /\ stream \in Seq(Field) /\ pos \in 1 .. Len(stream) /\ Current.elems \in Seq(Elem)
      /\ \A t \in Members : IsFor(Current, t) <=> t = Target
  BY FieldAtHand DEF IInv, EndList, Within
<1>2. record[Target] = Current.elems
  <2>1. record[Target] \in Seq(Elem \cup {Torn}) /\ Current.elems \in Seq(Elem \cup {Torn})
    BY <1>1 DEF TypeOK
  <2>2. Len(record[Target]) = Len(Current.elems) /\ done = Len(Current.elems)
        /\ \A i \in 1 .. done : record[Target][i] = Current.elems[i]
    BY DEF IInv, EndList
  <2> QED
    BY <2>1, <2>2, SameSeq
<1>3. pos' = pos + 1 /\ record' = record /\ stream' = stream /\ old' = old /\ pc' = "field"
      /\ isset' = [isset EXCEPT ![Target] = TRUE]
  BY DEF EndList
<1>4. TypeOK'
  BY <1>1, <1>3 DEF EndList, TypeOK
<1>5. ASSUME NEW t \in Members
      PROVE  (isset'[t] <=> Occurrences(t, pos + 1) # {}) /\ AsRead(t, pos + 1, record[t])
  <2>1. CASE t = Target
    BY <1>1, <1>2, <1>3, <2>1, OccurrencesStep, AsReadStep DEF Current, TypeOK
  <2>2. CASE t # Target
    <3>1. ~IsFor(stream[pos], t)
      BY <1>1, <2>2 DEF Current
    <3>2. isset'[t] = isset[t] /\ AsRead(t, pos, record[t]) /\ (isset[t] <=> Occurrences(t, pos) # {})
      BY <1>1, <1>3, <2>2 DEF IInv, EndList, TypeOK
    <3> QED
      BY <1>1, <3>1, <3>2, OccurrencesStep, AsReadStep
  <2> QED
    BY <2>1, <2>2
<1>6. \A t \in Members : (isset'[t] <=> Occurrences(t, pos)' # {}) /\ AsRead(t, pos, record[t])'
  BY <1>3, <1>5 DEF Occurrences, AsRead
<1> QED
  BY <1>3, <1>4, <1>6 DEF IInv, Within, TornOnlyAtFailure

\* Skipping a field keeps the inductive invariant.
LEMMA StepSkip == IInv /\ Skip => IInv'
<1> SUFFICES ASSUME IInv, Skip PROVE IInv'
  OBVIOUS
<1>1. /\ TypeOK /\ More /\ stream \in Seq(Field) /\ pos \in 1 .. Len(stream)
      /\ \A t \in Members : ~IsFor(stream[pos], t)
  BY FieldAtHand DEF IInv, Skip, Current
<1>2. pos' = pos + 1 /\ record' = record /\ stream' = stream /\ old' = old /\ pc' = "field"
      /\ isset' = isset
  BY DEF Skip
<1>3. TypeOK'
  BY <1>1, <1>2 DEF Skip, TypeOK
<1>4. \A t \in Members : (isset[t] <=> Occurrences(t, pos + 1) # {}) /\ AsRead(t, pos + 1, record[t])
  BY <1>1, OccurrencesStep, AsReadStep DEF IInv, Skip, Within
<1>5. \A t \in Members : (isset'[t] <=> Occurrences(t, pos)' # {}) /\ AsRead(t, pos, record[t])'
  BY <1>2, <1>4 DEF Occurrences, AsRead
<1> QED
  BY <1>2, <1>3, <1>5 DEF IInv, Within, TornOnlyAtFailure

\* The end of the struct keeps the inductive invariant.
LEMMA StepStop == IInv /\ Stop => IInv'
<1> SUFFICES ASSUME IInv, Stop PROVE IInv'
  OBVIOUS
<1>1. TypeOK /\ pos = Len(stream) + 1
  BY DEF IInv, TypeOK, Stop, More
<1>2. pc' \in {"returned", "invalid"} /\ TypeOK'
  BY <1>1 DEF Stop, TypeOK
<1>3. \A t \in Members : (isset'[t] <=> Occurrences(t, pos)' # {}) /\ AsRead(t, pos, record[t])'
  BY DEF IInv, Stop, Within, Occurrences, AsRead
<1>4. /\ pc' = "returned" => \A t \in Members : isset'[t]
      /\ pc' = "invalid" => \E t \in Members : ~isset'[t]
  BY DEF Stop
<1> QED
  BY <1>1, <1>2, <1>3, <1>4 DEF IInv, Stop, Within, TornOnlyAtFailure

\* A throw at any point keeps the inductive invariant.
LEMMA StepFail == IInv /\ Fail => IInv'
<1> SUFFICES ASSUME IInv, Fail PROVE IInv'
  OBVIOUS
<1>1. TypeOK /\ pc \in {"field", "size", "element", "skip"} /\ pc' = "failed"
  BY DEF IInv, Fail
<1>2. UNCHANGED <<stream, old, isset, pos, done>>
  BY DEF Fail
<1>3. CASE record' = record
  <2>1. TypeOK'
    BY <1>1, <1>2, <1>3 DEF TypeOK
  <2>2. CASE Within
    <3>1. More /\ Known(Current) /\ \A t \in Members : IsFor(Current, t) <=> t = Target
      BY <1>1, <2>2, FieldAtHand DEF IInv
    <3>2. \A i \in 1 .. done : record[Target][i] = Current.elems[i]
      BY <1>1, <2>2 DEF IInv, Within
    <3>3. TornOnlyAtFailure'
      BY <1>1, <1>2, <1>3, <2>2, <3>1, <3>2
         DEF IInv, TornOnlyAtFailure, AsRead, Occurrences, More, Current
    <3> QED
      BY <1>1, <2>1, <3>3 DEF IInv, Within
  <2>3. CASE ~Within
    <3>1. TornOnlyAtFailure'
      BY <1>1, <1>2, <1>3, <2>3 DEF IInv, TornOnlyAtFailure, AsRead, Occurrences
    <3> QED
      BY <1>1, <2>1, <3>1 DEF IInv, Within
  <2> QED
    BY <2>2, <2>3
<1>4. CASE record' # record
  <2>1. pc = "element" /\ done < Len(Current.elems) /\ Target = "strings"
        /\ record' = [record EXCEPT !["strings"][done + 1] = Torn]
    BY <1>4 DEF Fail
  <2>2. More /\ Target \in Members /\ Current.elems \in Seq(Elem) /\ Len(Current.elems) \in Nat
        /\ \A t \in Members : IsFor(Current, t) <=> t = Target
    BY <1>1, <2>1, FieldAtHand DEF IInv, Within
  <2> DEFINE s == record["strings"]
             q == [s EXCEPT ![done + 1] = Torn]
  <2>3. s \in Seq(Elem \cup {Torn}) /\ done + 1 \in 1 .. Len(s) /\ done \in Nat
        /\ \A i \in 1 .. done : s[i] = Current.elems[i]
    BY <1>1, <2>1, <2>2 DEF IInv, TypeOK, Members
  <2>4. q \in Seq(Elem \cup {Torn}) /\ \A i \in 1 .. done : q[i] = s[i]
    BY <2>3
  <2>5. record' = [record EXCEPT !["strings"] = q]
    BY <2>1
  <2>6. record' \in [Members -> Seq(Elem \cup {Torn})] /\ record'["strings"] = q
        /\ \A t \in Members : t # "strings" => record'[t] = record[t]
    BY <1>1, <2>4, <2>5 DEF TypeOK, Members
  <2>7. TypeOK'
    BY <1>1, <1>2, <2>6 DEF TypeOK
  <2>8. \A t \in Members : t # Target => AsRead(t, pos, record[t])
    BY <2>1 DEF IInv
  <2>9. TornOnlyAtFailure'
    <3>1. \A t \in Members : t # Target => AsRead(t, pos, record[t])'
      BY <1>2, <2>1, <2>6, <2>8 DEF AsRead, Occurrences
    <3>2. \A i \in 1 .. done : record'[Target][i] = Current.elems[i]
      BY <2>1, <2>3, <2>4, <2>6
    <3>3. Current' = Current /\ More' /\ done' = done
      BY <1>2, <2>2 DEF Current, More
    <3> QED
      BY <1>2, <2>2, <3>1, <3>2, <3>3 DEF TornOnlyAtFailure
  <2> QED
    BY <1>1, <2>7, <2>9 DEF IInv, Within
<1> QED
  BY <1>3, <1>4

\* The inductive invariant is kept by every step of read().
LEMMA StepIInv == IInv /\ [Next]_vars => IInv'
<1>1. IInv /\ UNCHANGED vars => IInv'
  BY DEF IInv, vars, TypeOK, Within, TornOnlyAtFailure, Current, Target, More, Known, Occurrences,
     AsRead
<1> QED
  BY <1>1, StepBeginList, StepBeginSkip, StepReadSize, StepReadElement, StepEndList, StepSkip,
     StepStop, StepFail DEF Next

\* The inductive invariant holds in every reachable state.
THEOREM Inductive == Spec => []IInv
BY InitIInv, StepIInv, PTL DEF Spec

\* Type correctness of read(): the element index stays within the list.
THEOREM TypeCorrect == Spec => []TypeOK
<1>1. IInv => TypeOK
  BY DEF IInv
<1> QED
  BY <1>1, Inductive, PTL

\* A read that returns has replaced every member by its last list on the wire.
THEOREM ReturnsTheLatest == Spec => []ReturnsLatest
<1>1. IInv => ReturnsLatest
  BY DEF IInv, ReturnsLatest, Within
<1> QED
  BY <1>1, Inductive, PTL

\* INVALID_DATA means a missing member; what the record holds then.
THEOREM RejectsIncomplete == Spec => []InvalidIsIncomplete
<1>1. IInv => InvalidIsIncomplete
  BY DEF IInv, InvalidIsIncomplete, Within
<1> QED
  BY <1>1, Inductive, PTL

\* A read that throws halfway tears at most the member it was reading.
THEOREM TearsOneMember == Spec => []TornOnlyAtFailure
<1>1. IInv => TornOnlyAtFailure
  BY DEF IInv
<1> QED
  BY <1>1, Inductive, PTL

\* The occurrences in what write() emits: ids first, strings second.
LEMMA ImageOccurrences ==
  ASSUME NEW r, stream = Image(r)
  PROVE  /\ Len(stream) = 2
         /\ Occurrences("ids", 3) = {1} /\ stream[1].elems = r["ids"]
         /\ Occurrences("strings", 3) = {2} /\ stream[2].elems = r["strings"]
<1>1. /\ Len(stream) = 2
      /\ stream[1] = [fid |-> 1, list |-> TRUE, elems |-> r["ids"]]
      /\ stream[2] = [fid |-> 2, list |-> TRUE, elems |-> r["strings"]]
  BY DEF Image
<1>2. DOMAIN Member = 1 .. 2 /\ Member[1] = "ids" /\ Member[2] = "strings"
  BY DEF Member
<1>3. /\ IsFor(stream[1], "ids") /\ ~IsFor(stream[1], "strings")
      /\ ~IsFor(stream[2], "ids") /\ IsFor(stream[2], "strings")
  BY <1>1, <1>2 DEF IsFor
<1>4. \A j \in 1 .. 2 : j = 1 \/ j = 2
  OBVIOUS
<1>5. Occurrences("ids", 3) = {1}
  <2>1. Occurrences("ids", 3) = {j \in 1 .. 2 : j < 3 /\ IsFor(stream[j], "ids")}
    BY <1>1 DEF Occurrences
  <2> QED
    BY <2>1, <1>3, <1>4
<1>6. Occurrences("strings", 3) = {2}
  <2>1. Occurrences("strings", 3) = {j \in 1 .. 2 : j < 3 /\ IsFor(stream[j], "strings")}
    BY <1>1 DEF Occurrences
  <2> QED
    BY <2>1, <1>3, <1>4
<1> QED
  BY <1>1, <1>5, <1>6

\* read() inverts write(), whatever the record held and however long it is.
THEOREM ReadInvertsWrite == Spec => []RoundTrips
<1>1. IInv => RoundTrips
  <2> SUFFICES ASSUME IInv, NEW r \in Records, stream = Image(r), pc \in {"returned", "invalid"}
               PROVE  pc # "invalid" /\ record = r
    BY DEF RoundTrips
  <2>1. pos = 3
    <3>1. Len(stream) = 2
      BY ImageOccurrences
    <3> QED
      BY <3>1 DEF IInv
  <2>2. \A t \in Members : /\ isset[t] <=> Occurrences(t, 3) # {}
                           /\ AsRead(t, 3, record[t])
    BY <2>1 DEF IInv, Within
  <2>3. "ids" \in Members /\ "strings" \in Members /\ \A t \in Members : t = "ids" \/ t = "strings"
    BY DEF Members
  <2>4. \A t \in Members : isset[t]
    BY <2>2, <2>3, ImageOccurrences
  <2>5. record["ids"] = r["ids"] /\ record["strings"] = r["strings"]
    BY <2>2, <2>3, ImageOccurrences DEF AsRead
  <2>6. record \in [Members -> Seq(Elem \cup {Torn})] /\ r \in [Members -> Seq(Elem)]
    BY DEF IInv, TypeOK, Record
  <2>7. record = r
    <3>1. \A t \in Members : record[t] = r[t]
      BY <2>3, <2>5
    <3>2. record = [t \in Members |-> record[t]] /\ r = [t \in Members |-> r[t]]
      BY <2>6
    <3> QED
      BY <3>1, <3>2
  <2> QED
    BY <2>4, <2>7 DEF IInv
<1> QED
  BY <1>1, Inductive, PTL

(***************************************************************************)
(* No loop of read() turns without reading: each step is at a later field  *)
(* or, within the field, at a later stage or a later element, also where   *)
(* the struct has fields of other ids, of other types or a member twice.   *)
(***************************************************************************)
Stages == [field |-> 1, size |-> 2, skip |-> 2, element |-> 3, returned |-> 4, invalid |-> 4, failed |-> 4]
Advances ==
  [][\/ pos' > pos
     \/ pos' = pos /\ Stages[pc'] > Stages[pc]
     \/ UNCHANGED <<pos, pc>> /\ done' > done]_vars

(***************************************************************************)
(* No step of read() goes back or stays, for any struct: a later field, a  *)
(* later stage of the field, or a later element.  TypeCorrect bounds the   *)
(* fields, Inductive the elements, so no struct keeps read() going.        *)
(***************************************************************************)
THEOREM AlwaysAdvances == Spec => Advances
<1> DEFINE Further == \/ pos' > pos
                      \/ pos' = pos /\ Stages[pc'] > Stages[pc]
                      \/ UNCHANGED <<pos, pc>> /\ done' > done
<1>1. ASSUME IInv, Next PROVE Further
  <2>1. pos \in Nat /\ done \in Nat
    BY <1>1 DEF IInv, TypeOK
  <2>2. CASE BeginList
    <3>1. pos' = pos /\ pc = "field" /\ pc' = "size"
      BY <2>2, Zenon DEF BeginList
    <3> QED
      BY <3>1 DEF Stages
  <2>3. CASE BeginSkip \/ Stop
    BY <2>3 DEF BeginSkip, Stop, Stages
  <2>4. CASE ReadSize
    <3>1. pos' = pos /\ pc = "size" /\ pc' = "element"
      BY <2>4, Zenon DEF ReadSize
    <3> QED
      BY <3>1 DEF Stages
  <2>5. CASE ReadElement
    <3>1. UNCHANGED <<pos, pc>> /\ done' = done + 1
      BY <2>5, Zenon DEF ReadElement
    <3> QED
      BY <2>1, <3>1
  <2>6. CASE EndList \/ Skip
    <3>1. pos' = pos + 1
      BY <2>6 DEF EndList, Skip
    <3> QED
      BY <2>1, <3>1
  <2>7. CASE Fail
    <3>1. pos' = pos /\ pc \in {"field", "size", "element", "skip"} /\ pc' = "failed"
      BY <2>7, Zenon DEF Fail
    <3> QED
      BY <3>1 DEF Stages
  <2> QED
    BY <1>1, <2>2, <2>3, <2>4, <2>5, <2>6, <2>7 DEF Next
<1> QED
  BY <1>1, Inductive, PTL DEF Spec, Advances
=============================================================================
