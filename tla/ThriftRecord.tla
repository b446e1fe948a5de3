----------------------------- MODULE ThriftRecord -----------------------------
(***************************************************************************)
(* thrift_test::Record: read() of a serialized struct into a record that   *)
(* may already hold another one, as thrift_serialization_test does with r2 *)
(* in every iteration, and write().  A struct on the wire is a sequence of *)
(* fields; where its bytes end is decided by Fail, at any call that reads. *)
(***************************************************************************)
EXTENDS Naturals, Sequences

CONSTANTS
  Elem,      \* the integers and strings a list may hold
  Blank,     \* what resize() fills a list with
  Torn,      \* a string whose bytes ended while it was read
  Streams,   \* the structs that may be on the wire
  Records    \* what the record may hold when read() is called

\* The list members, by their field ids: Member[1] and Member[2].
Member == <<"ids", "strings">>
Members == {"ids", "strings"}

\* A field: its id, whether its type is T_LIST, and the elements of the list.
Field == [fid : Nat, list : BOOLEAN, elems : Seq(Elem)]
Record == [Members -> Seq(Elem)]

ASSUME StreamsAssumption == Streams \subseteq Seq(Field)
ASSUME RecordsAssumption == Records \subseteq Record
ASSUME BlankAssumption == Blank \in Elem /\ Torn \notin Elem

\* The fields write() puts on the wire for r.
Image_Swapped(r) == << [fid |-> 2, list |-> TRUE, elems |-> r["ids"]],
                       [fid |-> 1, list |-> TRUE, elems |-> r["strings"]] >>
Image(r) == << [fid |-> 1, list |-> TRUE, elems |-> r["ids"]],
               [fid |-> 2, list |-> TRUE, elems |-> r["strings"]] >>

VARIABLES
  stream,    \* the struct being read
  old,       \* what the record held when read() was called
  record,    \* the record
  isset,     \* isset_ids and isset_strings
  pos,       \* the field readFieldBegin returns next
  done,      \* elements of the current list read so far (_i4, _i9)
  pc         \* "field", "size", "element", "skip", or how read() ended:
             \* "returned", "invalid" (INVALID_DATA) or "failed"

vars == <<stream, old, record, isset, pos, done, pc>>

Init ==
  /\ stream \in Streams
  /\ old \in Records
  /\ record = old
  /\ isset = [t \in Members |-> FALSE]
  /\ pos = 1 /\ done = 0
  /\ pc = "field"

\* The switch of read(): the field is a list of one of the members.
Known(f) == f.fid \in DOMAIN Member /\ f.list

More == pos <= Len(stream)
Current == stream[pos]
Target == Member[Current.fid]

\* readFieldBegin of a member: its list is cleared at once.
BeginList_All ==
  /\ pc = "field" /\ More /\ Known(Current)
  /\ record' = [t \in Members |-> <<>>]
  /\ done' = 0 /\ pc' = "size"
  /\ UNCHANGED <<stream, old, isset, pos>>
BeginList ==
  /\ pc = "field" /\ More /\ Known(Current)
  /\ record' = [record EXCEPT ![Target] = <<>>]
  /\ done' = 0 /\ pc' = "size"
  /\ UNCHANGED <<stream, old, isset, pos>>

\* readFieldBegin of a field of another id or another type.
BeginSkip ==
  /\ pc = "field" /\ More /\ ~Known(Current)
  /\ pc' = "skip"
  /\ UNCHANGED <<stream, old, record, isset, pos, done>>

\* readListBegin and resize: new elements are blank, old ones stay.
Resized(s, n) == [i \in 1 .. n |-> IF i <= Len(s) THEN s[i] ELSE Blank]
ReadSize ==
  /\ pc = "size"
  /\ record' = [record EXCEPT ![Target] = Resized(@, Len(Current.elems))]
  /\ pc' = "element"
  /\ UNCHANGED <<stream, old, isset, pos, done>>

\* readI64 or readString into the next element.
ReadElement ==
  /\ pc = "element" /\ done < Len(Current.elems)
  /\ record' = [record EXCEPT ![Target][done + 1] = Current.elems[done + 1]]
  /\ done' = done + 1
  /\ UNCHANGED <<stream, old, isset, pos, pc>>

\* readListEnd and readFieldEnd.
EndList_Forget ==
  /\ pc = "element" /\ done = Len(Current.elems)
  /\ isset' = [isset EXCEPT !["ids"] = TRUE]
  /\ pos' = pos + 1 /\ pc' = "field"
  /\ UNCHANGED <<stream, old, record, done>>
EndList_Twice ==
  /\ pc = "element" /\ done = Len(Current.elems)
  /\ isset' = [isset EXCEPT ![Target] = TRUE]
  /\ pos' = pos + 2 /\ pc' = "field"
  /\ UNCHANGED <<stream, old, record, done>>
EndList_Both ==
  /\ pc = "element" /\ done = Len(Current.elems)
  /\ isset' = [t \in Members |-> TRUE]
  /\ pos' = pos + 1 /\ pc' = "field"
  /\ UNCHANGED <<stream, old, record, done>>
EndList ==
  /\ pc = "element" /\ done = Len(Current.elems)
  /\ isset' = [isset EXCEPT ![Target] = TRUE]
  /\ pos' = pos + 1 /\ pc' = "field"
  /\ UNCHANGED <<stream, old, record, done>>

\* skip(ftype) and readFieldEnd.
Skip_Stay ==
  /\ pc = "skip"
  /\ pc' = "field"
  /\ UNCHANGED <<stream, old, record, isset, pos, done>>
Skip ==
  /\ pc = "skip"
  /\ pos' = pos + 1 /\ pc' = "field"
  /\ UNCHANGED <<stream, old, record, isset, done>>

\* T_STOP, readStructEnd and the test of the two required fields.
Stop ==
  /\ pc = "field" /\ ~More
  /\ pc' = IF \A t \in Members : isset[t] THEN "returned" ELSE "invalid"
  /\ UNCHANGED <<stream, old, record, isset, pos, done>>

(***************************************************************************)
(* A call that reads throws: the bytes end or, in resize, memory does.  A  *)
(* string being read may be left with a part of its bytes.                 *)
(***************************************************************************)
Fail ==
  /\ pc \in {"field", "size", "element", "skip"}
  /\ record' \in {record} \cup
       (IF pc = "element" /\ done < Len(Current.elems) /\ Target = "strings"
          THEN {[record EXCEPT !["strings"][done + 1] = Torn]} ELSE {})
  /\ pc' = "failed"
  /\ UNCHANGED <<stream, old, isset, pos, done>>

Next == BeginList \/ BeginSkip \/ ReadSize \/ ReadElement \/ EndList \/ Skip \/ Stop \/ Fail

\* One thread that never waits: read() is called and runs to its end.
Spec == Init /\ [][Next]_vars /\ WF_vars(Next)

-----------------------------------------------------------------------------
(* Properties *)

TypeOK ==
  /\ stream \in Streams /\ old \in Records
  /\ record \in [Members -> Seq(Elem \cup {Torn})]
  /\ isset \in [Members -> BOOLEAN]
  /\ pos \in Nat \ {0} /\ pos <= Len(stream) + 1
  /\ done \in Nat
  /\ pc \in {"field", "size", "element", "skip", "returned", "invalid", "failed"}

\* Field f is a list for member t; these fields before position n.
IsFor(f, t) == f.list /\ \E m \in DOMAIN Member : f.fid = m /\ Member[m] = t
Occurrences(t, n) == {j \in 1 .. Len(stream) : j < n /\ IsFor(stream[j], t)}

\* v is what member t holds once the fields before position n are read.
AsRead(t, n, v) ==
  \/ Occurrences(t, n) = {} /\ v = old[t]
  \/ \E j \in Occurrences(t, n) :
       /\ \A k \in Occurrences(t, n) : k <= j
       /\ v = stream[j].elems

(***************************************************************************)
(* A read that returns leaves in each member the list of its last          *)
(* occurrence in the struct and nothing of what the record held before:    *)
(* the reuse of r2 in the loop of thrift_serialization_test is sound.      *)
(***************************************************************************)
ReturnsLatest ==
  pc = "returned" =>
    \A t \in Members : Occurrences(t, pos) # {} /\ AsRead(t, pos, record[t])

(***************************************************************************)
(* INVALID_DATA is thrown only for a struct in which a member is missing,  *)
(* and by then every other member has been replaced while the missing one  *)
(* still has its old value: the record the caller is left with is a mix.   *)
(***************************************************************************)
InvalidIsIncomplete ==
  pc = "invalid" =>
    /\ \E t \in Members : Occurrences(t, pos) = {}
    /\ \A t \in Members : AsRead(t, pos, record[t])

(***************************************************************************)
(* A read that throws halfway leaves at most one member neither as it was  *)
(* nor as one of the lists on the wire, the one it was reading; and of     *)
(* that one the elements already read are those of the wire.               *)
(***************************************************************************)
TornOnlyAtFailure ==
  pc = "failed" =>
    \A t \in Members :
      \/ AsRead(t, pos, record[t])
      \/ /\ More /\ IsFor(Current, t)
         /\ \A i \in 1 .. done : record[t][i] = Current.elems[i]

\* What write() emits of any record is read back as that record, whatever the
\* record read into held.
RoundTrips ==
  \A r \in Records : stream = Image(r) => pc # "invalid" /\ (pc = "returned" => record = r)

\* read() ends, whatever is on the wire.
Ends == <>(pc \in {"returned", "invalid", "failed"})
=============================================================================
