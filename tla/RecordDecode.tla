----------------------------- MODULE RecordDecode -----------------------------
(***************************************************************************)
(* The records of boost, cereal, yas, msgpack and avro: a record that may  *)
(* hold another one already, as r2 does in every test, is decoded member   *)
(* by member from an image.  Each record names its members in its own      *)
(* serialize(); how a vector is filled is the library's.                   *)
(***************************************************************************)
EXTENDS Naturals, SequencesExt

CONSTANTS
  Elem,      \* the integers and strings a member may hold
  Blank,     \* what resize() fills a vector with
  Torn,      \* a string whose bytes ended while it was read
  Others,    \* the fields of other writers, by name
  Records    \* what a record may hold, when it is sent and before it is read

Members == {"ids", "strings"}
Record == [Members -> Seq(Elem)]

ASSUME RecordsAssumption == Records \subseteq Record /\ Records # {}
ASSUME ElemAssumption == Blank \in Elem /\ Torn \notin Elem
ASSUME OthersAssumption == Others \cap Members = {}

\* The order in which each record serializes its members, out and in.
boost_test == <<"ids", "strings">>
cereal_test == <<"ids", "strings">>
yas_test == <<"ids", "strings">>
msgpack_test == <<"ids", "strings">>

\* avro has a function for each direction, and a schema that numbers the members.
Schema == <<"ids", "strings">>
encode == <<"ids", "strings">>
decode_Swapped == <<"strings", "ids">>
decode == <<"ids", "strings">>

Codecs == {"boost", "cereal", "yas", "msgpack", "avro", "avro resolving"}
Order(codec, avro) ==
  CASE codec = "boost" -> boost_test
    [] codec = "cereal" -> cereal_test
    [] codec = "yas" -> yas_test
    [] codec = "msgpack" -> msgpack_test
    [] OTHER -> avro

\* What a writer may have put on the wire.  An array of msgpack may be shorter or
\* longer than the record; an avro schema may have its fields in another order
\* and more of them; the others know this record only.
Inserted(own) == {InsertAt(own, k, x) : k \in 1 .. 3, x \in Others}
Layouts(codec) ==
  LET own == Order(codec, encode)
  IN  CASE codec = "msgpack" -> {SubSeq(own, 1, n) : n \in 0 .. 2} \cup {Append(own, x) : x \in Others}
        [] codec = "avro resolving" -> {own, Reverse(own)} \cup Inserted(own) \cup Inserted(Reverse(own))
        [] OTHER -> {own}

VARIABLES
  codec,     \* the library
  layout,    \* the members on the wire
  sent,      \* the record that was encoded
  old,       \* what the record held before
  record,    \* the record
  pos,       \* the place on the wire
  done,      \* elements of the current member decoded so far
  pc         \* "member", "element", "returned" or "failed"

vars == <<codec, layout, sent, old, record, pos, done, pc>>

Init ==
  /\ codec \in Codecs /\ layout \in Layouts(codec)
  /\ sent \in Records /\ old \in Records
  /\ record = old
  /\ pos = 1 /\ done = 0 /\ pc = "member"

More == pos <= Len(layout)

\* The member a place is decoded into: the one with the number of the field
\* through a resolving decoder, whose fieldOrder is the writer's, else by place.
Number(m) == CHOOSE k \in DOMAIN Schema : Schema[k] = m
Target == IF codec = "avro resolving" THEN decode[Number(layout[pos])] ELSE Order(codec, decode)[pos]
Known == More /\ layout[pos] \in Members
Items == sent[layout[pos]]

\* A vector is cleared (avro) or resized, its elements kept, to begin with.
Resized(s, n) == [k \in 1 .. n |-> IF k <= Len(s) THEN s[k] ELSE Blank]
Grows == codec \in {"avro", "avro resolving"}
BeginMember_Keep ==
  /\ pc = "member" /\ Known
  /\ record' = [record EXCEPT ![Target] = IF Grows THEN @ ELSE Resized(@, Len(Items))]
  /\ done' = 0 /\ pc' = "element"
  /\ UNCHANGED <<codec, layout, sent, old, pos>>
BeginMember ==
  /\ pc = "member" /\ Known
  /\ record' = [record EXCEPT ![Target] = IF Grows THEN <<>> ELSE Resized(@, Len(Items))]
  /\ done' = 0 /\ pc' = "element"
  /\ UNCHANGED <<codec, layout, sent, old, pos>>

DecodeElement ==
  /\ pc = "element" /\ done < Len(Items)
  /\ LET x == Items[done + 1]
     IN  record' = [record EXCEPT ![Target] = IF Grows THEN Append(@, x) ELSE [@ EXCEPT ![done + 1] = x]]
  /\ done' = done + 1
  /\ UNCHANGED <<codec, layout, sent, old, pos, pc>>

EndMember ==
  /\ pc = "element" /\ done = Len(Items)
  /\ pos' = pos + 1 /\ pc' = "member"
  /\ UNCHANGED <<codec, layout, sent, old, record, done>>

\* A field the record has no member for is skipped.
SkipOther_Stay ==
  /\ pc = "member" /\ More /\ ~Known
  /\ UNCHANGED vars
SkipOther ==
  /\ pc = "member" /\ More /\ ~Known
  /\ pos' = pos + 1
  /\ UNCHANGED <<codec, layout, sent, old, record, done, pc>>

Return ==
  /\ pc = "member" /\ ~More
  /\ pc' = "returned"
  /\ UNCHANGED <<codec, layout, sent, old, record, pos, done>>

\* Any call may throw: the bytes end or are no image.  boost, cereal and yas
\* read a string in place; avro and msgpack have it complete first.
Fail ==
  /\ pc \in {"member", "element"}
  /\ pc' = "failed"
  /\ \/ UNCHANGED record
     \/ /\ pc = "element" /\ done < Len(Items) /\ Target = "strings"
        /\ codec \in {"boost", "cereal", "yas"}
        /\ record' = [record EXCEPT ![Target][done + 1] = Torn]
  /\ UNCHANGED <<codec, layout, sent, old, pos, done>>

Decode == BeginMember \/ DecodeElement \/ EndMember \/ SkipOther \/ Return
Next == Decode \/ Fail

\* A decode goes on by itself; nothing has to fail.
Spec == Init /\ [][Next]_vars /\ WF_vars(Decode)

-----------------------------------------------------------------------------
(* Properties *)

OnWire(m) == \E k \in DOMAIN layout : layout[k] = m

(***************************************************************************)
(* A decode that returns has replaced every member that was on the wire,   *)
(* wherever it was there and whatever the record held, and no other: what  *)
(* a short array of msgpack does not carry is still that of the record     *)
(* read before.                                                            *)
(***************************************************************************)
ReturnsSent ==
  pc = "returned" => \A m \in Members : record[m] = IF OnWire(m) THEN sent[m] ELSE old[m]

(***************************************************************************)
(* At any time, and so whenever a decode fails, the members before the     *)
(* current place are those sent, the ones after it are the old ones, and   *)
(* only one member is in between; an element is torn only by a failure.    *)
(***************************************************************************)
OneMemberAtATime ==
  /\ \A k \in DOMAIN layout : layout[k] \in Members =>
       /\ k < pos => record[layout[k]] = sent[layout[k]]
       /\ k > pos => record[layout[k]] = old[layout[k]]
       /\ k = pos => /\ pc = "member" => record[layout[k]] = old[layout[k]]
                     /\ pc = "element" => SubSeq(record[layout[k]], 1, done) = SubSeq(sent[layout[k]], 1, done)
  /\ pc # "failed" => record \in Record

(* Every decode ends, whatever fields the writer has added. *)
Ends == <>(pc \in {"returned", "failed"})
=============================================================================
