---------------------------- MODULE ProtobufRecord ----------------------------
(***************************************************************************)
(* protobuf_test::Record: the messages of a program, the calls that change *)
(* them, serialization with the sizes a message has cached, and parsing,   *)
(* one field of the wire after the other.  A caller serializes a message   *)
(* only if it has not changed since its ByteSizeLong, as SerializeToString *)
(* does by calling both in turn.                                           *)
(***************************************************************************)
EXTENDS Naturals, SequencesExt

CONSTANTS
  Messages,      \* the Record objects
  Ids,           \* the integers, with the lengths of packed fields among them
  Added,         \* those that a program adds of itself
  Strings,       \* the strings
  Utf8,          \* those that are valid UTF-8
  Foreign,       \* the fields the schema does not know
  Garbage,       \* what a size not yet stored may hold
  Int64Size(_),  \* the bytes of an integer on the wire
  Wires,         \* the strings that come from elsewhere
  Rereads,       \* what bytes that follow the length of a packed field may be
                 \* if they are read as fields, and as the parser takes them
  MaxItems       \* bound: a call that makes or writes a longer message is not made

\* WireFormatLite::Int64Size of a field of integers adds up theirs.
Bytes(ids) ==
  LET size[k \in 0 .. Len(ids)] == IF k = 0 THEN 0 ELSE size[k - 1] + Int64Size(ids[k])
  IN  size[Len(ids)]

Kinds == {"packed", "id", "string", "unknown", "bad"}

(***************************************************************************)
(* A field on the wire: what its tag announces, whether all its bytes are  *)
(* there, the length a packed field is framed with, and what it carries.   *)
(* "bad" is the tag 0 or an end of a group.                                *)
(***************************************************************************)
Field == [kind : Kinds, whole : BOOLEAN, len : Nat, items : Seq(Ids \cup Strings \cup Foreign)]

\* What the kind of a field says of its items, and the length of its frame.
Sound(f) ==
  /\ f.kind = "packed" => f.items \in Seq(Ids)
  /\ f.kind = "id" => f.items \in Seq(Ids) /\ Len(f.items) = 1
  /\ f.kind = "string" => f.items \in Seq(Strings) /\ Len(f.items) = 1
  /\ f.kind = "unknown" => f.items \in Seq(Foreign) /\ Len(f.items) = 1
Framed(f) == f.kind = "packed" /\ f.whole => f.len = Bytes(f.items)

ASSUME MessagesAssumption == Messages # {}
ASSUME ItemsAssumption == Utf8 \subseteq Strings /\ Added \subseteq Ids
ASSUME SizesAssumption ==
  /\ \A x \in Ids : Int64Size(x) \in Nat
  /\ Garbage \subseteq Nat /\ Garbage # {} /\ MaxItems \in Nat
ASSUME WiresAssumption ==
  /\ Wires \subseteq Seq(Field) /\ \A w \in Wires : \A k \in DOMAIN w : Sound(w[k]) /\ Framed(w[k])
  /\ Rereads \subseteq Seq(Field) /\ Rereads # {} /\ \A w \in Rereads : \A k \in DOMAIN w : Sound(w[k])
  /\ \A w \in Wires : \A k \in DOMAIN w : w[k].kind = "packed" => w[k].len \in Ids

Content == [ids : Seq(Ids), strings : Seq(Strings), unknown : Seq(Foreign)]
Empty == [ids |-> <<>>, strings |-> <<>>, unknown |-> <<>>]
Items(c) == Len(c.ids) + Len(c.strings) + Len(c.unknown)

VARIABLES
  content,    \* ids_, strings_ and the unknown fields, of each message
  idsSize,    \* _ids_cached_byte_size_, of each message
  measured,   \* the messages that have not changed since their ByteSizeLong
  wire,       \* the string serialized last, or one from elsewhere
  meant,      \* history: <<the content>> serialized into wire, <<>> if foreign
  parse       \* the last parse: its state, "astray" once packed ids are read
              \* as fields; its message; the fields, those read as they were
              \* taken, and the next one; and what the message is to keep of
              \* its content (history)

vars == <<content, idsSize, measured, wire, meant, parse>>

NoParse == [state |-> "idle", into |-> CHOOSE m \in Messages : TRUE, fields |-> <<>>, pos |-> 1,
            kept |-> Empty]

\* The constructor leaves _ids_cached_byte_size_ unset.
Init ==
  /\ content = [m \in Messages |-> Empty]
  /\ idsSize \in [Messages -> Garbage]
  /\ measured = {}
  /\ wire \in Wires /\ meant = <<>>
  /\ parse = NoParse

-----------------------------------------------------------------------------
(* Calls that change a message. *)

Parsing == parse.state \in {"parsing", "astray"}
Idle == ~Parsing

\* c becomes the content of m.
Change(m, c) ==
  /\ Idle /\ Items(c) <= MaxItems
  /\ content' = [content EXCEPT ![m] = c]
  /\ measured' = measured \ {m}
  /\ parse' = NoParse
  /\ UNCHANGED <<idsSize, wire, meant>>

add_ids(m, x) == Change(m, [content[m] EXCEPT !.ids = Append(@, x)])
set_ids(m, k, x) == Change(m, [content[m] EXCEPT !.ids[k] = x])
clear_ids(m) == Change(m, [content[m] EXCEPT !.ids = <<>>])
add_strings(m, s) == Change(m, [content[m] EXCEPT !.strings = Append(@, s)])
set_strings(m, k, s) == Change(m, [content[m] EXCEPT !.strings[k] = s])
clear_strings(m) == Change(m, [content[m] EXCEPT !.strings = <<>>])

Access(m) ==
  \/ \E x \in Added : add_ids(m, x) \/ \E k \in DOMAIN content[m].ids : set_ids(m, k, x)
  \/ \E s \in Strings : add_strings(m, s) \/ \E k \in DOMAIN content[m].strings : set_strings(m, k, s)
  \/ clear_ids(m)
  \/ clear_strings(m)

\* Clear drops the unknown fields too.
Cleared_Known(c) == [Empty EXCEPT !.unknown = c.unknown]
Cleared(c) == Empty
Clear(m) == Change(m, Cleared(content[m]))

\* Every part of d goes after that of c.
Merged(c, d) ==
  [ids |-> c.ids \o d.ids, strings |-> c.strings \o d.strings, unknown |-> c.unknown \o d.unknown]

\* A message must not be merged into itself.
MergeFrom(m, from) == m # from /\ Change(m, Merged(content[m], content[from]))

\* The assignment, too.  To copy a message to itself is nothing.
CopyFrom(m, from) ==
  m # from /\ Change(m, Merged(Cleared(content[m]), content[from]))

\* The sizes stay where they are.  Move construction and assignment do this.
Swap(m, other) ==
  /\ Idle /\ m # other
  /\ content' = [content EXCEPT ![m] = content[other], ![other] = content[m]]
  /\ measured' = measured \ {m, other}
  /\ parse' = NoParse
  /\ UNCHANGED <<idsSize, wire, meant>>

\* m is destroyed and made again from another message, its size unset: a copy
\* leaves that message as it is, a move leaves it empty.
Construct(m, from, left) ==
  /\ Idle /\ m # from /\ Items(content[from]) <= MaxItems
  /\ content' = [content EXCEPT ![m] = content[from], ![from] = left]
  /\ idsSize' \in {[idsSize EXCEPT ![m] = g] : g \in Garbage}
  /\ measured' = measured \ IF left = content[from] THEN {m} ELSE {m, from}
  /\ parse' = NoParse
  /\ UNCHANGED <<wire, meant>>

CopyConstruct(m, from) == Construct(m, from, content[from])
MoveConstruct(m, from) == Construct(m, from, Empty)

-----------------------------------------------------------------------------
(* Serialization. *)

\* ByteSizeLong stores the size of the packed ids, 0 if there are none.
ByteSizeLong_Cached(m) ==
  /\ Idle
  /\ idsSize' = [idsSize EXCEPT ![m] = IF @ = 0 THEN Bytes(content[m].ids) ELSE @]
  /\ measured' = measured \cup {m}
  /\ parse' = NoParse
  /\ UNCHANGED <<content, wire, meant>>
ByteSizeLong(m) ==
  /\ Idle
  /\ idsSize' = [idsSize EXCEPT ![m] = Bytes(content[m].ids)]
  /\ measured' = measured \cup {m}
  /\ parse' = NoParse
  /\ UNCHANGED <<content, wire, meant>>

Packed(n, ids) == [kind |-> "packed", whole |-> TRUE, len |-> n, items |-> ids]
One(kind, item) == [kind |-> kind, whole |-> TRUE, len |-> 0, items |-> <<item>>]

\* The ids packed under the size n, if there are any, the strings whether they
\* are valid UTF-8 or not, and the unknown fields.
Image(c, n) ==
  (IF c.ids = <<>> THEN <<>> ELSE <<Packed(n, c.ids)>>)
  \o [k \in DOMAIN c.strings |-> One("string", c.strings[k])]
  \o [k \in DOMAIN c.unknown |-> One("unknown", c.unknown[k])]

SerializeWithCachedSizes(m) ==
  /\ Idle /\ m \in measured /\ Items(content[m]) <= MaxItems
  /\ wire' = Image(content[m], idsSize[m])
  /\ meant' = <<content[m]>>
  /\ parse' = NoParse
  /\ UNCHANGED <<content, idsSize, measured>>

-----------------------------------------------------------------------------
(* Parsing. *)

\* The items on the wire, for the bound.
Load(w) == Len(FlattenSeq([k \in DOMAIN w |-> w[k].items]))

\* MergePartialFromCodedStream is called for m, which holds c and is to keep
\* what the caller says.
Start(m, c, kept) ==
  /\ Idle /\ Items(c) + Load(wire) <= MaxItems
  /\ content' = [content EXCEPT ![m] = c]
  /\ measured' = measured \ {m}
  /\ parse' = [state |-> "parsing", into |-> m, fields |-> wire, pos |-> 1, kept |-> kept]
  /\ UNCHANGED <<idsSize, wire, meant>>

MergeFromString(m) == Start(m, content[m], content[m])
ParseFromString(m) == Start(m, Cleared(content[m]), Empty)

More == Parsing /\ parse.pos <= Len(parse.fields)
Current == parse.fields[parse.pos]
Held == content[parse.into]

\* The message being parsed holds c from now on.
Hold(c) == content' = [content EXCEPT ![parse.into] = c]

Step == parse' = [parse EXCEPT !.pos = @ + 1] /\ UNCHANGED <<idsSize, measured, wire, meant>>
Fail == parse' = [parse EXCEPT !.state = "rejected"] /\ UNCHANGED <<idsSize, measured, wire, meant>>

\* case 1: packed, or the first of those that come one at a time.
ReadIds ==
  /\ More /\ Current.kind \in {"packed", "id"} /\ Current.whole
  /\ Hold([Held EXCEPT !.ids = @ \o Current.items])
  /\ Step

(***************************************************************************)
(* case 1, after the first: ReadRepeatedPrimitive is told that more of them *)
(* begin with the tag 10, that of a packed field.  As long as there is room *)
(* reserved in ids_ it takes the length of such a field for an id.  What it *)
(* leaves, the packed ids and all that follows, is then read as fields.     *)
(***************************************************************************)
Behind ==
  IF Current.whole /\ Current.items = <<>>
  THEN {SubSeq(parse.fields, parse.pos + 1, Len(parse.fields))}
  ELSE Rereads
TakeLength(rest) ==
  parse' = [parse EXCEPT
    !.state = IF Current.whole /\ Current.items = <<>> THEN @ ELSE "astray",
    !.fields = SubSeq(@, 1, parse.pos - 1) \o <<One("id", Current.len)>> \o rest,
    !.pos = @ + 1]
AfterId == parse.pos > 1 /\ parse.fields[parse.pos - 1].kind = "id"
ReadMoreIds_Any ==
  /\ More /\ parse.state = "parsing" /\ parse.pos > 1 /\ Current.kind = "packed"
  /\ Hold([Held EXCEPT !.ids = Append(@, Current.len)])
  /\ \E rest \in Behind : TakeLength(rest)
  /\ UNCHANGED <<idsSize, measured, wire, meant>>
ReadMoreIds ==
  /\ More /\ parse.state = "parsing" /\ AfterId /\ Current.kind = "packed"
  /\ Hold([Held EXCEPT !.ids = Append(@, Current.len)])
  /\ \E rest \in Behind : TakeLength(rest)
  /\ UNCHANGED <<idsSize, measured, wire, meant>>

\* case 2: the string is added before it is looked at.
ReadString_First ==
  /\ More /\ Current.kind = "string" /\ Current.whole
  /\ Hold([Held EXCEPT !.strings = @ \o Current.items])
  /\ IF (Held.strings \o Current.items)[1] \in Utf8 THEN Step ELSE Fail
ReadString ==
  /\ More /\ Current.kind = "string" /\ Current.whole
  /\ Hold([Held EXCEPT !.strings = @ \o Current.items])
  /\ IF Current.items[1] \in Utf8 THEN Step ELSE Fail

\* SkipField keeps what it skips.
SkipField_Drop ==
  /\ More /\ Current.kind = "unknown" /\ Current.whole
  /\ Hold(Held)
  /\ Step
SkipField_String ==
  /\ More /\ Current.kind = "unknown" /\ Current.whole
  /\ Hold([Held EXCEPT !.strings = @ \o Current.items])
  /\ Step
SkipField_Stay ==
  /\ More /\ Current.kind = "unknown" /\ Current.whole
  /\ UNCHANGED vars
SkipField ==
  /\ More /\ Current.kind = "unknown" /\ Current.whole
  /\ Hold([Held EXCEPT !.unknown = @ \o Current.items])
  /\ Step

\* The bytes of a field end early.  Ids read so far stay; a string stays as
\* what there is of it, whatever that is, and a foreign field may.
Cut ==
  /\ More /\ ~Current.whole
  /\ \/ /\ Current.kind = "packed"
        /\ \E n \in 0 .. Len(Current.items) :
             Hold([Held EXCEPT !.ids = @ \o SubSeq(Current.items, 1, n)])
     \/ /\ Current.kind = "string"
        /\ \E s \in Strings : Hold([Held EXCEPT !.strings = Append(@, s)])
     \/ /\ Current.kind = "unknown"
        /\ \E f \in Foreign : Hold([Held EXCEPT !.unknown = Append(@, f)])
     \/ /\ Current.kind \in {"id", "unknown", "bad"}
        /\ Hold(Held)
  /\ Fail

\* The tag 0 ends the loop, but not the string: the caller notices.
BadTag ==
  /\ More /\ Current.kind = "bad" /\ Current.whole
  /\ Hold(Held)
  /\ Fail

Success ==
  /\ Parsing /\ parse.pos > Len(parse.fields)
  /\ parse' = [parse EXCEPT !.state = "accepted"]
  /\ UNCHANGED <<content, idsSize, measured, wire, meant>>

ParseStep == ReadIds \/ ReadMoreIds \/ ReadString \/ SkipField \/ Cut \/ BadTag \/ Success

Call ==
  \E m \in Messages :
    \/ Access(m) \/ Clear(m)
    \/ ByteSizeLong(m) \/ SerializeWithCachedSizes(m)
    \/ ParseFromString(m) \/ MergeFromString(m)
    \/ \E other \in Messages :
         \/ MergeFrom(m, other) \/ CopyFrom(m, other) \/ Swap(m, other)
         \/ CopyConstruct(m, other) \/ MoveConstruct(m, other)

Next == Call \/ ParseStep

\* A parse that has begun goes on; nobody has to make another call.
Spec == Init /\ [][Next]_vars /\ WF_vars(ParseStep)

-----------------------------------------------------------------------------
(* Properties *)

TypeOK ==
  /\ content \in [Messages -> Content]
  /\ idsSize \in [Messages -> Nat]
  /\ measured \subseteq Messages
  /\ wire \in Seq(Field) /\ \A k \in DOMAIN wire : Sound(wire[k])
  /\ meant \in Seq(Content) /\ Len(meant) <= 1
  /\ parse \in [state : {"idle", "parsing", "astray", "accepted", "rejected"}, into : Messages,
                fields : Seq(Field), pos : Nat \ {0}, kept : Content]
  /\ \A k \in DOMAIN parse.fields : Sound(parse.fields[k])

(***************************************************************************)
(* The size a message is framed with is that of its ids, whatever calls    *)
(* came before on this message or on those it was copied from, merged into *)
(* or swapped with: a cached size is neither moved nor trusted too long.   *)
(***************************************************************************)
WellFramed ==
  /\ \A m \in measured : idsSize[m] = Bytes(content[m].ids)
  /\ \A k \in DOMAIN wire : Framed(wire[k])

\* The items of the fields of w of these kinds, and the message w stands for.
Carried(w, kinds) ==
  FlattenSeq([k \in DOMAIN w |-> IF w[k].kind \in kinds THEN w[k].items ELSE <<>>])
Meaning(w) ==
  [ids |-> Carried(w, {"packed", "id"}), strings |-> Carried(w, {"string"}),
   unknown |-> Carried(w, {"unknown"})]

\* One of the first n fields of w is packed and follows one that is not.
Mixed(w, n) == \E k \in 2 .. Len(w) : k <= n /\ w[k].kind = "packed" /\ w[k - 1].kind = "id"

Extends(c, d) ==
  IsPrefix(d.ids, c.ids) /\ IsPrefix(d.strings, c.strings) /\ IsPrefix(d.unknown, c.unknown)

\* The message has what it kept and, of the first n fields, those before a mix.
HoldsFirst(n) ==
  \A k \in 0 .. Len(wire) :
    k <= n /\ ~Mixed(wire, k) => Extends(Held, Merged(parse.kept, Meaning(SubSeq(wire, 1, k))))

(***************************************************************************)
(* A string that is accepted has been merged, the way MergeFrom would have *)
(* merged the message it stands for, into what the message parsed into had *)
(* kept.  Ids may be packed or not, but a packed field that follows an id  *)
(* that is not may be misread: then no more is certain than that what came *)
(* before it was merged.  What was serialized here is never mixed, and     *)
(* stands for the message serialized, unknown fields included.             *)
(***************************************************************************)
AcceptedIsMerged ==
  /\ parse.state = "accepted" =>
       /\ ~Mixed(wire, Len(wire)) => Held = Merged(parse.kept, Meaning(wire))
       /\ HoldsFirst(Len(wire))
  /\ meant # <<>> => meant = <<Meaning(wire)>> /\ ~Mixed(wire, Len(wire))

(***************************************************************************)
(* What was serialized here is rejected only for a string that is not      *)
(* UTF-8, which serialization lets pass; and no rejection loses what the   *)
(* message held or what was read before, or, unless the string is mixed,   *)
(* makes the message hold more items than the fields read.                 *)
(***************************************************************************)
RejectedForCause ==
  parse.state = "rejected" =>
    /\ meant # <<>> =>
         \E k \in DOMAIN meant[1].strings : meant[1].strings[k] \notin Utf8
    /\ HoldsFirst(parse.pos - 1)
    /\ ~Mixed(wire, parse.pos) =>
         LET read == Meaning(SubSeq(wire, 1, parse.pos))
         IN  /\ IsPrefix(Held.ids, parse.kept.ids \o read.ids)
             /\ Items(Held) <= Items(parse.kept) + Items(read)

\* Every parse ends.
ParseEnds == [](Parsing => <>~Parsing)
=============================================================================
