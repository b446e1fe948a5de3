----------------------------- MODULE CapnpRecord -----------------------------
(***************************************************************************)
(* capnp_test::Record: the accessors of the records of some messages, the  *)
(* lists in the messages' arenas, which are zeroed and never reused, and   *)
(* the Orphans a program holds.  A pointer is the number of a list; a      *)
(* List::Builder keeps one that no accessor ever updates.                  *)
(***************************************************************************)
EXTENDS Naturals, Sequences

CONSTANTS
  Messages,   \* the MessageBuilders, with a Record as root each
  Orphans,    \* the Orphan objects of the program
  Items,      \* the integers and texts a list may hold
  Zero,       \* what a list is filled with when allocated and when zeroed
  MaxLength,  \* bound: the length of a list
  MaxLists    \* bound: the lists ever allocated

ASSUME ItemsAssumption == Zero \in Items
ASSUME PlacesAssumption == Orphans \cap (Messages \X {0, 1}) = {}
ASSUME BoundsAssumption == MaxLength \in Nat /\ MaxLists \in Nat

Fields == {"ids", "strings"}

\* The pointer of the struct the accessors of a field take.
Pointer_Same(f) == 0
Pointer(f) == IF f = "ids" THEN 0 ELSE 1

Slots == Messages \X {0, 1}
Slot(m, f) == <<m, Pointer(f)>>
Places == Slots \cup Orphans

Contents == UNION {[1 .. n -> Items] : n \in 0 .. MaxLength}
List == [message : Messages, field : Fields, items : Contents]

VARIABLES
  lists,      \* the lists in the arenas, in the order they were allocated
  at,         \* the list each place points to, 0 if the pointer is null
  hand,       \* the list of the List::Builder at hand, 0 if none
  thrown      \* whether the last call has thrown

vars == <<lists, at, hand, thrown>>

Init ==
  /\ lists = <<>>
  /\ at = [p \in Places |-> 0]
  /\ hand = 0 /\ thrown = FALSE

Blank(n) == [k \in 1 .. n |-> Zero]

\* zeroObject: the list stays in the arena, all zeros.
Zeroed(l) == IF l = 0 THEN lists ELSE [lists EXCEPT ![l].items = Blank(Len(@))]

has(m, f) == at[Slot(m, f)] # 0

\* Reader and Builder: an empty list for a null pointer.
get(m, f) == IF has(m, f) THEN lists[at[Slot(m, f)]].items ELSE <<>>

\* getIds and getStrings of the Builder.
Get(m, f) ==
  /\ hand' = at[Slot(m, f)]
  /\ thrown' = FALSE
  /\ UNCHANGED <<lists, at>>

\* The list that f has is zeroed, then one is allocated and pointed to.
Allocate_Empty(m, f, items) ==
  /\ Len(lists) < MaxLists
  /\ lists' = IF items = <<>> THEN Zeroed(at[Slot(m, f)])
              ELSE Append(Zeroed(at[Slot(m, f)]), [message |-> m, field |-> f, items |-> items])
  /\ at' = [at EXCEPT ![Slot(m, f)] = Len(lists) + 1]
  /\ thrown' = FALSE
Allocate(m, f, items) ==
  /\ Len(lists) < MaxLists
  /\ lists' = Append(Zeroed(at[Slot(m, f)]), [message |-> m, field |-> f, items |-> items])
  /\ at' = [at EXCEPT ![Slot(m, f)] = Len(lists) + 1]
  /\ thrown' = FALSE

init(m, f, n) == Allocate(m, f, Blank(n)) /\ hand' = Len(lists) + 1

\* set from a list somewhere, copied when f's own list is already zeroed.
set(m, f, l) ==
  /\ lists[l].field = f
  /\ Allocate(m, f, Zeroed(at[Slot(m, f)])[l].items)
  /\ UNCHANGED hand

\* set from an ArrayPtr: init and one element after the other.
setArray(m, f, items) == Allocate(m, f, items) /\ UNCHANGED hand

\* The place q gets what p points to, and what q had is zeroed.
Move(p, q) ==
  /\ lists' = Zeroed(at[q])
  /\ at' = [at EXCEPT ![q] = at[p], ![p] = 0]
  /\ thrown' = FALSE
  /\ UNCHANGED hand

\* An Orphan is assigned what disownIds or disownStrings returns.
disown_Share(m, f, o) ==
  /\ lists' = Zeroed(at[o])
  /\ at' = [at EXCEPT ![o] = at[Slot(m, f)]]
  /\ thrown' = FALSE
  /\ UNCHANGED hand
disown(m, f, o) == Move(Slot(m, f), o)

\* The type of the Orphan is that of the field; it is adopted within its
\* message only, and refused before anything is changed.
Typed(f, o) == at[o] # 0 => lists[at[o]].field = f
Ours(m, o) == at[o] # 0 => lists[at[o]].message = m
adopt(m, f, o) == Typed(f, o) /\ Ours(m, o) /\ Move(o, Slot(m, f))
adoptForeign(m, f, o) ==
  /\ Typed(f, o) /\ ~Ours(m, o)
  /\ thrown' = TRUE
  /\ UNCHANGED <<lists, at, hand>>

\* The destructor of an Orphan.
Drop(o) ==
  /\ lists' = Zeroed(at[o])
  /\ at' = [at EXCEPT ![o] = 0]
  /\ thrown' = FALSE
  /\ UNCHANGED hand

\* List::Builder::set of the builder at hand.
Write(k, x) ==
  /\ lists' = [lists EXCEPT ![hand].items[k] = x]
  /\ thrown' = FALSE
  /\ UNCHANGED <<at, hand>>

Next ==
  \/ \E m \in Messages, f \in Fields :
       \/ Get(m, f)
       \/ \E n \in 0 .. MaxLength : init(m, f, n)
       \/ \E items \in Contents : setArray(m, f, items)
       \/ \E l \in DOMAIN lists : set(m, f, l)
       \/ \E o \in Orphans : disown(m, f, o) \/ adopt(m, f, o) \/ adoptForeign(m, f, o)
  \/ \E o \in Orphans : Drop(o)
  \/ hand # 0 /\ \E k \in DOMAIN lists[hand].items, x \in Items : Write(k, x)

Spec == Init /\ [][Next]_vars

-----------------------------------------------------------------------------
(* Properties *)

TypeOK ==
  /\ lists \in Seq(List)
  /\ at \in [Places -> 0 .. Len(lists)]
  /\ hand \in 0 .. Len(lists)
  /\ thrown \in BOOLEAN

(***************************************************************************)
(* No list is reached from two places, and what a record points to lies in *)
(* its own message and is of its field, whatever has been disowned and     *)
(* adopted since: every pointer written into a message can be encoded.     *)
(***************************************************************************)
OneOwner ==
  /\ \A p, q \in Places : at[p] # 0 /\ at[p] = at[q] => p = q
  /\ \A m \in Messages, f \in Fields :
       has(m, f) => /\ lists[at[Slot(m, f)]].message = m
                    /\ lists[at[Slot(m, f)]].field = f

\* What a slot is for, what each place holds, and the place that points to the
\* list at hand.
HomeOf(s) == <<s[1], IF s[2] = 0 THEN "ids" ELSE "strings">>
Held == [p \in Places |->
           IF at[p] = 0 THEN <<>>
           ELSE << <<lists[at[p]].message, lists[at[p]].field>>, lists[at[p]].items >>]
HandPlace == {p \in Places : at[p] # 0 /\ at[p] = hand}

L == INSTANCE RecordLists WITH Home <- HomeOf, held <- Held, spot <- HandPlace

\* The accessors keep the promise of RecordLists: pointers into shared arenas
\* behave like values, and a List::Builder that outlives its list harms none.
Implements == L!Spec
=============================================================================
