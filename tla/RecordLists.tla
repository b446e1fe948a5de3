----------------------------- MODULE RecordLists -----------------------------
(***************************************************************************)
(* What the accessors of a Cap'n Proto Record promise a program: a record  *)
(* and an orphan hold a list as if it were a value of their own.  A list   *)
(* moves when it is disowned or adopted; to initialise or to set a list    *)
(* changes no other; and what is written through a List::Builder goes to   *)
(* the one place its list has moved to, or nowhere once it was replaced.   *)
(***************************************************************************)
EXTENDS Naturals, Sequences

CONSTANTS
  Slots,      \* the places for a list: a field of the record of a message
  Orphans,    \* the Orphan objects of the program
  Items,      \* what a list may hold
  Zero,       \* what a new list is filled with
  Contents,   \* the contents a list may be given
  Home(_)     \* what a list in a slot is bound to: its message and field

Places == Slots \cup Orphans
None == <<>>

VARIABLES
  held,       \* <<>>, or <<home, items>> of the list in each place
  spot        \* {} or the place of the list the List::Builder at hand is for

vars == <<held, spot>>

Init ==
  /\ held = [p \in Places |-> None]
  /\ spot = {}

Blank(n) == [k \in 1 .. n |-> Zero]

\* A place is given a new list: the builder at hand is for it if it is asked
\* for, and for nothing if it was for the one replaced.
Replace(s, items, asked) ==
  /\ held' = [held EXCEPT ![s] = <<Home(s), items>>]
  /\ spot' = IF asked THEN {s} ELSE spot \ {s}

Initialise(s) == \E items \in Contents : items = Blank(Len(items)) /\ Replace(s, items, TRUE)
Assign(s) == \E items \in Contents : Replace(s, items, FALSE)

Get(s) == UNCHANGED held /\ spot' = {p \in {s} : held[p] # None}

Write(p) ==
  /\ p \in spot
  /\ \E k \in DOMAIN held[p][2], x \in Items : held' = [held EXCEPT ![p][2][k] = x]
  /\ UNCHANGED spot

\* The list in p, if there is one, replaces that in q and leaves p.
Move(p, q) ==
  /\ held' = [held EXCEPT ![q] = held[p], ![p] = None]
  /\ spot' = IF spot = {p} THEN {q} ELSE spot \ {q}

Disown(s, o) == Move(s, o)
Adopt(s, o) == (held[o] = None \/ held[o][1] = Home(s)) /\ Move(o, s)
Drop(o) == held' = [held EXCEPT ![o] = None] /\ spot' = spot \ {o}

Next ==
  \/ \E s \in Slots : \/ Initialise(s) \/ Assign(s) \/ Get(s)
                      \/ \E o \in Orphans : Disown(s, o) \/ Adopt(s, o)
  \/ \E p \in Places : Write(p)
  \/ \E o \in Orphans : Drop(o)

Spec == Init /\ [][Next]_vars
=============================================================================
