-------------------------- MODULE CapnpRecordProofs --------------------------
(***************************************************************************)
(* Every list has one owner and the accessors implement RecordLists, for   *)
(* any messages and orphans, any items, lists of any length and number.    *)
(***************************************************************************)
EXTENDS CapnpRecord, SequenceTheorems, TLAPS

USE ItemsAssumption, PlacesAssumption, BoundsAssumption

\* The inductive invariant is what the runs check.
IInv == TypeOK /\ OneOwner

\* Slots are those of the fields, one each.
LEMMA SlotFacts ==
  /\ \A m \in Messages, f \in Fields :
       Slot(m, f) \in Slots /\ Slot(m, f) \in Places /\ HomeOf(Slot(m, f)) = <<m, f>>
  /\ \A s \in Slots : \E m \in Messages, f \in Fields : s = Slot(m, f)
  /\ \A m, n \in Messages, f, g \in Fields : Slot(m, f) = Slot(n, g) => m = n /\ f = g
  /\ \A s \in Slots : s \notin Orphans
<1>1. \A m \in Messages, f \in Fields :
       Slot(m, f) \in Slots /\ Slot(m, f) \in Places /\ HomeOf(Slot(m, f)) = <<m, f>>
  BY DEF Slot, Slots, Places, Pointer, HomeOf, Fields
<1>2. \A s \in Slots : \E m \in Messages, f \in Fields : s = Slot(m, f)
  <2> TAKE s \in Slots
  <2>1. PICK m \in Messages, i \in {0, 1} : s = <<m, i>>
    BY DEF Slots
  <2>2. CASE i = 0
    BY <2>1, <2>2 DEF Slot, Pointer, Fields
  <2>3. CASE i = 1
    BY <2>1, <2>3 DEF Slot, Pointer, Fields
  <2> QED
    BY <2>1, <2>2, <2>3
<1>3. \A m, n \in Messages, f, g \in Fields : Slot(m, f) = Slot(n, g) => m = n /\ f = g
  BY DEF Slot, Pointer, Fields
<1>4. \A s \in Slots : s \notin Orphans
  BY DEF Slots
<1> QED
  BY <1>1, <1>2, <1>3, <1>4

\* A list filled with zeros may be the content of a list of its length.
LEMMA BlankIsContent ==
  ASSUME NEW n \in 0 .. MaxLength
  PROVE  Blank(n) \in Contents /\ Len(Blank(n)) = n
BY DEF Blank, Contents

\* What is in a list has a length within the bound.
LEMMA ContentLength ==
  ASSUME NEW c \in Contents
  PROVE  c \in Seq(Items) /\ Len(c) \in 0 .. MaxLength
BY DEF Contents

\* Zeroing a list leaves its length and its home, and all other lists.
LEMMA ZeroedFacts ==
  ASSUME lists \in Seq(List), NEW l \in 0 .. Len(lists)
  PROVE  /\ Zeroed(l) \in Seq(List) /\ Len(Zeroed(l)) = Len(lists)
         /\ \A k \in 1 .. Len(lists) :
              /\ Zeroed(l)[k].message = lists[k].message /\ Zeroed(l)[k].field = lists[k].field
              /\ k # l => Zeroed(l)[k] = lists[k]
<1>1. CASE l = 0
  BY <1>1 DEF Zeroed
<1>2. CASE l # 0
  <2> DEFINE z == [lists[l] EXCEPT !.items = Blank(Len(lists[l].items))]
  <2>1. lists[l] \in List /\ l \in 1 .. Len(lists)
    BY <1>2
  <2>2. Blank(Len(lists[l].items)) \in Contents
    BY <2>1, ContentLength, BlankIsContent DEF List
  <2>3. z \in List /\ z.message = lists[l].message /\ z.field = lists[l].field
    BY <2>1, <2>2 DEF List
  <2>4. Zeroed(l) = [lists EXCEPT ![l] = z]
    BY <1>2 DEF Zeroed
  <2> HIDE DEF z
  <2> QED
    BY <2>1, <2>3, <2>4, ExceptSeq
<1> QED
  BY <1>1, <1>2

\* The inductive invariant holds initially.
LEMMA InitIInv == Init => IInv
<1> SUFFICES ASSUME Init PROVE IInv
  OBVIOUS
<1>1. lists = <<>> /\ lists \in Seq(List) /\ Len(lists) = 0
  BY DEF Init
<1>2. TypeOK
  <2>1. 0 \in 0 .. Len(lists)
    BY <1>1
  <2> QED
    BY <1>1, <2>1 DEF Init, TypeOK
<1>3. OneOwner
  BY SlotFacts DEF Init, OneOwner, has
<1> QED
  BY <1>2, <1>3 DEF IInv

\* A list allocated for a field keeps the invariant, whatever hand points to.
LEMMA AllocateKeeps ==
  ASSUME IInv, NEW m \in Messages, NEW f \in Fields, NEW c \in Contents,
         Allocate(m, f, c), hand' \in 0 .. Len(lists) + 1
  PROVE  IInv'
<1> USE DEF IInv
<1> DEFINE s == Slot(m, f)
           z == Zeroed(at[s])
           x == [message |-> m, field |-> f, items |-> c]
<1>1. s \in Places /\ s \in Slots
  BY SlotFacts
<1>2. at[s] \in 0 .. Len(lists) /\ lists \in Seq(List)
  BY <1>1 DEF TypeOK
<1>3. z \in Seq(List) /\ Len(z) = Len(lists)
  BY <1>2, ZeroedFacts
<1>4. x \in List
  BY DEF List
<1>5. lists' = Append(z, x) /\ at' = [at EXCEPT ![s] = Len(lists) + 1] /\ thrown' = FALSE
  BY DEF Allocate
<1> HIDE DEF z, x
<1>6. lists' \in Seq(List) /\ Len(lists') = Len(lists) + 1 /\ lists'[Len(lists) + 1] = x
      /\ \A k \in 1 .. Len(lists) : lists'[k] = z[k]
  BY <1>3, <1>4, <1>5
<1> HIDE DEF s
<1>7. TypeOK'
  <2>1. at' \in [Places -> 0 .. Len(lists) + 1]
    BY <1>1, <1>2, <1>5 DEF TypeOK
  <2> QED
    BY <1>5, <1>6, <2>1 DEF TypeOK
<1>8. \A p, q \in Places : at'[p] # 0 /\ at'[p] = at'[q] => p = q
  BY <1>1, <1>5 DEF OneOwner, TypeOK
<1>9. ASSUME NEW n \in Messages, NEW g \in Fields, at'[Slot(n, g)] # 0
      PROVE  lists'[at'[Slot(n, g)]].message = n /\ lists'[at'[Slot(n, g)]].field = g
  <2>1. Slot(n, g) \in Places
    BY SlotFacts
  <2>2. CASE Slot(n, g) = s
    <3>1. n = m /\ g = f
      BY <2>2, SlotFacts DEF s
    <3> QED
      BY <1>1, <1>5, <1>6, <2>2, <3>1 DEF TypeOK, x
  <2>3. CASE Slot(n, g) # s
    <3>1. at'[Slot(n, g)] = at[Slot(n, g)] /\ at[Slot(n, g)] \in 1 .. Len(lists)
      BY <1>5, <1>9, <2>1, <2>3 DEF TypeOK
    <3>2. lists[at[Slot(n, g)]].message = n /\ lists[at[Slot(n, g)]].field = g
      BY <3>1 DEF OneOwner, has
    <3> QED
      BY <1>2, <1>6, <3>1, <3>2, ZeroedFacts DEF z
  <2> QED
    BY <2>2, <2>3
<1> QED
  BY <1>7, <1>8, <1>9 DEF OneOwner, has

\* To move a pointer keeps the invariant if a slot gets only what is for it.
LEMMA MoveKeeps ==
  ASSUME IInv, NEW p \in Places, NEW q \in Places, p # q, Move(p, q),
         \A m \in Messages, f \in Fields :
           q = Slot(m, f) /\ at[p] # 0 => lists[at[p]].message = m /\ lists[at[p]].field = f
  PROVE  IInv'
<1> USE DEF IInv
<1>1. at[q] \in 0 .. Len(lists) /\ lists \in Seq(List)
  BY DEF TypeOK
<1>2. lists' = Zeroed(at[q]) /\ at' = [at EXCEPT ![q] = at[p], ![p] = 0]
      /\ thrown' = FALSE /\ hand' = hand
  BY DEF Move
<1>3. /\ lists' \in Seq(List) /\ Len(lists') = Len(lists)
      /\ \A k \in 1 .. Len(lists) :
           lists'[k].message = lists[k].message /\ lists'[k].field = lists[k].field
  BY <1>1, <1>2, ZeroedFacts
<1>4. TypeOK'
  <2>1. at' \in [Places -> 0 .. Len(lists)]
    BY <1>2 DEF TypeOK
  <2> QED
    BY <1>2, <1>3, <2>1 DEF TypeOK
<1>5. \A a, b \in Places : at'[a] # 0 /\ at'[a] = at'[b] => a = b
  BY <1>2 DEF OneOwner, TypeOK
<1>6. ASSUME NEW n \in Messages, NEW g \in Fields, at'[Slot(n, g)] # 0
      PROVE  lists'[at'[Slot(n, g)]].message = n /\ lists'[at'[Slot(n, g)]].field = g
  <2>1. Slot(n, g) \in Places
    BY SlotFacts
  <2>2. CASE Slot(n, g) = q
    <3>1. at'[q] = at[p] /\ at[p] \in 1 .. Len(lists)
      BY <1>2, <1>6, <2>2 DEF TypeOK
    <3> QED
      BY <1>3, <2>2, <3>1
  <2>3. CASE Slot(n, g) # q
    <3>1. at'[Slot(n, g)] = at[Slot(n, g)] /\ at[Slot(n, g)] \in 1 .. Len(lists)
      BY <1>2, <1>6, <2>1, <2>3 DEF TypeOK
    <3>2. lists[at[Slot(n, g)]].message = n /\ lists[at[Slot(n, g)]].field = g
      BY <3>1 DEF OneOwner, has
    <3> QED
      BY <1>3, <3>1, <3>2
  <2> QED
    BY <2>2, <2>3
<1> QED
  BY <1>4, <1>5, <1>6 DEF OneOwner, has

\* The inductive invariant is kept by every call.
LEMMA StepIInv == IInv /\ [Next]_vars => IInv'
<1> SUFFICES ASSUME IInv, [Next]_vars PROVE IInv'
  OBVIOUS
<1> USE DEF IInv
<1>1. ASSUME NEW m \in Messages, NEW f \in Fields, Get(m, f) PROVE IInv'
  BY <1>1, SlotFacts DEF Get, TypeOK, OneOwner, has
<1>2. ASSUME NEW m \in Messages, NEW f \in Fields, NEW n \in 0 .. MaxLength, init(m, f, n) PROVE IInv'
  <2>1. hand' \in 0 .. Len(lists) + 1
    BY <1>2 DEF init, TypeOK
  <2> QED
    BY <1>2, <2>1, BlankIsContent, AllocateKeeps DEF init
<1>3. ASSUME NEW m \in Messages, NEW f \in Fields, NEW c \in Contents, setArray(m, f, c) PROVE IInv'
  <2>1. hand' \in 0 .. Len(lists) + 1
    BY <1>3 DEF setArray, TypeOK
  <2> QED
    BY <1>3, <2>1, AllocateKeeps DEF setArray
<1>4. ASSUME NEW m \in Messages, NEW f \in Fields, NEW l \in DOMAIN lists, set(m, f, l) PROVE IInv'
  <2>1. hand' \in 0 .. Len(lists) + 1
    BY <1>4 DEF set, TypeOK
  <2>2. at[Slot(m, f)] \in 0 .. Len(lists) /\ lists \in Seq(List)
    BY SlotFacts DEF TypeOK
  <2>3. Zeroed(at[Slot(m, f)])[l] \in List
    BY <2>2, ZeroedFacts
  <2>4. Zeroed(at[Slot(m, f)])[l].items \in Contents
    BY <2>3 DEF List
  <2> QED
    BY <1>4, <2>1, <2>4, AllocateKeeps DEF set
<1>5. ASSUME NEW m \in Messages, NEW f \in Fields, NEW o \in Orphans, disown(m, f, o) PROVE IInv'
  <2>1. Slot(m, f) \in Places /\ o \in Places /\ Slot(m, f) # o
    BY SlotFacts DEF Places
  <2>2. \A n \in Messages, g \in Fields : o # Slot(n, g)
    BY SlotFacts
  <2> QED
    BY <1>5, <2>1, <2>2, MoveKeeps DEF disown
<1>6. ASSUME NEW m \in Messages, NEW f \in Fields, NEW o \in Orphans, adopt(m, f, o) PROVE IInv'
  <2>1. Slot(m, f) \in Places /\ o \in Places /\ Slot(m, f) # o
    BY SlotFacts DEF Places
  <2>2. \A n \in Messages, g \in Fields :
          Slot(m, f) = Slot(n, g) /\ at[o] # 0 => lists[at[o]].message = n /\ lists[at[o]].field = g
    BY <1>6, SlotFacts DEF adopt, Typed, Ours
  <2> QED
    BY <1>6, <2>1, <2>2, MoveKeeps DEF adopt
<1>7. ASSUME NEW m \in Messages, NEW f \in Fields, NEW o \in Orphans, adoptForeign(m, f, o) PROVE IInv'
  BY <1>7 DEF adoptForeign, TypeOK, OneOwner, has
<1>8. ASSUME NEW o \in Orphans, Drop(o) PROVE IInv'
  <2>1. o \in Places /\ at[o] \in 0 .. Len(lists) /\ lists \in Seq(List)
    BY DEF Places, TypeOK
  <2>2. /\ lists' \in Seq(List) /\ Len(lists') = Len(lists)
        /\ \A k \in 1 .. Len(lists) :
             lists'[k].message = lists[k].message /\ lists'[k].field = lists[k].field
    BY <1>8, <2>1, ZeroedFacts DEF Drop
  <2>3. TypeOK'
    <3>1. at' \in [Places -> 0 .. Len(lists)] /\ hand' = hand /\ thrown' = FALSE
      BY <1>1, <1>8, <2>1 DEF Drop, TypeOK
    <3> QED
      BY <2>2, <3>1 DEF TypeOK
  <2>4. \A m \in Messages, f \in Fields : at'[Slot(m, f)] = at[Slot(m, f)]
    BY <1>8, SlotFacts DEF Drop, TypeOK
  <2>5. \A m \in Messages, f \in Fields : at[Slot(m, f)] \in 0 .. Len(lists)
    BY SlotFacts DEF TypeOK
  <2>6. \A p, q \in Places : at'[p] # 0 /\ at'[p] = at'[q] => p = q
    BY <1>8 DEF Drop, OneOwner, TypeOK
  <2> QED
    BY <2>2, <2>3, <2>4, <2>5, <2>6 DEF OneOwner, has
<1>9. ASSUME hand # 0, NEW k \in DOMAIN lists[hand].items, NEW x \in Items, Write(k, x) PROVE IInv'
  <2> DEFINE y == [lists[hand] EXCEPT !.items = [@ EXCEPT ![k] = x]]
  <2>1. hand \in 1 .. Len(lists) /\ lists \in Seq(List) /\ lists[hand] \in List
    BY <1>9 DEF TypeOK
  <2>2. [lists[hand].items EXCEPT ![k] = x] \in Contents
    BY <1>9, <2>1 DEF List, Contents
  <2>3. y \in List /\ y.message = lists[hand].message /\ y.field = lists[hand].field
    BY <2>1, <2>2 DEF List
  <2>4. lists' = [lists EXCEPT ![hand] = y]
    BY <1>9 DEF Write
  <2> HIDE DEF y
  <2>5. /\ lists' \in Seq(List) /\ Len(lists') = Len(lists)
        /\ \A j \in 1 .. Len(lists) :
             lists'[j].message = lists[j].message /\ lists'[j].field = lists[j].field
    BY <2>1, <2>3, <2>4, ExceptSeq
  <2>6. at' = at /\ hand' = hand /\ thrown' = FALSE
    BY <1>9 DEF Write
  <2>7. \A m \in Messages, f \in Fields : at[Slot(m, f)] \in 0 .. Len(lists)
    BY SlotFacts DEF TypeOK
  <2>8. TypeOK'
    BY <2>5, <2>6 DEF TypeOK
  <2>9. OneOwner'
    BY <2>5, <2>6, <2>7 DEF OneOwner, has
  <2> QED
    BY <2>8, <2>9
<1>10. CASE UNCHANGED vars
  BY <1>10 DEF vars, TypeOK, OneOwner, has
<1> QED
  BY <1>1, <1>2, <1>3, <1>4, <1>5, <1>6, <1>7, <1>8, <1>9, <1>10 DEF Next

\* The inductive invariant holds in every reachable state.
THEOREM Inductive == Spec => []IInv
BY InitIInv, StepIInv, PTL DEF Spec

\* Type correctness of the accessors' state.
THEOREM TypeCorrect == Spec => []TypeOK
<1>1. IInv => TypeOK
  BY DEF IInv
<1> QED
  BY <1>1, Inductive, PTL

\* Every list has one owner, in its own message and of its own field.
THEOREM OwnsOnce == Spec => []OneOwner
<1>1. IInv => OneOwner
  BY DEF IInv
<1> QED
  BY <1>1, Inductive, PTL

-----------------------------------------------------------------------------
(* The refinement: what each call does to what the places hold. *)

\* A place holds nothing exactly if its pointer is null, and the list at hand
\* has at most one place.
LEMMA HeldFacts ==
  ASSUME IInv
  PROVE  /\ Held = [p \in Places |-> Held[p]]
         /\ \A p \in Places : Held[p] = <<>> <=> at[p] = 0
         /\ \A p \in HandPlace : p \in Places /\ HandPlace = {p} /\ at[p] = hand /\ hand # 0
BY DEF IInv, TypeOK, OneOwner, Held, HandPlace

\* Allocation replaces what one slot holds.
LEMMA HeldAllocate ==
  ASSUME IInv, NEW m \in Messages, NEW f \in Fields, NEW c \in Contents, Allocate(m, f, c)
  PROVE  /\ Held' = [Held EXCEPT ![Slot(m, f)] = <<HomeOf(Slot(m, f)), c>>]
         /\ \A p \in Places : p # Slot(m, f) => at'[p] = at[p]
         /\ at'[Slot(m, f)] = Len(lists) + 1
<1> USE DEF IInv
<1> DEFINE s == Slot(m, f)
           z == Zeroed(at[s])
           x == [message |-> m, field |-> f, items |-> c]
<1>1. s \in Places /\ HomeOf(s) = <<m, f>>
  BY SlotFacts
<1>2. at[s] \in 0 .. Len(lists) /\ lists \in Seq(List) /\ at \in [Places -> 0 .. Len(lists)]
  BY <1>1 DEF TypeOK
<1>3. z \in Seq(List) /\ Len(z) = Len(lists) /\ \A k \in 1 .. Len(lists) : k # at[s] => z[k] = lists[k]
  BY <1>2, ZeroedFacts
<1>4. x \in List
  BY DEF List
<1>5. lists' = Append(z, x) /\ at' = [at EXCEPT ![s] = Len(lists) + 1]
  BY DEF Allocate
<1> HIDE DEF z, x, s
<1>6. lists'[Len(lists) + 1] = x /\ \A k \in 1 .. Len(lists) : lists'[k] = z[k]
  BY <1>3, <1>4, <1>5
<1>7. at'[s] = Len(lists) + 1 /\ \A p \in Places : p # s => at'[p] = at[p]
  BY <1>1, <1>2, <1>5
<1>8. Len(lists) + 1 # 0 /\ x.message = m /\ x.field = f /\ x.items = c
  BY <1>2 DEF x
<1>9. Held'[s] = << <<m, f>>, c>>
  BY <1>1, <1>6, <1>7, <1>8 DEF Held
<1>10. ASSUME NEW p \in Places, p # s PROVE Held'[p] = Held[p]
  <2>1. CASE at[p] = 0
    BY <1>7, <1>10, <2>1 DEF Held
  <2>2. CASE at[p] # 0
    <3>1. at[p] \in 1 .. Len(lists) /\ at[p] # at[s]
      BY <1>1, <1>2, <1>10, <2>2 DEF OneOwner
    <3>2. lists'[at'[p]] = lists[at[p]]
      BY <1>3, <1>6, <1>7, <1>10, <3>1
    <3> QED
      BY <1>7, <1>10, <2>2, <3>2 DEF Held
  <2> QED
    BY <2>1, <2>2
<1>11. Held' = [p \in Places |-> Held'[p]] /\ Held = [p \in Places |-> Held[p]]
  BY DEF Held
<1> QED
  BY <1>1, <1>7, <1>9, <1>10, <1>11 DEF s

\* A move takes what one place holds to another.
LEMMA HeldMove ==
  ASSUME IInv, NEW p \in Places, NEW q \in Places, p # q, Move(p, q)
  PROVE  /\ Held' = [Held EXCEPT ![q] = Held[p], ![p] = <<>>]
         /\ HandPlace' = IF HandPlace = {p} THEN {q} ELSE HandPlace \ {q}
<1> USE DEF IInv
<1>1. at \in [Places -> 0 .. Len(lists)] /\ at[q] \in 0 .. Len(lists) /\ lists \in Seq(List)
  BY DEF TypeOK
<1>2. lists' = Zeroed(at[q]) /\ at' = [at EXCEPT ![q] = at[p], ![p] = 0] /\ hand' = hand
  BY DEF Move
<1>3. \A k \in 1 .. Len(lists) : k # at[q] => lists'[k] = lists[k]
  BY <1>1, <1>2, ZeroedFacts
<1>4. at'[p] = 0 /\ at'[q] = at[p] /\ \A r \in Places : r # p /\ r # q => at'[r] = at[r]
  BY <1>1, <1>2
<1>5. Held'[p] = <<>>
  BY <1>4 DEF Held
<1>6. \A r \in Places : r # q /\ at[r] # 0 => lists'[at[r]] = lists[at[r]]
  BY <1>1, <1>3 DEF OneOwner
<1>7. Held'[q] = Held[p]
  BY <1>4, <1>6 DEF Held
<1>8. \A r \in Places : r # p /\ r # q => Held'[r] = Held[r]
  BY <1>4, <1>6 DEF Held
<1>9. Held' = [r \in Places |-> Held'[r]] /\ Held = [r \in Places |-> Held[r]]
  BY DEF Held
<1>10. Held' = [Held EXCEPT ![q] = Held[p], ![p] = <<>>]
  BY <1>5, <1>7, <1>8, <1>9
<1>11. HandPlace' = IF HandPlace = {p} THEN {q} ELSE HandPlace \ {q}
  <2>1. CASE at[p] # 0 /\ at[p] = hand
    <3>1. HandPlace = {p} /\ HandPlace' = {q}
      BY <1>2, <1>4, <2>1 DEF HandPlace, OneOwner
    <3> QED
      BY <3>1
  <2>2. CASE ~(at[p] # 0 /\ at[p] = hand)
    <3>1. p \notin HandPlace
      BY <2>2 DEF HandPlace
    <3>2. HandPlace' = HandPlace \ {q}
      BY <1>2, <1>4, <2>2 DEF HandPlace
    <3> QED
      BY <3>1, <3>2
  <2> QED
    BY <2>1, <2>2
<1> QED
  BY <1>10, <1>11

\* The initial states are initial states of the promise.
LEMMA RefinesInit == Init => L!Init
BY DEF Init, L!Init, L!Places, L!None, Places, Held, HandPlace

\* Every call is a step of RecordLists or leaves what the places hold alone.
LEMMA RefinesNext == IInv /\ [Next]_vars => [L!Next]_L!vars
<1> SUFFICES ASSUME IInv, [Next]_vars PROVE [L!Next]_L!vars
  OBVIOUS
<1>0. \A m \in Messages, f \in Fields : Slot(m, f) \in Slots /\ Slot(m, f) \in Places
  BY SlotFacts
<1>1. ASSUME NEW m \in Messages, NEW f \in Fields, Get(m, f) PROVE [L!Next]_L!vars
  <2> DEFINE s == Slot(m, f)
  <2>1. s \in Slots /\ s \in Places
    BY <1>0
  <2>2. lists' = lists /\ at' = at /\ hand' = at[s]
    BY <1>1 DEF Get
  <2>3. Held' = Held
    BY <2>2 DEF Held
  <2>4. Held[s] # <<>> <=> at[s] # 0
    BY <2>1, HeldFacts
  <2> HIDE DEF s
  <2>5. HandPlace' = {p \in {s} : at[p] # 0}
    BY <2>1, <2>2 DEF HandPlace, IInv, OneOwner
  <2>6. L!Get(s)
    BY <2>3, <2>4, <2>5 DEF L!Get, L!None
  <2> QED
    BY <2>1, <2>6 DEF L!Next
<1>2. ASSUME NEW m \in Messages, NEW f \in Fields, NEW n \in 0 .. MaxLength, init(m, f, n)
      PROVE  [L!Next]_L!vars
  <2> DEFINE s == Slot(m, f)
  <2>1. s \in Slots /\ s \in Places /\ Blank(n) \in Contents /\ Len(Blank(n)) = n
    BY <1>0, BlankIsContent
  <2>2. /\ Held' = [Held EXCEPT ![s] = <<HomeOf(s), Blank(n)>>]
        /\ \A p \in Places : p # s => at'[p] = at[p]
        /\ at'[s] = Len(lists) + 1
    BY <1>2, <2>1, HeldAllocate DEF init
  <2>3. hand' = Len(lists) + 1 /\ Len(lists) \in Nat /\ \A p \in Places : at[p] \in 0 .. Len(lists)
    BY <1>2 DEF init, IInv, TypeOK
  <2> HIDE DEF s
  <2>4. HandPlace' = {s}
    BY <2>1, <2>2, <2>3 DEF HandPlace
  <2>5. L!Initialise(s)
    <3>1. Blank(n) = L!Blank(Len(Blank(n)))
      BY <2>1 DEF Blank, L!Blank
    <3> QED
      BY <2>1, <2>2, <2>4, <3>1 DEF L!Initialise, L!Replace
  <2> QED
    BY <2>1, <2>5 DEF L!Next
<1>3. ASSUME NEW m \in Messages, NEW f \in Fields, NEW c \in Contents, Allocate(m, f, c), hand' = hand
      PROVE  [L!Next]_L!vars
  <2> DEFINE s == Slot(m, f)
  <2>1. s \in Slots /\ s \in Places
    BY <1>0
  <2>2. /\ Held' = [Held EXCEPT ![s] = <<HomeOf(s), c>>]
        /\ \A p \in Places : p # s => at'[p] = at[p]
        /\ at'[s] = Len(lists) + 1
    BY <1>3, HeldAllocate
  <2>3. hand \in 0 .. Len(lists) /\ Len(lists) \in Nat
    BY DEF IInv, TypeOK
  <2> HIDE DEF s
  <2>4. HandPlace' = HandPlace \ {s}
    BY <1>3, <2>1, <2>2, <2>3 DEF HandPlace
  <2>5. L!Assign(s)
    BY <2>2, <2>4 DEF L!Assign, L!Replace
  <2> QED
    BY <2>1, <2>5 DEF L!Next
<1>4. ASSUME NEW m \in Messages, NEW f \in Fields, NEW l \in DOMAIN lists, set(m, f, l) PROVE [L!Next]_L!vars
  <2>1. at[Slot(m, f)] \in 0 .. Len(lists) /\ lists \in Seq(List)
    BY <1>0 DEF IInv, TypeOK
  <2>2. Zeroed(at[Slot(m, f)])[l] \in List
    BY <2>1, ZeroedFacts
  <2>3. Zeroed(at[Slot(m, f)])[l].items \in Contents
    BY <2>2 DEF List
  <2> QED
    BY <1>3, <1>4, <2>3 DEF set
<1>5. ASSUME NEW m \in Messages, NEW f \in Fields, NEW o \in Orphans, disown(m, f, o) PROVE [L!Next]_L!vars
  <2>1. Slot(m, f) \in Slots /\ Slot(m, f) \in Places /\ o \in Places /\ Slot(m, f) # o
    BY SlotFacts DEF Places
  <2>2. L!Disown(Slot(m, f), o)
    BY <1>5, <2>1, HeldMove DEF disown, L!Disown, L!Move, L!None
  <2> QED
    BY <2>1, <2>2 DEF L!Next
<1>6. ASSUME NEW m \in Messages, NEW f \in Fields, NEW o \in Orphans, adopt(m, f, o) PROVE [L!Next]_L!vars
  <2>1. Slot(m, f) \in Slots /\ Slot(m, f) \in Places /\ o \in Places /\ Slot(m, f) # o
    BY SlotFacts DEF Places
  <2>2. Held[o] = <<>> \/ Held[o][1] = HomeOf(Slot(m, f))
    <3>1. CASE at[o] = 0
      BY <2>1, <3>1 DEF Held
    <3>2. CASE at[o] # 0
      <4>1. Held[o][1] = <<lists[at[o]].message, lists[at[o]].field>>
        BY <2>1, <3>2 DEF Held
      <4>2. lists[at[o]].message = m /\ lists[at[o]].field = f
        BY <1>6, <3>2 DEF adopt, Typed, Ours
      <4> QED
        BY <4>1, <4>2, SlotFacts
    <3> QED
      BY <3>1, <3>2
  <2>3. L!Adopt(Slot(m, f), o)
    BY <1>6, <2>1, <2>2, HeldMove DEF adopt, L!Adopt, L!Move, L!None
  <2> QED
    BY <2>1, <2>3 DEF L!Next
<1>7. ASSUME NEW m \in Messages, NEW f \in Fields, NEW o \in Orphans, adoptForeign(m, f, o)
      PROVE  [L!Next]_L!vars
  BY <1>7 DEF adoptForeign, L!vars, Held, HandPlace
<1>8. ASSUME NEW o \in Orphans, Drop(o) PROVE [L!Next]_L!vars
  <2>1. o \in Places /\ at \in [Places -> 0 .. Len(lists)] /\ lists \in Seq(List)
    BY DEF Places, IInv, TypeOK
  <2>2. lists' = Zeroed(at[o]) /\ at' = [at EXCEPT ![o] = 0] /\ hand' = hand
    BY <1>8 DEF Drop
  <2>3. \A k \in 1 .. Len(lists) : k # at[o] => lists'[k] = lists[k]
    BY <2>1, <2>2, ZeroedFacts
  <2>4. \A p \in Places : p # o /\ at[p] # 0 => at'[p] = at[p] /\ lists'[at[p]] = lists[at[p]]
    BY <2>1, <2>2, <2>3 DEF IInv, OneOwner
  <2>5. at'[o] = 0 /\ \A p \in Places : p # o => at'[p] = at[p]
    BY <2>1, <2>2
  <2>6. Held' = [Held EXCEPT ![o] = <<>>]
    <3>1. Held'[o] = <<>> /\ \A p \in Places : p # o => Held'[p] = Held[p]
      BY <2>1, <2>4, <2>5 DEF Held
    <3>2. Held' = [p \in Places |-> Held'[p]] /\ Held = [p \in Places |-> Held[p]]
      BY DEF Held
    <3> QED
      BY <3>1, <3>2
  <2>7. HandPlace' = HandPlace \ {o}
    BY <2>2, <2>5 DEF HandPlace
  <2> QED
    BY <2>6, <2>7 DEF L!Next, L!Drop, L!None
<1>9. ASSUME hand # 0, NEW k \in DOMAIN lists[hand].items, NEW x \in Items, Write(k, x)
      PROVE  [L!Next]_L!vars
  <2>1. hand \in 1 .. Len(lists) /\ lists \in Seq(List) /\ at \in [Places -> 0 .. Len(lists)]
    BY <1>9 DEF IInv, TypeOK
  <2>2. lists' = [lists EXCEPT ![hand].items[k] = x] /\ at' = at /\ hand' = hand
    BY <1>9 DEF Write
  <2>3. \A j \in 1 .. Len(lists) : j # hand => lists'[j] = lists[j]
    BY <2>1, <2>2
  <2>4. HandPlace' = HandPlace
    BY <2>2 DEF HandPlace
  <2>5. ASSUME NEW p \in Places, p \notin HandPlace PROVE Held'[p] = Held[p]
    <3>1. at[p] = 0 \/ lists'[at[p]] = lists[at[p]]
      BY <2>1, <2>3, <2>5 DEF HandPlace
    <3>2. at'[p] = at[p]
      BY <2>2
    <3>3. CASE at[p] = 0
      BY <2>5, <3>2, <3>3 DEF Held
    <3>4. CASE at[p] # 0
      <4>1. Held[p] = << <<lists[at[p]].message, lists[at[p]].field>>, lists[at[p]].items >>
        BY <2>5, <3>4 DEF Held
      <4>2. Held'[p] = << <<lists'[at[p]].message, lists'[at[p]].field>>, lists'[at[p]].items >>
        BY <2>2, <2>5, <3>4 DEF Held
      <4> QED
        BY <3>1, <3>4, <4>1, <4>2
    <3> QED
      BY <3>3, <3>4
  <2>6. Held' = [p \in Places |-> Held'[p]] /\ Held = [p \in Places |-> Held[p]]
    BY DEF Held
  <2>7. CASE HandPlace = {}
    <3>1. Held' = Held
      BY <2>5, <2>6, <2>7
    <3> QED
      BY <2>4, <3>1 DEF L!vars
  <2>8. CASE HandPlace # {}
    <3>1. PICK p \in HandPlace : TRUE
      BY <2>8
    <3>2. p \in Places /\ HandPlace = {p} /\ at[p] = hand
      BY <3>1, HeldFacts
    <3> DEFINE h == << <<lists[hand].message, lists[hand].field>>, lists[hand].items >>
    <3>3. Held[p] = h
      BY <1>9, <3>2 DEF Held
    <3>4. /\ lists'[hand].message = lists[hand].message
          /\ lists'[hand].field = lists[hand].field
          /\ lists'[hand].items = [lists[hand].items EXCEPT ![k] = x]
      <4>1. lists'[hand] = [lists[hand] EXCEPT !.items = [lists[hand].items EXCEPT ![k] = x]]
        <5> DEFINE new == [lists[hand] EXCEPT !.items = [lists[hand].items EXCEPT ![k] = x]]
        <5>1. lists' = [lists EXCEPT ![hand] = new] /\ hand \in DOMAIN lists
          BY <2>1, <2>2
        <5> HIDE DEF new
        <5>2. lists'[hand] = new
          BY <5>1
        <5> QED
          BY <5>2 DEF new
      <4>2. lists[hand] \in List
        BY <2>1
      <4>3. \A l \in List : \A c :
              LET r == [l EXCEPT !.items = c]
              IN  r.message = l.message /\ r.field = l.field /\ r.items = c
        BY DEF List
      <4> QED
        BY <4>1, <4>2, <4>3
    <3>5. Held'[p] = << <<lists[hand].message, lists[hand].field>>, [lists[hand].items EXCEPT ![k] = x] >>
      BY <1>9, <2>2, <3>2, <3>4 DEF Held
    <3>6. Held'[p] = [Held[p] EXCEPT ![2] = [@ EXCEPT ![k] = x]]
      BY <3>3, <3>5
    <3>7. Held' = [Held EXCEPT ![p][2][k] = x]
      <4>1. \A q \in Places : q # p => Held'[q] = Held[q]
        BY <2>5, <3>2
      <4>2. Held' = [Held EXCEPT ![p] = Held'[p]]
        BY <2>6, <3>2, <4>1
      <4> HIDE DEF Held, h
      <4> QED
        BY <3>6, <4>2
    <3>8. k \in DOMAIN Held[p][2]
      BY <3>3
    <3>9. L!Write(p)
      BY <1>9, <2>4, <3>1, <3>7, <3>8 DEF L!Write
    <3> QED
      BY <3>2, <3>9 DEF L!Next, L!Places, Places
  <2> QED
    BY <2>7, <2>8
<1>10. CASE UNCHANGED vars
  BY <1>10 DEF vars, L!vars, Held, HandPlace
<1> QED
  BY <1>1, <1>2, <1>3, <1>4, <1>5, <1>6, <1>7, <1>8, <1>9, <1>10 DEF Next, init, setArray

\* The accessors keep the promise of RecordLists.
THEOREM KeepsPromise == Spec => Implements
BY RefinesInit, RefinesNext, Inductive, PTL DEF Spec, L!Spec, Implements
=============================================================================
