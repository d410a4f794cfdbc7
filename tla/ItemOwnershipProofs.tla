------------------------ MODULE ItemOwnershipProofs ------------------------
(***************************************************************************)
(* The ownership invariants of the item subsystem, and what saving and     *)
(* loading make of them, for every set of items, stack limit, inventory    *)
(* capacity, slot layout and authored content that meets the named         *)
(* assumptions of ItemOwnership and SavedItems. The first part says what   *)
(* container.add_item and container.remove_item do to any contents.        *)
(***************************************************************************)
EXTENDS ItemOwnershipRefinement, TLAPS, WellFoundedInduction, SequenceTheorems, FiniteSetTheorems

(***************************************************************************)
(* The contents of a container.                                            *)
(***************************************************************************)
\* Every non-empty set of naturals has a least element.
LEMMA LeastNatural ==
  ASSUME NEW T, T \subseteq Nat, T # {}
  PROVE  \E x \in T : \A y \in T : x <= y
<1>1. PICK x \in T : \A y \in T : ~ (<<y, x>> \in OpToRel(<, Nat))
  BY NatLessThanWellFounded, WFMin
<1>2. x \in Nat
  OBVIOUS
<1>3. ASSUME NEW y \in T PROVE x <= y
  <2>1. y \in Nat
    OBVIOUS
  <2>2. ~ (y < x)
    BY <1>1, <1>2, <2>1 DEF OpToRel
  <2>3. QED
    BY <1>2, <2>1, <2>2
<1>4. QED
  BY <1>3

\* Induction over an interval, for a set instead of a predicate: the form in
\* which a loop over the slots of a container is reasoned about.
LEMMA IntervalInduction ==
  ASSUME NEW n \in Nat, NEW T, 0 \in T, \A i \in 1..n : i - 1 \in T => i \in T
  PROVE  \A i \in 0..n : i \in T
<1> DEFINE Bad == (0..n) \ T
<1>1. SUFFICES ASSUME Bad # {} PROVE FALSE
  OBVIOUS
<1>2. Bad \subseteq Nat
  OBVIOUS
<1>3. PICK x \in Bad : \A y \in Bad : x <= y
  <2> HIDE DEF Bad
  <2> QED BY <1>1, <1>2, LeastNatural
<1>4. x \in 1..n /\ x - 1 \in 0..n
  BY <1>3
<1>5. x - 1 \in T
  BY <1>3, <1>4
<1>6. QED
  BY <1>3, <1>4, <1>5

LEMMA ItemFields ==
  ASSUME NEW i \in Items
  PROVE  /\ i.id \in ItemIds /\ i.kind \in Kinds /\ i.qty \in Nat /\ i.qty > 0
         /\ MaxStack[i.kind] \in Nat /\ i.qty <= MaxStack[i.kind]
BY MaxStackAssumption DEF Items

\* A legal quantity may replace another one.
LEMMA WithQuantity ==
  ASSUME NEW i \in Items, NEW q \in Nat, q > 0, q <= MaxStack[i.kind]
  PROVE  /\ [i EXCEPT !.qty = q] \in Items
         /\ [i EXCEPT !.qty = q].id = i.id
         /\ [i EXCEPT !.qty = q].kind = i.kind
         /\ [i EXCEPT !.qty = q].qty = q
BY DEF Items

\* One turn of the merge loop never overfills a slot nor moves more than is
\* left, and a slot of the same stackable kind that stays partial took
\* everything.
LEMMA MovedBounds ==
  ASSUME NEW item \in Items, NEW incoming \in Items, NEW remaining \in Nat
  PROVE  /\ Moved(item, incoming, remaining) \in Nat
         /\ Moved(item, incoming, remaining) <= remaining
         /\ item.qty + Moved(item, incoming, remaining) <= MaxStack[item.kind]
         /\ Stackable(incoming.kind) /\ item.kind = incoming.kind
            /\ item.qty + Moved(item, incoming, remaining) # MaxStack[item.kind]
              => Moved(item, incoming, remaining) = remaining
         /\ ~Stackable(incoming.kind) => Moved(item, incoming, remaining) = 0
         /\ item.kind # incoming.kind => Moved(item, incoming, remaining) = 0
BY ItemFields DEF Moved, Lesser

\* The quantity still to place only falls along the loop.
LEMMA TraceFalls ==
  ASSUME NEW items \in Seq(Items), NEW incoming \in Items,
         NEW left \in MergeTraces(items, incoming)
  PROVE  /\ left \in [0..Len(items) -> Nat]
         /\ \A i \in 0..Len(items) : left[Len(items)] <= left[i] /\ left[i] <= incoming.qty
<1> DEFINE L == Len(items)
<1> DEFINE T == { i \in 0..L : left[L] <= left[L - i] }
<1>1. L \in Nat
  OBVIOUS
<1>2. incoming.qty \in Nat
  BY ItemFields
<1>3. left \in [0..L -> 0..incoming.qty]
  BY DEF MergeTraces
<1>4. \A i \in 0..L : left[i] \in Nat /\ left[i] <= incoming.qty
  BY <1>2, <1>3
<1>5. \A n \in 1..L : left[n] = left[n - 1] - Moved(items[n], incoming, left[n - 1])
  BY DEF MergeTraces
<1>6. \A n \in 1..L : left[n] <= left[n - 1]
  <2>1. TAKE n \in 1..L
  <2>2. left[n - 1] \in Nat /\ left[n] \in Nat /\ items[n] \in Items
    BY <1>1, <1>4
  <2>3. Moved(items[n], incoming, left[n - 1]) \in Nat
    BY <2>2, MovedBounds
  <2>4. QED
    BY <1>5, <2>2, <2>3
<1>7. 0 \in T
  BY <1>1, <1>4
<1>8. \A i \in 1..L : i - 1 \in T => i \in T
  <2>1. SUFFICES ASSUME NEW i \in 1..L, i - 1 \in T PROVE i \in T
    OBVIOUS
  <2>2. left[L] <= left[L - (i - 1)]
    BY <2>1
  <2>3. L - (i - 1) \in 1..L /\ (L - (i - 1)) - 1 = L - i /\ L - i \in 0..L /\ L \in 0..L
    BY <1>1
  <2>4. left[L - (i - 1)] <= left[L - i]
    BY <1>6, <2>3
  <2>5. left[L] \in Nat /\ left[L - (i - 1)] \in Nat /\ left[L - i] \in Nat
    BY <1>4, <2>3
  <2>6. left[L] <= left[L - i]
    BY <2>2, <2>4, <2>5
  <2>7. QED
    BY <2>6
<1>9. \A i \in 0..L : i \in T
  <2> HIDE DEF T
  <2> QED BY <1>1, <1>7, <1>8, IntervalInduction
<1>10. \A i \in 0..L : left[L] <= left[i]
  <2>1. TAKE i \in 0..L
  <2>2. L - i \in T /\ L - (L - i) = i
    BY <1>1, <1>9
  <2>3. QED
    BY <2>2
<1>11. QED
  BY <1>3, <1>4, <1>10

\* The merge loop keeps every slot's id and kind and keeps its stack legal.
LEMMA MergedStacks ==
  ASSUME NEW items \in Seq(Items), NEW incoming \in Items,
         NEW left \in MergeTraces(items, incoming)
  PROVE  /\ Merged(items, incoming, left) \in Seq(Items)
         /\ Len(Merged(items, incoming, left)) = Len(items)
         /\ \A n \in 1..Len(items) :
              /\ Merged(items, incoming, left)[n].id = items[n].id
              /\ Merged(items, incoming, left)[n].kind = items[n].kind
              /\ Merged(items, incoming, left)[n].qty
                   = items[n].qty + Moved(items[n], incoming, left[n - 1])
<1> DEFINE L == Len(items)
<1> DEFINE M == Merged(items, incoming, left)
<1>1. L \in Nat
  OBVIOUS
<1>2. \A n \in 1..L :
        /\ [items[n] EXCEPT !.qty = @ + Moved(items[n], incoming, left[n - 1])] \in Items
        /\ [items[n] EXCEPT !.qty = @ + Moved(items[n], incoming, left[n - 1])].id = items[n].id
        /\ [items[n] EXCEPT !.qty = @ + Moved(items[n], incoming, left[n - 1])].kind = items[n].kind
        /\ [items[n] EXCEPT !.qty = @ + Moved(items[n], incoming, left[n - 1])].qty
             = items[n].qty + Moved(items[n], incoming, left[n - 1])
  <2>1. TAKE n \in 1..L
  <2>2. items[n] \in Items
    OBVIOUS
  <2>3. left[n - 1] \in Nat
    BY <1>1, TraceFalls
  <2> DEFINE m == Moved(items[n], incoming, left[n - 1])
  <2>4. m \in Nat /\ items[n].qty + m <= MaxStack[items[n].kind]
    BY <2>2, <2>3, MovedBounds
  <2>5. items[n].qty \in Nat /\ items[n].qty > 0
    BY <2>2, ItemFields
  <2> HIDE DEF m
  <2>6. items[n].qty + m \in Nat /\ items[n].qty + m > 0
    BY <2>4, <2>5
  <2>7. QED
    BY <2>2, <2>4, <2>6, WithQuantity DEF m
<1>3. M = [n \in 1..L |-> [items[n] EXCEPT !.qty = @ + Moved(items[n], incoming, left[n - 1])]]
  BY DEF Merged
<1>4. M \in [1..L -> Items]
  BY <1>2, <1>3
<1>5. M \in Seq(Items) /\ Len(M) = L
  <2> HIDE DEF M
  <2> QED BY <1>1, <1>4
<1>6. \A n \in 1..L : M[n] = [items[n] EXCEPT !.qty = @ + Moved(items[n], incoming, left[n - 1])]
  BY <1>3
<1>7. QED
  <2> HIDE DEF M
  <2>1. QED BY <1>2, <1>5, <1>6 DEF M

\* What add_item returns: legal contents within the capacity, the old slots
\* with their ids and kinds, and at most one new slot, which bears the
\* incoming id and takes everything the merge left over.
LEMMA AddItemResult ==
  ASSUME NEW items \in Seq(Items), NEW incoming \in Items, NEW capacity \in Nat,
         Len(items) <= capacity, NEW r \in AddItem(items, incoming, capacity)
  PROVE  /\ r.items \in Seq(Items)
         /\ Len(r.items) <= capacity
         /\ r.remainder \in 0..incoming.qty
         /\ Len(r.items) >= Len(items)
         /\ \A n \in 1..Len(items) :
              r.items[n].id = items[n].id /\ r.items[n].kind = items[n].kind
         /\ \/ Len(r.items) = Len(items)
            \/ /\ Len(r.items) = Len(items) + 1
               /\ r.remainder = 0
               /\ r.items[Len(r.items)].id = incoming.id
               /\ r.items[Len(r.items)].kind = incoming.kind
<1>1. PICK left \in MergeTraces(items, incoming) : r = AddResult(items, incoming, capacity, left)
  BY DEF AddItem
<1> DEFINE L == Len(items)
<1> DEFINE M == Merged(items, incoming, left)
<1> DEFINE rest == left[L]
<1> DEFINE slot == [incoming EXCEPT !.qty = rest]
<1>2. L \in Nat /\ L \in 0..L
  OBVIOUS
<1>3. rest \in Nat /\ rest <= incoming.qty
  BY <1>2, TraceFalls
<1>4. /\ M \in Seq(Items) /\ Len(M) = L
      /\ \A n \in 1..L : M[n].id = items[n].id /\ M[n].kind = items[n].kind
  BY MergedStacks
<1>5. incoming.qty \in Nat /\ incoming.qty <= MaxStack[incoming.kind] /\ MaxStack[incoming.kind] \in Nat
  BY ItemFields
<1>6. CASE rest > 0 /\ L < capacity
  <2>1. r = [items |-> Append(M, slot), remainder |-> 0]
    BY <1>1, <1>6 DEF AddResult
  <2>2. slot \in Items /\ slot.id = incoming.id /\ slot.kind = incoming.kind
    BY <1>3, <1>5, <1>6, WithQuantity
  <2> HIDE DEF M, slot, rest
  <2>3. /\ Append(M, slot) \in Seq(Items)
        /\ Len(Append(M, slot)) = L + 1
        /\ \A n \in 1..L : Append(M, slot)[n] = M[n]
        /\ Append(M, slot)[L + 1] = slot
    BY <1>2, <1>4, <2>2
  <2>4. QED
    BY <1>2, <1>4, <1>5, <1>6, <2>1, <2>2, <2>3
<1>7. CASE ~(rest > 0 /\ L < capacity)
  <2>1. r = [items |-> M, remainder |-> rest]
    BY <1>1, <1>7 DEF AddResult
  <2> HIDE DEF M, slot, rest
  <2>2. QED
    BY <1>2, <1>3, <1>4, <1>5, <2>1
<1>8. QED
  BY <1>6, <1>7

\* An item that cannot be stacked is accepted whole, in a slot of its own
\* under its own id, or not at all.
LEMMA AddUnstackable ==
  ASSUME NEW items \in Seq(Items), NEW incoming \in Items, NEW capacity \in Nat,
         NEW r \in AddItem(items, incoming, capacity),
         ~Stackable(incoming.kind)
  PROVE  \/ /\ r.remainder = 0
            /\ Len(r.items) = Len(items) + 1
            /\ r.items[Len(items) + 1] = incoming
         \/ /\ r.remainder = incoming.qty
            /\ Len(r.items) = Len(items)
<1>1. PICK left \in MergeTraces(items, incoming) : r = AddResult(items, incoming, capacity, left)
  BY DEF AddItem
<1> DEFINE L == Len(items)
<1> DEFINE T == { i \in 0..L : left[i] = incoming.qty }
<1> DEFINE M == Merged(items, incoming, left)
<1> DEFINE slot == [incoming EXCEPT !.qty = left[L]]
<1>2. L \in Nat
  OBVIOUS
<1>3. 0 \in T
  BY <1>2 DEF MergeTraces
<1>4. \A i \in 1..L : i - 1 \in T => i \in T
  <2>1. SUFFICES ASSUME NEW i \in 1..L, i - 1 \in T PROVE i \in T
    OBVIOUS
  <2>2. left[i] = left[i - 1] - Moved(items[i], incoming, left[i - 1])
    BY <2>1 DEF MergeTraces
  <2>3. Moved(items[i], incoming, left[i - 1]) = 0
    BY DEF Moved
  <2>4. left[i - 1] = incoming.qty /\ incoming.qty \in Nat
    BY <2>1, ItemFields
  <2>5. QED
    BY <1>2, <2>2, <2>3, <2>4
<1>5. left[L] = incoming.qty
  <2>1. \A i \in 0..L : i \in T
    <3> HIDE DEF T
    <3> QED BY <1>2, <1>3, <1>4, IntervalInduction
  <2>2. QED
    BY <1>2, <2>1
<1>6. incoming.qty \in Nat /\ incoming.qty > 0 /\ incoming.qty <= MaxStack[incoming.kind]
  BY ItemFields
<1>7. M \in Seq(Items) /\ Len(M) = L
  BY MergedStacks
<1>8. CASE L < capacity
  <2>1. r = [items |-> Append(M, slot), remainder |-> 0]
    BY <1>1, <1>5, <1>6, <1>8 DEF AddResult
  <2>2. slot = incoming
    BY <1>5 DEF Items
  <2> HIDE DEF M, slot
  <2>3. QED
    BY <1>2, <1>7, <2>1, <2>2
<1>9. CASE ~(L < capacity)
  <2>1. r = [items |-> M, remainder |-> left[L]]
    BY <1>1, <1>9 DEF AddResult
  <2> HIDE DEF M
  <2>2. QED
    BY <1>5, <1>7, <2>1
<1>10. QED
  BY <1>8, <1>9

\* An item that cannot be stacked is left alone by whatever is added.
LEMMA AddKeepsUnstackables ==
  ASSUME NEW items \in Seq(Items), NEW incoming \in Items, NEW capacity \in Nat,
         NEW r \in AddItem(items, incoming, capacity),
         NEW n \in 1..Len(items), ~Stackable(items[n].kind)
  PROVE  n \in 1..Len(r.items) /\ r.items[n] = items[n]
<1>1. PICK left \in MergeTraces(items, incoming) : r = AddResult(items, incoming, capacity, left)
  BY DEF AddItem
<1> DEFINE M == Merged(items, incoming, left)
<1> DEFINE slot == [incoming EXCEPT !.qty = left[Len(items)]]
<1>2. Moved(items[n], incoming, left[n - 1]) = 0
  BY DEF Moved
<1>3. M[n] = items[n]
  <2>1. M[n] = [items[n] EXCEPT !.qty = @ + Moved(items[n], incoming, left[n - 1])]
    BY DEF Merged
  <2>2. items[n] \in Items
    OBVIOUS
  <2>3. [items[n] EXCEPT !.qty = @ + 0] = items[n]
    BY <2>2 DEF Items
  <2>4. QED
    BY <1>2, <2>1, <2>3
<1>4. M \in Seq(Items) /\ Len(M) = Len(items)
  BY MergedStacks
<1>5. r.items = M \/ r.items = Append(M, slot)
  BY <1>1 DEF AddResult
<1>6. Len(Append(M, slot)) = Len(M) + 1 /\ Append(M, slot)[n] = M[n]
  <2> HIDE DEF M, slot
  <2> QED BY <1>4
<1>7. n \in 1..Len(items) /\ n \in 1..(Len(items) + 1)
  OBVIOUS
<1>8. QED
  <2> HIDE DEF M, slot
  <2>1. CASE r.items = M
    BY <1>3, <1>4, <1>7, <2>1
  <2>2. CASE r.items = Append(M, slot)
    BY <1>3, <1>4, <1>6, <1>7, <2>2
  <2>3. QED
    BY <1>5, <2>1, <2>2

\* No id is doubled: the contents gain at most the incoming id, and only
\* when nothing remains outside under that id.
LEMMA AddItemIds ==
  ASSUME NEW items \in Seq(Items), NEW incoming \in Items, NEW capacity \in Nat,
         Len(items) <= capacity, NEW r \in AddItem(items, incoming, capacity),
         DistinctIds(items), ~HoldsId(items, incoming.id)
  PROVE  /\ DistinctIds(r.items)
         /\ \A id : HoldsId(r.items, id) => HoldsId(items, id) \/ id = incoming.id
         /\ r.remainder > 0 => ~HoldsId(r.items, incoming.id)
<1> DEFINE L == Len(items)
<1>1. /\ L \in Nat /\ Len(r.items) \in Nat
      /\ r.items \in Seq(Items)
      /\ \A n \in 1..L : r.items[n].id = items[n].id
      /\ \/ Len(r.items) = L
         \/ Len(r.items) = L + 1 /\ r.remainder = 0 /\ r.items[L + 1].id = incoming.id
  BY AddItemResult
<1>2. CASE Len(r.items) = L
  BY <1>1, <1>2 DEF DistinctIds, HoldsId
<1>3. CASE Len(r.items) = L + 1 /\ r.remainder = 0 /\ r.items[L + 1].id = incoming.id
  <2>1. \A n \in 1..(L + 1) : n \in 1..L \/ n = L + 1
    BY <1>1
  <2>2. DistinctIds(r.items)
    BY <1>1, <1>3, <2>1 DEF DistinctIds, HoldsId
  <2>3. \A id : HoldsId(r.items, id) => HoldsId(items, id) \/ id = incoming.id
    BY <1>1, <1>3, <2>1 DEF HoldsId
  <2>4. QED
    BY <1>3, <2>2, <2>3
<1>4. QED
  BY <1>1, <1>2, <1>3

\* add_item keeps contents canonical: a new slot is only opened when the
\* merge loop has filled every earlier stack of the kind.
LEMMA AddItemCanonical ==
  ASSUME NEW items \in Seq(Items), NEW incoming \in Items, NEW capacity \in Nat,
         Canonical(items), NEW r \in AddItem(items, incoming, capacity)
  PROVE  Canonical(r.items)
<1>1. PICK left \in MergeTraces(items, incoming) : r = AddResult(items, incoming, capacity, left)
  BY DEF AddItem
<1> DEFINE L == Len(items)
<1> DEFINE M == Merged(items, incoming, left)
<1> DEFINE slot == [incoming EXCEPT !.qty = left[L]]
<1>2. L \in Nat /\ L \in 0..L
  OBVIOUS
<1>3. /\ M \in Seq(Items) /\ Len(M) = L
      /\ \A n \in 1..L : /\ M[n].kind = items[n].kind
                        /\ M[n].qty = items[n].qty + Moved(items[n], incoming, left[n - 1])
  BY MergedStacks
<1>4. \A n \in 1..L : /\ items[n] \in Items /\ n - 1 \in 0..L /\ n \in 0..L
                      /\ left[n - 1] \in Nat /\ left[n] \in Nat /\ left[L] \in Nat
                      /\ left[L] <= left[n]
                      /\ left[n] = left[n - 1] - Moved(items[n], incoming, left[n - 1])
  <2>1. TAKE n \in 1..L
  <2>2. items[n] \in Items /\ n - 1 \in 0..L /\ n \in 0..L
    BY <1>2
  <2>3. left[n] = left[n - 1] - Moved(items[n], incoming, left[n - 1])
    BY DEF MergeTraces
  <2>4. QED
    BY <1>2, <2>2, <2>3, TraceFalls
<1>5. \A n \in 1..L : /\ items[n].qty \in Nat /\ MaxStack[items[n].kind] \in Nat
                      /\ Moved(items[n], incoming, left[n - 1]) \in Nat
                      /\ items[n].qty + Moved(items[n], incoming, left[n - 1]) <= MaxStack[items[n].kind]
  BY <1>4, ItemFields, MovedBounds
<1>6. \A m, n \in 1..L : m < n /\ M[m].kind = M[n].kind => M[m].qty = MaxStack[M[m].kind]
  <2>1. SUFFICES ASSUME NEW m \in 1..L, NEW n \in 1..L, m < n, M[m].kind = M[n].kind
                 PROVE  M[m].qty = MaxStack[M[m].kind]
    OBVIOUS
  <2>2. items[m].qty = MaxStack[items[m].kind]
    BY <1>3, <2>1 DEF Canonical
  <2> DEFINE d == Moved(items[m], incoming, left[m - 1])
  <2>3. /\ items[m].qty \in Nat /\ d \in Nat /\ MaxStack[items[m].kind] \in Nat
        /\ items[m].qty + d <= MaxStack[items[m].kind]
    BY <1>5, <2>1
  <2>4. M[m].kind = items[m].kind /\ M[m].qty = items[m].qty + d
    BY <1>3, <2>1
  <2> HIDE DEF M, d
  <2>5. QED
    BY <2>2, <2>3, <2>4
<1>7. CASE left[L] > 0 /\ L < capacity
  <2>1. r.items = Append(M, slot)
    BY <1>1, <1>7 DEF AddResult
  <2>2. /\ slot \in Items /\ slot.kind = incoming.kind
    <3>1. left[L] \in Nat /\ left[L] <= incoming.qty
      BY <1>2, TraceFalls
    <3>2. incoming.qty \in Nat /\ incoming.qty <= MaxStack[incoming.kind] /\ MaxStack[incoming.kind] \in Nat
      BY ItemFields
    <3>3. QED
      BY <1>7, <3>1, <3>2, WithQuantity
  <2>3. \A m \in 1..L : M[m].kind = incoming.kind => M[m].qty = MaxStack[M[m].kind]
    <3>1. SUFFICES ASSUME NEW m \in 1..L, items[m].kind = incoming.kind
                   PROVE  items[m].qty + Moved(items[m], incoming, left[m - 1]) = MaxStack[items[m].kind]
      <4> HIDE DEF M
      <4> QED BY <1>3
    <3>2. Moved(items[m], incoming, left[m - 1]) # left[m - 1]
      BY <1>4, <1>5, <1>7
    <3>3. CASE Stackable(incoming.kind)
      BY <1>4, <3>1, <3>2, <3>3, MovedBounds
    <3>4. CASE ~Stackable(incoming.kind)
      <4>1. MaxStack[items[m].kind] = 1
        BY <3>1, <3>4, MaxStackAssumption, <1>4, ItemFields DEF Stackable
      <4>2. items[m].qty = 1
        BY <1>4, <4>1, ItemFields
      <4>3. Moved(items[m], incoming, left[m - 1]) = 0
        BY <3>4 DEF Moved
      <4>4. QED
        BY <4>1, <4>2, <4>3
    <3>5. QED
      BY <3>3, <3>4
  <2> HIDE DEF M, slot
  <2>4. /\ Len(Append(M, slot)) = L + 1
        /\ \A n \in 1..L : Append(M, slot)[n] = M[n]
        /\ Append(M, slot)[L + 1] = slot
    BY <1>2, <1>3, <2>2
  <2>5. SUFFICES ASSUME NEW m \in 1..(L + 1), NEW n \in 1..(L + 1), m < n,
                        Append(M, slot)[m].kind = Append(M, slot)[n].kind
                 PROVE  Append(M, slot)[m].qty = MaxStack[Append(M, slot)[m].kind]
    BY <2>1, <2>4 DEF Canonical
  <2>6. m \in 1..L /\ Append(M, slot)[m] = M[m]
    BY <1>2, <2>4, <2>5
  <2>7. CASE n \in 1..L
    BY <1>6, <2>4, <2>5, <2>6, <2>7
  <2>8. CASE n = L + 1
    BY <2>2, <2>3, <2>4, <2>5, <2>6, <2>8
  <2>9. n \in 1..L \/ n = L + 1
    BY <1>2
  <2>10. QED
    BY <2>7, <2>8, <2>9
<1>8. CASE ~(left[L] > 0 /\ L < capacity)
  <2>1. r.items = M
    BY <1>1, <1>8 DEF AddResult
  <2> HIDE DEF M
  <2>2. QED
    BY <1>3, <1>6, <2>1 DEF Canonical
<1>9. QED
  BY <1>7, <1>8

\* remove_item: the other slots keep their items and their order.
LEMMA WithoutSlotResult ==
  ASSUME NEW items \in Seq(Items), NEW n \in 1..Len(items)
  PROVE  /\ WithoutSlot(items, n) \in Seq(Items)
         /\ Len(WithoutSlot(items, n)) = Len(items) - 1
         /\ \A m \in 1..(Len(items) - 1) :
              WithoutSlot(items, n)[m] = IF m < n THEN items[m] ELSE items[m + 1]
<1> DEFINE W == WithoutSlot(items, n)
<1>1. Len(items) \in Nat /\ Len(items) - 1 \in Nat
  OBVIOUS
<1>2. W = [ m \in 1..(Len(items) - 1) |-> IF m < n THEN items[m] ELSE items[m + 1] ]
  BY DEF WithoutSlot
<1>3. \A m \in 1..(Len(items) - 1) : (IF m < n THEN items[m] ELSE items[m + 1]) \in Items
  BY <1>1
<1>4. W \in [1..(Len(items) - 1) -> Items]
  BY <1>2, <1>3
<1>5. QED
  <2>1. \A m \in 1..(Len(items) - 1) : W[m] = IF m < n THEN items[m] ELSE items[m + 1]
    BY <1>2
  <2> HIDE DEF W
  <2>2. W \in Seq(Items) /\ Len(W) = Len(items) - 1
    BY <1>1, <1>4
  <2>3. QED
    BY <2>1, <2>2 DEF W

\* remove_item takes exactly one id out.
LEMMA WithoutSlotIds ==
  ASSUME NEW items \in Seq(Items), NEW n \in 1..Len(items), DistinctIds(items)
  PROVE  /\ DistinctIds(WithoutSlot(items, n))
         /\ ~HoldsId(WithoutSlot(items, n), items[n].id)
         /\ \A id : HoldsId(WithoutSlot(items, n), id) => HoldsId(items, id)
<1> DEFINE W == WithoutSlot(items, n)
<1> DEFINE old(m) == IF m < n THEN m ELSE m + 1
<1>1. Len(items) \in Nat /\ Len(W) = Len(items) - 1
  BY WithoutSlotResult
<1>2. \A m \in 1..(Len(items) - 1) : /\ old(m) \in 1..Len(items) /\ old(m) # n
                                     /\ W[m] = items[old(m)]
  <2>1. TAKE m \in 1..(Len(items) - 1)
  <2>2. W[m] = IF m < n THEN items[m] ELSE items[m + 1]
    BY WithoutSlotResult
  <2>3. old(m) \in 1..Len(items) /\ old(m) # n
    BY <1>1
  <2>4. QED
    BY <2>2, <2>3
<1>3. \A l, m \in 1..(Len(items) - 1) : old(l) = old(m) => l = m
  BY <1>1
<1>4. QED
  <2> HIDE DEF W, old
  <2>1. ASSUME NEW l \in 1..Len(W), NEW m \in 1..Len(W), W[l].id = W[m].id PROVE l = m
    <3>1. /\ l \in 1..(Len(items) - 1) /\ m \in 1..(Len(items) - 1)
          /\ old(l) \in 1..Len(items) /\ old(m) \in 1..Len(items)
          /\ W[l] = items[old(l)] /\ W[m] = items[old(m)]
      BY <1>1, <1>2
    <3>2. old(l) = old(m)
      BY <2>1, <3>1 DEF DistinctIds
    <3>3. QED
      BY <1>3, <3>1, <3>2
  <2>2. ~HoldsId(W, items[n].id)
    BY <1>1, <1>2 DEF DistinctIds, HoldsId
  <2>3. \A id : HoldsId(W, id) => HoldsId(items, id)
    BY <1>1, <1>2 DEF HoldsId
  <2>4. QED
    BY <2>1, <2>2, <2>3 DEF W, DistinctIds

\* remove_item keeps every item but the removed one.
LEMMA WithoutSlotKeeps ==
  ASSUME NEW items \in Seq(Items), NEW n \in 1..Len(items), NEW k \in 1..Len(items), k # n
  PROVE  \E m \in 1..Len(WithoutSlot(items, n)) : WithoutSlot(items, n)[m] = items[k]
<1> DEFINE m == IF k < n THEN k ELSE k - 1
<1>1. Len(items) \in Nat
  OBVIOUS
<1>2. m \in 1..(Len(items) - 1) /\ (IF m < n THEN m ELSE m + 1) = k
  BY <1>1
<1>3. WithoutSlot(items, n)[m] = items[k] /\ Len(WithoutSlot(items, n)) = Len(items) - 1
  BY <1>2, WithoutSlotResult
<1>4. QED
  BY <1>2, <1>3

\* remove_item keeps contents canonical.
LEMMA WithoutSlotCanonical ==
  ASSUME NEW items \in Seq(Items), NEW n \in 1..Len(items), Canonical(items)
  PROVE  Canonical(WithoutSlot(items, n))
<1> DEFINE W == WithoutSlot(items, n)
<1> DEFINE old(m) == IF m < n THEN m ELSE m + 1
<1>1. Len(items) \in Nat /\ Len(W) = Len(items) - 1
  BY WithoutSlotResult
<1>2. \A m \in 1..(Len(items) - 1) : old(m) \in 1..Len(items) /\ W[m] = items[old(m)]
  <2>1. TAKE m \in 1..(Len(items) - 1)
  <2>2. W[m] = IF m < n THEN items[m] ELSE items[m + 1]
    BY WithoutSlotResult
  <2>3. old(m) \in 1..Len(items)
    BY <1>1
  <2>4. QED
    BY <2>2, <2>3
<1>3. \A l, m \in 1..(Len(items) - 1) : l < m => old(l) < old(m)
  BY <1>1
<1>4. QED
  <2> HIDE DEF W, old
  <2>1. ASSUME NEW l \in 1..Len(W), NEW m \in 1..Len(W), l < m, W[l].kind = W[m].kind
        PROVE  W[l].qty = MaxStack[W[l].kind]
    <3>1. /\ l \in 1..(Len(items) - 1) /\ m \in 1..(Len(items) - 1)
          /\ old(l) \in 1..Len(items) /\ old(m) \in 1..Len(items)
          /\ W[l] = items[old(l)] /\ W[m] = items[old(m)]
      BY <1>1, <1>2
    <3>2. old(l) < old(m)
      BY <1>3, <2>1, <3>1
    <3>3. QED
      BY <2>1, <3>1, <3>2 DEF Canonical
  <2>2. QED
    BY <2>1 DEF W, Canonical

(***************************************************************************)
(* The items of a session: owned once, in canonical stacks.                *)
(***************************************************************************)
\* The inductive invariant. Unique ownership alone is not inductive: a drop
\* writes under the item's default id, and only PlacementsNamed tells that
\* no other item lies there.
IInv ==
    /\ TypeOK
    /\ UniqueOwnership
    /\ CanonicalStacks
    /\ PlacementsNamed

LEMMA PlacementFacts ==
  ASSUME NEW p \in DOMAIN Placements
  PROVE  /\ p \in WorldIds
         /\ Placements[p] \in WorldItems
         /\ Placements[p].item \in Items /\ Placements[p].pos \in Positions
BY PlacementAssumption DEF WorldItems

LEMMA StarterFacts ==
  /\ Capacity \in Nat /\ Starter \in Seq(Items) /\ Len(Starter) <= Capacity
  /\ DistinctIds(Starter) /\ Canonical(Starter)
BY StarterAssumption DEF DistinctIds

LEMMA InitEstablishes == Init => IInv
<1> SUFFICES ASSUME Init PROVE IInv
  OBVIOUS
<1>1. /\ inv = Starter /\ equipped = [s \in Slots |-> NoItem] /\ ground = Placements
  BY DEF Init
<1>2. InUse = {}
  BY <1>1 DEF InUse
<1>3. ground \in [DOMAIN ground -> WorldItems] /\ DOMAIN ground \subseteq WorldIds
  <2>1. DOMAIN Placements \subseteq WorldIds
    BY PlacementAssumption
  <2>2. Placements \in [DOMAIN Placements -> WorldItems]
    BY PlacementAssumption DEF WorldItems
  <2>3. QED
    BY <1>1, <2>1, <2>2
<1>4. TypeOK
  BY <1>1, <1>3, StarterFacts DEF TypeOK
<1>5. UniqueOwnership
  <2>1. OnceInInventory
    BY <1>1, StarterFacts DEF OnceInInventory
  <2>2. OnceInEquipment
    BY <1>2 DEF OnceInEquipment
  <2>3. OnceInWorld
    BY <1>1, PlacementAssumption DEF OnceInWorld
  <2>4. OwnersDisjoint
    BY <1>1, <1>2, StarterAssumption DEF OwnersDisjoint, HoldsId
  <2>5. QED
    BY <2>1, <2>2, <2>3, <2>4 DEF UniqueOwnership
<1>6. CanonicalStacks
  BY <1>1, StarterFacts DEF CanonicalStacks
<1>7. PlacementsNamed
  BY <1>1 DEF PlacementsNamed
<1>8. QED
  BY <1>4, <1>5, <1>6, <1>7 DEF IInv

LEMMA PickupPreserves ==
  ASSUME IInv, NEW w \in WorldIds, Pickup(w)
  PROVE  IInv'
<1> DEFINE item == ground[w].item
<1>1. /\ inv \in Seq(Items) /\ Len(inv) <= Capacity /\ Capacity \in Nat
      /\ equipped \in [Slots -> Items \cup {NoItem}]
      /\ DOMAIN ground \subseteq WorldIds /\ ground \in [DOMAIN ground -> WorldItems]
  BY StarterFacts DEF IInv, TypeOK
<1>2. /\ w \in DOMAIN ground /\ ground[w] \in WorldItems
      /\ item \in Items /\ ~HoldsId(inv, item.id) /\ equipped' = equipped
  BY <1>1 DEF Pickup, WorldItems
<1>3. PICK r \in AddItem(inv, item, Capacity) :
        /\ r.remainder < item.qty
        /\ inv' = r.items
        /\ ground' = IF r.remainder > 0
                     THEN Requantified(w, r.remainder)
                     ELSE Taken(w)
  BY DEF Pickup
<1>4. /\ inv' \in Seq(Items) /\ Len(inv') <= Capacity /\ r.remainder \in 0..item.qty
      /\ item.qty \in Nat /\ item.qty <= MaxStack[item.kind] /\ MaxStack[item.kind] \in Nat
  <2> HIDE DEF item
  <2> QED BY <1>1, <1>2, <1>3, AddItemResult, ItemFields
<1>5. /\ OnceInInventory'
      /\ \A id : HoldsId(inv', id) => HoldsId(inv, id) \/ id = item.id
      /\ r.remainder > 0 => ~HoldsId(inv', item.id)
  <2> HIDE DEF item
  <2>1. DistinctIds(inv)
    BY DEF IInv, UniqueOwnership, OnceInInventory
  <2>2. QED
    BY <1>1, <1>2, <1>3, <2>1, AddItemIds DEF OnceInInventory
<1>6. /\ DOMAIN ground' \subseteq DOMAIN ground
      /\ ground' \in [DOMAIN ground' -> WorldItems]
      /\ \A v \in DOMAIN ground' : ground'[v].item.id = ground[v].item.id
      /\ \A v \in DOMAIN ground' : v = w => r.remainder > 0
  <2>1. CASE r.remainder > 0
    <3>1. [item EXCEPT !.qty = r.remainder] \in Items
          /\ [item EXCEPT !.qty = r.remainder].id = item.id
      <4> HIDE DEF item
      <4> QED BY <1>2, <1>4, <2>1, WithQuantity
    <3> DEFINE kept == [item EXCEPT !.qty = r.remainder]
    <3>2. ground' = [v \in DOMAIN ground \cup {w} |->
                       IF v = w THEN [item |-> kept, pos |-> ground[w].pos] ELSE ground[v]]
      BY <1>3, <2>1 DEF Requantified, Placed
    <3>3. [item |-> kept, pos |-> ground[w].pos] \in WorldItems
      BY <1>2, <3>1 DEF WorldItems
    <3> HIDE DEF kept
    <3>4. QED
      BY <1>1, <1>2, <2>1, <3>1, <3>2, <3>3 DEF kept
  <2>2. CASE ~(r.remainder > 0)
    <3>1. ground' = [v \in DOMAIN ground \ {w} |-> ground[v]]
      BY <1>3, <2>2 DEF Taken
    <3>2. QED
      BY <1>1, <3>1
  <2>3. QED
    BY <2>1, <2>2
<1>7. TypeOK'
  BY <1>1, <1>2, <1>4, <1>6 DEF TypeOK
<1>8. UniqueOwnership'
  <2>1. OnceInEquipment'
    BY <1>2 DEF IInv, UniqueOwnership, OnceInEquipment, InUse
  <2>2. OnceInWorld'
    BY <1>6 DEF IInv, UniqueOwnership, OnceInWorld
  <2>3. \A s \in InUse' : ~HoldsId(inv', equipped'[s].id)
    BY <1>2, <1>5 DEF IInv, UniqueOwnership, OwnersDisjoint, InUse
  <2>4. \A v \in DOMAIN ground' : ~HoldsId(inv', ground'[v].item.id)
    BY <1>2, <1>5, <1>6 DEF IInv, UniqueOwnership, OwnersDisjoint, OnceInWorld
  <2>5. \A s \in InUse', v \in DOMAIN ground' : equipped'[s].id # ground'[v].item.id
    BY <1>2, <1>6 DEF IInv, UniqueOwnership, OwnersDisjoint, InUse
  <2>6. QED
    BY <1>5, <2>1, <2>2, <2>3, <2>4, <2>5 DEF UniqueOwnership, OwnersDisjoint
<1>9. CanonicalStacks'
  <2> HIDE DEF item
  <2>1. Canonical(inv)
    BY DEF IInv, CanonicalStacks
  <2>2. QED
    BY <1>1, <1>2, <1>3, <2>1, AddItemCanonical DEF CanonicalStacks
<1>10. PlacementsNamed'
  BY <1>6 DEF IInv, PlacementsNamed
<1>11. QED
  BY <1>7, <1>8, <1>9, <1>10 DEF IInv

LEMMA DropPreserves ==
  ASSUME IInv, NEW n \in 1..Capacity, NEW pos \in Positions, Drop(n, pos)
  PROVE  IInv'
<1> DEFINE item == inv[n]
<1> DEFINE w == DefaultId[item.id]
<1>1. /\ inv \in Seq(Items) /\ Len(inv) <= Capacity /\ Capacity \in Nat
      /\ equipped \in [Slots -> Items \cup {NoItem}]
      /\ DOMAIN ground \subseteq WorldIds /\ ground \in [DOMAIN ground -> WorldItems]
  BY StarterFacts DEF IInv, TypeOK
<1>2. n \in 1..Len(inv) /\ item \in Items /\ item.id \in ItemIds /\ w \in WorldIds
  BY <1>1, ItemFields, DefaultIdAssumption DEF Drop
<1>3. /\ CanPlace(w, item)
      /\ ground' = Placed(w, item, pos)
      /\ inv' = WithoutSlot(inv, n)
      /\ equipped' = equipped
  BY DEF Drop
<1>4. /\ DOMAIN ground' = DOMAIN ground \cup {w}
      /\ ground'[w] = [item |-> item, pos |-> pos]
      /\ \A v \in DOMAIN ground : v # w /\ ground'[v] = ground[v]
      /\ \A v \in DOMAIN ground : ground[v].item.id # item.id
      /\ ground' \in [DOMAIN ground' -> WorldItems]
  <2> HIDE DEF w, item
  <2>1. ground' = [v \in DOMAIN ground \cup {w} |->
                     IF v = w THEN [item |-> item, pos |-> pos] ELSE ground[v]]
    BY <1>3 DEF Placed
  <2>2. [item |-> item, pos |-> pos] \in WorldItems
    BY <1>2 DEF WorldItems
  <2>3. w \notin DOMAIN ground /\ \A v \in DOMAIN ground : ground[v].item.id # item.id
    BY <1>3 DEF CanPlace
  <2>4. QED
    BY <1>1, <2>1, <2>2, <2>3
<1>5. /\ inv' \in Seq(Items) /\ Len(inv') <= Capacity
      /\ OnceInInventory'
      /\ ~HoldsId(inv', item.id)
      /\ \A id : HoldsId(inv', id) => HoldsId(inv, id)
  <2>1. DistinctIds(inv)
    BY DEF IInv, UniqueOwnership, OnceInInventory
  <2>2. Len(inv) \in Nat /\ Len(inv') = Len(inv) - 1 /\ inv' \in Seq(Items)
    BY <1>1, <1>2, <1>3, WithoutSlotResult
  <2>3. QED
    BY <1>1, <1>2, <1>3, <2>1, <2>2, WithoutSlotIds DEF OnceInInventory
<1>6. HoldsId(inv, item.id)
  BY <1>2 DEF HoldsId
<1>7. TypeOK'
  BY <1>1, <1>2, <1>3, <1>4, <1>5 DEF TypeOK
<1>8. UniqueOwnership'
  <2> HIDE DEF w, item
  <2>1. OnceInEquipment'
    BY <1>3 DEF IInv, UniqueOwnership, OnceInEquipment, InUse
  <2>2. OnceInWorld'
    BY <1>4 DEF IInv, UniqueOwnership, OnceInWorld
  <2>3. \A s \in InUse' : ~HoldsId(inv', equipped'[s].id)
    BY <1>3, <1>5 DEF IInv, UniqueOwnership, OwnersDisjoint, InUse
  <2>4. \A v \in DOMAIN ground' : ~HoldsId(inv', ground'[v].item.id)
    BY <1>4, <1>5 DEF IInv, UniqueOwnership, OwnersDisjoint
  <2>5. \A s \in InUse', v \in DOMAIN ground' : equipped'[s].id # ground'[v].item.id
    BY <1>3, <1>4, <1>6 DEF IInv, UniqueOwnership, OwnersDisjoint, InUse
  <2>6. QED
    BY <1>5, <2>1, <2>2, <2>3, <2>4, <2>5 DEF UniqueOwnership, OwnersDisjoint
<1>9. CanonicalStacks'
  BY <1>1, <1>2, <1>3, WithoutSlotCanonical DEF IInv, CanonicalStacks
<1>10. PlacementsNamed'
  <2> HIDE DEF item
  <2> QED BY <1>4 DEF IInv, PlacementsNamed
<1>11. QED
  BY <1>7, <1>8, <1>9, <1>10 DEF IInv

LEMMA EquipPreserves ==
  ASSUME IInv, NEW n \in 1..Capacity, NEW s \in Slots, Equip(n, s)
  PROVE  IInv'
<1> DEFINE item == inv[n]
<1>1. /\ inv \in Seq(Items) /\ Len(inv) <= Capacity /\ Capacity \in Nat
      /\ equipped \in [Slots -> Items \cup {NoItem}]
      /\ DOMAIN ground \subseteq WorldIds /\ ground \in [DOMAIN ground -> WorldItems]
  BY StarterFacts DEF IInv, TypeOK
<1>2. /\ n \in 1..Len(inv) /\ item \in Items /\ HoldsId(inv, item.id)
      /\ equipped[s] = NoItem /\ item # NoItem
      /\ equipped' = [equipped EXCEPT ![s] = item]
      /\ inv' = WithoutSlot(inv, n)
      /\ ground' = ground
  BY <1>1, EquipAssumption DEF Equip, CanEquip, HoldsId
<1>3. /\ equipped' \in [Slots -> Items \cup {NoItem}]
      /\ InUse' = InUse \cup {s} /\ s \notin InUse
      /\ equipped'[s] = item
      /\ \A t \in InUse : equipped'[t] = equipped[t]
  <2> HIDE DEF item
  <2> QED BY <1>1, <1>2 DEF InUse
<1>4. /\ inv' \in Seq(Items) /\ Len(inv') <= Capacity
      /\ OnceInInventory'
      /\ ~HoldsId(inv', item.id)
      /\ \A id : HoldsId(inv', id) => HoldsId(inv, id)
  <2>1. DistinctIds(inv)
    BY DEF IInv, UniqueOwnership, OnceInInventory
  <2>2. Len(inv) \in Nat /\ Len(inv') = Len(inv) - 1 /\ inv' \in Seq(Items)
    BY <1>1, <1>2, WithoutSlotResult
  <2>3. QED
    BY <1>1, <1>2, <2>1, <2>2, WithoutSlotIds DEF OnceInInventory
<1>5. TypeOK'
  BY <1>1, <1>2, <1>3, <1>4 DEF TypeOK
<1>6. UniqueOwnership'
  <2> HIDE DEF item
  <2>1. OnceInEquipment'
    BY <1>2, <1>3 DEF IInv, UniqueOwnership, OnceInEquipment, OwnersDisjoint
  <2>2. OnceInWorld'
    BY <1>2 DEF IInv, UniqueOwnership, OnceInWorld
  <2>3. \A t \in InUse' : ~HoldsId(inv', equipped'[t].id)
    BY <1>3, <1>4 DEF IInv, UniqueOwnership, OwnersDisjoint
  <2>4. \A v \in DOMAIN ground' : ~HoldsId(inv', ground'[v].item.id)
    BY <1>2, <1>4 DEF IInv, UniqueOwnership, OwnersDisjoint
  <2>5. \A t \in InUse', v \in DOMAIN ground' : equipped'[t].id # ground'[v].item.id
    BY <1>2, <1>3 DEF IInv, UniqueOwnership, OwnersDisjoint
  <2>6. QED
    BY <1>4, <2>1, <2>2, <2>3, <2>4, <2>5 DEF UniqueOwnership, OwnersDisjoint
<1>7. CanonicalStacks'
  BY <1>1, <1>2, WithoutSlotCanonical DEF IInv, CanonicalStacks
<1>8. PlacementsNamed'
  BY <1>2 DEF IInv, PlacementsNamed
<1>9. QED
  BY <1>5, <1>6, <1>7, <1>8 DEF IInv

LEMMA UnequipPreserves ==
  ASSUME IInv, NEW s \in Slots, Unequip(s)
  PROVE  IInv'
<1> DEFINE item == equipped[s]
<1>1. /\ inv \in Seq(Items) /\ Len(inv) <= Capacity /\ Capacity \in Nat
      /\ equipped \in [Slots -> Items \cup {NoItem}]
      /\ DOMAIN ground \subseteq WorldIds /\ ground \in [DOMAIN ground -> WorldItems]
  BY StarterFacts DEF IInv, TypeOK
<1>2. /\ item \in Items /\ s \in InUse /\ ~HoldsId(inv, item.id) /\ ground' = ground
  BY <1>1 DEF Unequip, InUse
<1>3. PICK r \in AddItem(inv, item, Capacity) :
        /\ inv' = r.items
        /\ equipped' = IF r.remainder = 0 THEN [equipped EXCEPT ![s] = NoItem] ELSE equipped
  BY DEF Unequip
<1> HIDE DEF item
<1>4. /\ inv' \in Seq(Items) /\ Len(inv') <= Capacity /\ r.remainder \in 0..item.qty
      /\ item.qty \in Nat
  BY <1>1, <1>2, <1>3, AddItemResult, ItemFields
<1>5. /\ OnceInInventory'
      /\ \A id : HoldsId(inv', id) => HoldsId(inv, id) \/ id = item.id
      /\ r.remainder > 0 => ~HoldsId(inv', item.id)
  <2>1. DistinctIds(inv)
    BY DEF IInv, UniqueOwnership, OnceInInventory
  <2>2. QED
    BY <1>1, <1>2, <1>3, <2>1, AddItemIds DEF OnceInInventory
<1>6. /\ equipped' \in [Slots -> Items \cup {NoItem}]
      /\ InUse' \subseteq InUse
      /\ \A t \in InUse' : equipped'[t] = equipped[t]
      /\ s \in InUse' => r.remainder > 0
  <2>1. CASE r.remainder = 0
    <3>1. equipped' = [equipped EXCEPT ![s] = NoItem]
      BY <1>3, <2>1
    <3>2. QED
      BY <1>1, <3>1 DEF InUse
  <2>2. CASE r.remainder # 0
    <3>1. equipped' = equipped
      BY <1>3, <2>2
    <3>2. QED
      BY <1>1, <1>4, <2>2, <3>1 DEF InUse
  <2>3. QED
    BY <2>1, <2>2
<1>7. TypeOK'
  BY <1>1, <1>2, <1>4, <1>6 DEF TypeOK
<1>8. UniqueOwnership'
  <2>1. OnceInEquipment'
    BY <1>6 DEF IInv, UniqueOwnership, OnceInEquipment
  <2>2. OnceInWorld'
    BY <1>2 DEF IInv, UniqueOwnership, OnceInWorld
  <2>3. \A t \in InUse' : ~HoldsId(inv', equipped'[t].id)
    BY <1>2, <1>5, <1>6 DEF IInv, UniqueOwnership, OwnersDisjoint, OnceInEquipment, item
  <2>4. \A v \in DOMAIN ground' : ~HoldsId(inv', ground'[v].item.id)
    BY <1>2, <1>5 DEF IInv, UniqueOwnership, OwnersDisjoint, item
  <2>5. \A t \in InUse', v \in DOMAIN ground' : equipped'[t].id # ground'[v].item.id
    BY <1>2, <1>6 DEF IInv, UniqueOwnership, OwnersDisjoint
  <2>6. QED
    BY <1>5, <2>1, <2>2, <2>3, <2>4, <2>5 DEF UniqueOwnership, OwnersDisjoint
<1>9. CanonicalStacks'
  <2>1. Canonical(inv)
    BY DEF IInv, CanonicalStacks
  <2>2. QED
    BY <1>1, <1>2, <1>3, <2>1, AddItemCanonical DEF CanonicalStacks
<1>10. PlacementsNamed'
  BY <1>2 DEF IInv, PlacementsNamed
<1>11. QED
  BY <1>7, <1>8, <1>9, <1>10 DEF IInv

LEMMA NextPreserves == IInv /\ [Next]_vars => IInv'
<1> SUFFICES ASSUME IInv, [Next]_vars PROVE IInv'
  OBVIOUS
<1>1. ASSUME NEW w \in WorldIds, Pickup(w) PROVE IInv'
  BY <1>1, PickupPreserves
<1>2. ASSUME NEW n \in 1..Capacity, NEW pos \in Positions, Drop(n, pos) PROVE IInv'
  BY <1>2, DropPreserves
<1>3. ASSUME NEW n \in 1..Capacity, NEW s \in Slots, Equip(n, s) PROVE IInv'
  BY <1>3, EquipPreserves
<1>4. ASSUME NEW s \in Slots, Unequip(s) PROVE IInv'
  BY <1>4, UnequipPreserves
<1>5. CASE UNCHANGED vars
  BY <1>5 DEF vars, IInv, TypeOK, UniqueOwnership, OnceInInventory, OnceInEquipment,
              OnceInWorld, OwnersDisjoint, InUse, CanonicalStacks, PlacementsNamed
<1>6. QED
  BY <1>1, <1>2, <1>3, <1>4, <1>5 DEF Next

LEMMA InvariantHolds == Spec => []IInv
BY InitEstablishes, NextPreserves, PTL DEF Spec

\* Inventory, equipment and world always have their shape: the inventory
\* never outgrows its capacity and no stack its limit.
THEOREM TypeCorrect == Spec => []TypeOK
<1>1. IInv => TypeOK
  BY DEF IInv
<1>2. QED
  BY InvariantHolds, <1>1, PTL

\* No sequence of pickups, drops, equips and unequips lets one item id be
\* owned twice, in any inventory, equipment and world.
THEOREM OwnershipIsUnique == Spec => []UniqueOwnership
<1>1. IInv => UniqueOwnership
  BY DEF IInv
<1>2. QED
  BY InvariantHolds, <1>1, PTL

\* Every inventory that play can produce is one that inventory.restore
\* accepts unchanged: at most the last stack of a kind is partial.
THEOREM StacksStayCanonical == Spec => []CanonicalStacks
<1>1. IInv => CanonicalStacks
  BY DEF IInv
<1>2. QED
  BY InvariantHolds, <1>1, PTL

\* A dropped item always lies under its own default id, and an authored
\* placement id never comes to name another item: what save_data.capture
\* relies on when it tells static placements from dynamic ones by their id.
THEOREM PlacementsStayNamed == Spec => []PlacementsNamed
<1>1. IInv => PlacementsNamed
  BY DEF IInv
<1>2. QED
  BY InvariantHolds, <1>1, PTL

\* The asserts of world_items.can_place and container.add_item are
\* unreachable from the transfers: no pickup, drop or unequip aborts.
THEOREM NoTransferAborts == Spec => []TransfersNeverAbort
<1>1. ASSUME IInv PROVE TransfersNeverAbort
  <2>1. \A n \in 1..Len(inv) : CanPlace(DefaultId[inv[n].id], inv[n])
    <3>1. SUFFICES ASSUME NEW n \in 1..Len(inv) PROVE CanPlace(DefaultId[inv[n].id], inv[n])
      OBVIOUS
    <3>2. inv[n] \in Items /\ inv[n].id \in ItemIds /\ HoldsId(inv, inv[n].id)
      BY <1>1, <3>1, ItemFields DEF IInv, TypeOK, HoldsId
    <3>3. \A v \in DOMAIN ground : ground[v].item.id # inv[n].id
      BY <1>1, <3>2 DEF IInv, UniqueOwnership, OwnersDisjoint
    <3>4. ASSUME DefaultId[inv[n].id] \in DOMAIN ground PROVE FALSE
      <4> DEFINE v == DefaultId[inv[n].id]
      <4>1. ground[v].item.id \in ItemIds
        BY <1>1, <3>4, ItemFields DEF IInv, TypeOK, WorldItems
      <4>2. CASE v = DefaultId[ground[v].item.id]
        BY <3>2, <3>3, <3>4, <4>1, <4>2, DefaultIdAssumption
      <4>3. CASE v \in DOMAIN Placements /\ ground[v].item.id = Placements[v].item.id
        BY <3>2, <3>3, <3>4, <4>3, PlacementAssumption
      <4>4. QED
        BY <1>1, <3>4, <4>2, <4>3 DEF IInv, PlacementsNamed
    <3>5. QED
      BY <3>3, <3>4 DEF CanPlace
  <2>2. QED
    BY <1>1, <2>1 DEF IInv, UniqueOwnership, OwnersDisjoint, TransfersNeverAbort
<1>2. QED
  BY InvariantHolds, <1>1, PTL

-----------------------------------------------------------------------------
LEMMA AuthoredAreItems == AuthoredItems \subseteq Items
BY PlacementFacts, StarterFacts DEF AuthoredItems

\* One owned unstackable item stays owned, unchanged, through any step.
LEMMA UnstackableKept ==
  ASSUME IInv, NEW i \in Items, ~Stackable(i.kind), Owned(i), [Next]_vars
  PROVE  Owned(i)'
<1>1. /\ inv \in Seq(Items) /\ Len(inv) <= Capacity /\ Capacity \in Nat
      /\ equipped \in [Slots -> Items \cup {NoItem}]
      /\ ground \in [DOMAIN ground -> WorldItems]
      /\ i # NoItem /\ i.qty \in Nat /\ i.qty > 0
  BY StarterFacts, EquipAssumption, ItemFields DEF IInv, TypeOK
<1>2. ASSUME NEW w \in WorldIds, Pickup(w) PROVE Owned(i)'
  <2> DEFINE item == ground[w].item
  <2>1. w \in DOMAIN ground /\ item \in Items /\ equipped' = equipped
    BY <1>1, <1>2 DEF Pickup, WorldItems
  <2>2. PICK r \in AddItem(inv, item, Capacity) :
          /\ r.remainder < item.qty
          /\ inv' = r.items
          /\ ground' = IF r.remainder > 0 THEN Requantified(w, r.remainder) ELSE Taken(w)
    BY <1>2 DEF Pickup
  <2>3. \A v \in DOMAIN ground \ {w} : v \in DOMAIN ground' /\ ground'[v] = ground[v]
    BY <2>2 DEF Requantified, Placed, Taken
  <2>4. ASSUME NEW n \in 1..Len(inv), inv[n] = i PROVE Owned(i)'
    <3> HIDE DEF item
    <3>1. n \in 1..Len(inv') /\ inv'[n] = i
      BY <1>1, <2>1, <2>2, <2>4, AddKeepsUnstackables
    <3>2. QED
      BY <3>1 DEF Owned
  <2>5. ASSUME NEW s \in Slots, equipped[s] = i PROVE Owned(i)'
    BY <2>1, <2>5 DEF Owned
  <2>6. ASSUME NEW v \in DOMAIN ground, ground[v].item = i, v # w PROVE Owned(i)'
    BY <2>3, <2>6 DEF Owned
  <2>7. ASSUME item = i PROVE Owned(i)'
    <3>1. \/ r.remainder = 0 /\ Len(inv') = Len(inv) + 1 /\ inv'[Len(inv) + 1] = item
          \/ r.remainder = item.qty
      <4> HIDE DEF item
      <4> QED BY <1>1, <2>1, <2>2, <2>7, AddUnstackable
    <3>2. Len(inv') = Len(inv) + 1 /\ inv'[Len(inv) + 1] = i
      BY <1>1, <2>2, <2>7, <3>1
    <3>3. Len(inv) + 1 \in 1..Len(inv')
      BY <1>1, <3>2
    <3>4. QED
      BY <3>2, <3>3 DEF Owned
  <2>8. QED
    BY <2>4, <2>5, <2>6, <2>7 DEF Owned
<1>3. ASSUME NEW n \in 1..Capacity, NEW pos \in Positions, Drop(n, pos) PROVE Owned(i)'
  <2> DEFINE w == DefaultId[inv[n].id]
  <2>1. /\ n \in 1..Len(inv) /\ w \notin DOMAIN ground
        /\ ground' = Placed(w, inv[n], pos)
        /\ inv' = WithoutSlot(inv, n) /\ equipped' = equipped
    BY <1>3 DEF Drop, CanPlace
  <2> HIDE DEF w
  <2>2. /\ \A v \in DOMAIN ground : v \in DOMAIN ground' /\ ground'[v] = ground[v]
        /\ w \in DOMAIN ground' /\ ground'[w].item = inv[n]
    BY <2>1 DEF Placed
  <2>3. ASSUME NEW k \in 1..Len(inv), inv[k] = i, k # n PROVE Owned(i)'
    <3>1. \E m \in 1..Len(inv') : inv'[m] = i
      BY <1>1, <2>1, <2>3, WithoutSlotKeeps
    <3>2. QED
      BY <3>1 DEF Owned
  <2>4. QED
    BY <2>1, <2>2, <2>3 DEF Owned
<1>4. ASSUME NEW n \in 1..Capacity, NEW s \in Slots, Equip(n, s) PROVE Owned(i)'
  <2>1. /\ n \in 1..Len(inv) /\ equipped[s] = NoItem
        /\ equipped' = [equipped EXCEPT ![s] = inv[n]]
        /\ inv' = WithoutSlot(inv, n) /\ ground' = ground
    BY <1>4 DEF Equip, CanEquip
  <2>2. equipped'[s] = inv[n] /\ \A t \in Slots \ {s} : equipped'[t] = equipped[t]
    BY <1>1, <2>1
  <2>3. ASSUME NEW k \in 1..Len(inv), inv[k] = i, k # n PROVE Owned(i)'
    <3>1. \E m \in 1..Len(inv') : inv'[m] = i
      BY <1>1, <2>1, <2>3, WithoutSlotKeeps
    <3>2. QED
      BY <3>1 DEF Owned
  <2>4. QED
    BY <1>1, <2>1, <2>2, <2>3 DEF Owned
<1>5. ASSUME NEW s \in Slots, Unequip(s) PROVE Owned(i)'
  <2> DEFINE item == equipped[s]
  <2>1. item \in Items /\ ground' = ground
    BY <1>1, <1>5 DEF Unequip
  <2>2. PICK r \in AddItem(inv, item, Capacity) :
          /\ inv' = r.items
          /\ equipped' = IF r.remainder = 0 THEN [equipped EXCEPT ![s] = NoItem] ELSE equipped
    BY <1>5 DEF Unequip
  <2>3. \A t \in Slots \ {s} : equipped'[t] = equipped[t]
    BY <1>1, <2>2
  <2>4. ASSUME NEW n \in 1..Len(inv), inv[n] = i PROVE Owned(i)'
    <3> HIDE DEF item
    <3>1. n \in 1..Len(inv') /\ inv'[n] = i
      BY <1>1, <2>1, <2>2, <2>4, AddKeepsUnstackables
    <3>2. QED
      BY <3>1 DEF Owned
  <2>5. ASSUME item = i PROVE Owned(i)'
    <3>1. \/ r.remainder = 0 /\ Len(inv') = Len(inv) + 1 /\ inv'[Len(inv) + 1] = item
          \/ r.remainder = item.qty
      <4> HIDE DEF item
      <4> QED BY <1>1, <2>1, <2>2, <2>5, AddUnstackable
    <3>2. CASE r.remainder = item.qty
      <4>1. equipped' = equipped
        BY <1>1, <2>2, <2>5, <3>2
      <4>2. QED
        BY <2>5, <4>1 DEF Owned
    <3>3. CASE Len(inv') = Len(inv) + 1 /\ inv'[Len(inv) + 1] = item
      <4>1. Len(inv) + 1 \in 1..Len(inv')
        BY <1>1, <3>3
      <4>2. QED
        BY <2>5, <3>3, <4>1 DEF Owned
    <3>4. QED
      BY <3>1, <3>2, <3>3
  <2>6. QED
    BY <2>1, <2>3, <2>4, <2>5 DEF Owned
<1>6. CASE UNCHANGED vars
  BY <1>6 DEF vars, Owned
<1>7. QED
  BY <1>2, <1>3, <1>4, <1>5, <1>6 DEF Next

\* A key, a sword or an armor is never lost: whatever the capacity and the
\* order of transfers, it always lies somewhere, unchanged, under its id.
THEOREM NoUniqueItemLost == Spec => []UnstackablesSurvive
<1>1. Init => UnstackablesSurvive
  BY DEF Init, UnstackablesSurvive, AuthoredItems, Owned
<1>2. IInv /\ UnstackablesSurvive /\ [Next]_vars => UnstackablesSurvive'
  <2>1. SUFFICES ASSUME IInv, UnstackablesSurvive, [Next]_vars,
                        NEW i \in AuthoredItems, ~Stackable(i.kind)
                 PROVE  Owned(i)'
    BY DEF UnstackablesSurvive
  <2>2. Owned(i) /\ i \in Items
    BY <2>1, AuthoredAreItems DEF UnstackablesSurvive
  <2>3. QED
    BY <2>1, <2>2, UnstackableKept
<1>3. QED
  BY <1>1, <1>2, InvariantHolds, PTL DEF Spec

-----------------------------------------------------------------------------
\* Save, load, reset and restart. What a session owns, as a predicate of inventory i, equipment e and world
\* items g, so that it can be said of a saved session as well: the invariants
\* of play, and that what is worn fits, that the world is finite and that no
\* unstackable item is missing.
Stowed(i) == i \in Seq(Items) /\ Len(i) <= Capacity /\ DistinctIds(i) /\ Canonical(i)

Worn(e) ==
    /\ e \in [Slots -> Items \cup {NoItem}]
    /\ \A s \in Slots : e[s] # NoItem => s \in SlotsOf[e[s].kind]
    /\ \A s, t \in Slots : e[s] # NoItem /\ e[t] # NoItem /\ e[s].id = e[t].id => s = t

Lying(g) ==
    /\ DOMAIN g \subseteq WorldIds
    /\ g \in [DOMAIN g -> WorldItems]
    /\ IsFiniteSet(DOMAIN g)
    /\ \A v, w \in DOMAIN g : g[v].item.id = g[w].item.id => v = w
    /\ \A w \in DOMAIN g :
         \/ w = DefaultId[g[w].item.id]
         \/ w \in DOMAIN Placements /\ g[w].item.id = Placements[w].item.id

Separate(i, e, g) ==
    /\ \A s \in Slots : e[s] # NoItem => ~HoldsId(i, e[s].id)
    /\ \A w \in DOMAIN g : ~HoldsId(i, g[w].item.id)
    /\ \A s \in Slots, w \in DOMAIN g : e[s] # NoItem => e[s].id # g[w].item.id

Somewhere(i, e, g, x) ==
    \/ \E n \in 1..Len(i) : i[n] = x
    \/ \E s \in Slots : e[s] = x
    \/ \E w \in DOMAIN g : g[w].item = x

Whole(i, e, g) == \A x \in AuthoredItems : ~Stackable(x.kind) => Somewhere(i, e, g, x)

Sound(i, e, g) == Stowed(i) /\ Worn(e) /\ Lying(g) /\ Separate(i, e, g) /\ Whole(i, e, g)

Fits == \A s \in InUse : s \in SlotsOf[equipped[s].kind]

PlayInv == IInv /\ Fits /\ IsFiniteSet(DOMAIN ground) /\ UnstackablesSurvive

LEMMA SoundIsInvariant == Sound(inv, equipped, ground) <=> PlayInv
BY DEF Sound, Stowed, Worn, Lying, Separate, Whole, Somewhere, PlayInv, IInv, TypeOK,
       UniqueOwnership, OnceInInventory, OnceInEquipment, OnceInWorld, OwnersDisjoint, InUse,
       CanonicalStacks, PlacementsNamed, Fits, UnstackablesSurvive, Owned

LEMMA SoundIsInvariantThen == (Sound(inv, equipped, ground) <=> PlayInv)'
<1>1. Sound(inv, equipped, ground) <=> PlayInv
  BY SoundIsInvariant
<1>2. QED
  BY <1>1, PTL

\* Play keeps a session sound.
LEMMA InitIsSound == Init => PlayInv
<1> SUFFICES ASSUME Init PROVE PlayInv
  OBVIOUS
<1>1. Fits /\ IsFiniteSet(DOMAIN ground)
  BY ContentAssumption DEF Init, Fits, InUse
<1>2. UnstackablesSurvive
  BY DEF Init, UnstackablesSurvive, AuthoredItems, Owned
<1>3. QED
  BY <1>1, <1>2, InitEstablishes DEF PlayInv

LEMMA InitIsSoundThen == (Init => PlayInv)'
<1>1. Init => PlayInv
  BY InitIsSound
<1>2. QED
  BY <1>1, PTL

LEMMA PlayKeeps == PlayInv /\ [Next]_vars => PlayInv'
<1> SUFFICES ASSUME PlayInv, [Next]_vars PROVE PlayInv'
  OBVIOUS
<1>1. IInv /\ IInv'
  BY NextPreserves DEF PlayInv
<1>2. UnstackablesSurvive'
  <2> SUFFICES ASSUME NEW i \in AuthoredItems, ~Stackable(i.kind) PROVE Owned(i)'
    BY DEF UnstackablesSurvive
  <2>1. Owned(i) /\ i \in Items
    BY AuthoredAreItems DEF PlayInv, UnstackablesSurvive
  <2>2. QED
    BY <1>1, <2>1, UnstackableKept
<1>3. /\ equipped \in [Slots -> Items \cup {NoItem}] /\ inv \in Seq(Items)
      /\ ground \in [DOMAIN ground -> WorldItems]
  BY <1>1 DEF IInv, TypeOK
<1>4. Fits'
  <2>1. ASSUME NEW w \in WorldIds, Pickup(w) PROVE Fits'
    BY <2>1 DEF Pickup, PlayInv, Fits, InUse
  <2>2. ASSUME NEW n \in 1..Capacity, NEW pos \in Positions, Drop(n, pos) PROVE Fits'
    BY <2>2 DEF Drop, PlayInv, Fits, InUse
  <2>3. ASSUME NEW n \in 1..Capacity, NEW s \in Slots, Equip(n, s) PROVE Fits'
    BY <1>3, <2>3 DEF Equip, CanEquip, PlayInv, Fits, InUse
  <2>4. ASSUME NEW s \in Slots, Unequip(s) PROVE Fits'
    <3>1. equipped' = [equipped EXCEPT ![s] = NoItem] \/ equipped' = equipped
      BY <2>4 DEF Unequip
    <3>2. QED
      BY <1>3, <3>1 DEF PlayInv, Fits, InUse
  <2>5. CASE UNCHANGED vars
    BY <2>5 DEF vars, PlayInv, Fits, InUse
  <2>6. QED
    BY <2>1, <2>2, <2>3, <2>4, <2>5 DEF Next
<1>5. IsFiniteSet(DOMAIN ground)'
  <2>1. DOMAIN ground' \subseteq DOMAIN ground \/ \E w : DOMAIN ground' = DOMAIN ground \cup {w}
    <3>1. ASSUME NEW w \in WorldIds, Pickup(w)
          PROVE  DOMAIN ground' \subseteq DOMAIN ground \/ \E v : DOMAIN ground' = DOMAIN ground \cup {v}
      BY <3>1 DEF Pickup, Requantified, Placed, Taken
    <3>2. ASSUME NEW n \in 1..Capacity, NEW pos \in Positions, Drop(n, pos)
          PROVE  DOMAIN ground' = DOMAIN ground \cup {DefaultId[inv[n].id]}
      BY <3>2 DEF Drop, Placed
    <3>3. (\E n \in 1..Capacity, s \in Slots : Equip(n, s)) \/ (\E s \in Slots : Unequip(s)) \/ UNCHANGED vars
            => ground' = ground
      BY DEF Equip, Unequip, vars
    <3>4. QED
      BY <3>1, <3>2, <3>3 DEF Next
  <2>2. IsFiniteSet(DOMAIN ground)
    BY DEF PlayInv
  <2>3. QED
    BY <2>1, <2>2, FS_Subset, FS_AddElement
<1>6. QED
  BY <1>1, <1>2, <1>4, <1>5 DEF PlayInv

-----------------------------------------------------------------------------
\* inventory.restore. An item whose kind has no partial stack in front of it
\* is given a slot of its own and stays as it is.
LEMMA AddedBehind ==
  ASSUME NEW items \in Seq(Items), NEW incoming \in Items, Len(items) < Capacity,
         \A n \in 1..Len(items) : items[n].kind = incoming.kind => items[n].qty = MaxStack[items[n].kind]
  PROVE  AddItem(items, incoming, Capacity)
           = {[items |-> Append(items, incoming), remainder |-> 0]}
<1>1. Len(items) \in Nat /\ Capacity \in Nat
  BY StarterAssumption
<1>2. /\ incoming.qty \in Nat /\ incoming.qty > 0
      /\ incoming \in [id : ItemIds, kind : Kinds, qty : Nat \ {0}]
  BY DEF Items
<1>3. ASSUME NEW n \in 1..Len(items), NEW remaining \in Nat
      PROVE  Moved(items[n], incoming, remaining) = 0
  <2>1. items[n] \in Items /\ MaxStack[items[n].kind] \in Nat
    BY ItemFields
  <2>2. QED
    BY <2>1 DEF Moved, Lesser
<1>4. ASSUME NEW left \in MergeTraces(items, incoming)
      PROVE  \A n \in 0..Len(items) : left[n] = incoming.qty
  <2> DEFINE T == {n \in 0..Len(items) : left[n] = incoming.qty}
  <2>1. /\ left \in [0..Len(items) -> 0..incoming.qty] /\ left[0] = incoming.qty
        /\ \A n \in 1..Len(items) : left[n] = left[n - 1] - Moved(items[n], incoming, left[n - 1])
    BY DEF MergeTraces
  <2>2. 0 \in T
    BY <1>1, <2>1
  <2>3. ASSUME NEW n \in 1..Len(items), n - 1 \in T PROVE n \in T
    <3>1. n - 1 \in 0..Len(items) /\ left[n - 1] = incoming.qty
      BY <2>3
    <3>2. left[n] = incoming.qty - 0
      BY <1>2, <1>3, <2>1, <3>1
    <3>3. QED
      BY <1>1, <1>2, <3>2
  <2> HIDE DEF T
  <2>4. \A n \in 0..Len(items) : n \in T
    BY <1>1, <2>2, <2>3, IntervalInduction
  <2>5. QED
    BY <2>4 DEF T
<1>5. \E left : left \in MergeTraces(items, incoming)
  <2> DEFINE left == [n \in 0..Len(items) |-> incoming.qty]
  <2>1. left \in [0..Len(items) -> 0..incoming.qty]
    BY <1>2
  <2>2. \A n \in 1..Len(items) : n - 1 \in 0..Len(items) /\ left[n] = incoming.qty /\ left[n - 1] = incoming.qty
    BY <1>1
  <2>3. left[0] = incoming.qty
    BY <1>1
  <2> HIDE DEF left
  <2>4. \A n \in 1..Len(items) : left[n] = left[n - 1] - Moved(items[n], incoming, left[n - 1])
    BY <1>2, <1>3, <2>2
  <2>5. QED
    BY <2>1, <2>3, <2>4 DEF MergeTraces
<1>6. ASSUME NEW left \in MergeTraces(items, incoming)
      PROVE  AddResult(items, incoming, Capacity, left)
               = [items |-> Append(items, incoming), remainder |-> 0]
  <2>1. \A n \in 0..Len(items) : left[n] = incoming.qty
    BY <1>4
  <2>2. left[Len(items)] = incoming.qty
    BY <1>1, <2>1
  <2>3. \A n \in 1..Len(items) :
          [items[n] EXCEPT !.qty = @ + Moved(items[n], incoming, left[n - 1])] = items[n]
    <3> SUFFICES ASSUME NEW n \in 1..Len(items)
                 PROVE  [items[n] EXCEPT !.qty = @ + Moved(items[n], incoming, left[n - 1])] = items[n]
      OBVIOUS
    <3>1. items[n] \in Items /\ n - 1 \in 0..Len(items)
      BY <1>1
    <3>2. Moved(items[n], incoming, left[n - 1]) = 0
      BY <1>2, <1>3, <2>1, <3>1
    <3>3. items[n] \in [id : ItemIds, kind : Kinds, qty : Nat \ {0}]
      BY <3>1 DEF Items
    <3>4. QED
      BY <3>2, <3>3
  <2>4. Merged(items, incoming, left) = items
    <3>1. Merged(items, incoming, left) = [n \in 1..Len(items) |-> items[n]]
      BY <2>3 DEF Merged
    <3>2. QED
      BY <3>1
  <2>5. [incoming EXCEPT !.qty = incoming.qty] = incoming
    BY <1>2
  <2>6. QED
    BY <1>1, <1>2, <2>2, <2>4, <2>5 DEF AddResult
<1>7. QED
  BY <1>5, <1>6 DEF AddItem

\* One turn of the loop of inventory.restore.
ReAddStep(items, restored, n) ==
    IF n = 0 THEN [items |-> <<>>, ok |-> TRUE] ELSE ReAdd(restored[n - 1], items[n])

LEMMA ReAddOnly ==
  ASSUME NEW restored, NEW item, NEW r, AddItem(restored.items, item, Capacity) = {r}
  PROVE  ReAdd(restored, item)
           = [items |-> r.items,
              ok    |-> restored.ok /\ ~HoldsId(restored.items, item.id)
                          /\ r.remainder = 0 /\ HoldsId(r.items, item.id)]
<1>1. (CHOOSE x \in AddItem(restored.items, item, Capacity) : TRUE) = r
  OBVIOUS
<1>2. QED
  BY <1>1 DEF ReAdd

LEMMA ReAddExists ==
  ASSUME NEW T, NEW items \in Seq(T)
  PROVE  \E f : f = [n \in 0..Len(items) |-> ReAddStep(items, f, n)]
<1> DEFINE G == {n \in Nat : \E f : f = [k \in 0..n |-> ReAddStep(items, f, k)]}
<1>1. 0 \in G
  <2> DEFINE f == [k \in 0..0 |-> [items |-> <<>>, ok |-> TRUE]]
  <2>1. f = [k \in 0..0 |-> ReAddStep(items, f, k)]
    BY DEF ReAddStep
  <2> HIDE DEF f
  <2>2. QED
    BY <2>1
<1>2. ASSUME NEW n \in 1..Len(items), n - 1 \in G PROVE n \in G
  <2>1. n \in Nat /\ n - 1 \in Nat
    BY <1>2
  <2>2. PICK f : f = [k \in 0..(n - 1) |-> ReAddStep(items, f, k)]
    BY <1>2
  <2> DEFINE g == [k \in 0..n |-> ReAddStep(items, f, k)]
  <2>3. \A k \in 0..(n - 1) : g[k] = f[k]
    BY <2>1, <2>2
  <2>4. \A k \in 0..n : k = 0 \/ k - 1 \in 0..(n - 1)
    BY <2>1
  <2>5. \A k \in 0..n : ReAddStep(items, f, k) = ReAddStep(items, g, k)
    <3> HIDE DEF g
    <3> QED BY <2>3, <2>4 DEF ReAddStep
  <2>6. g = [k \in 0..n |-> ReAddStep(items, g, k)]
    BY <2>5
  <2> HIDE DEF g
  <2>7. QED
    BY <2>1, <2>6
<1>3. Len(items) \in Nat
  OBVIOUS
<1>4. Len(items) \in G
  <2> HIDE DEF G
  <2>1. \A n \in 0..Len(items) : n \in G
    BY <1>1, <1>2, <1>3, IntervalInduction
  <2>2. QED
    BY <1>3, <2>1
<1>5. QED
  BY <1>4

\* A canonical inventory is restored as it was: each item is inserted whole,
\* under its id, in the slot it had.
LEMMA StowedComesBack ==
  ASSUME NEW data, Stowed(data.inventory)
  PROVE  RestoredInventory(data) = [items |-> data.inventory, ok |-> TRUE]
<1> DEFINE items == data.inventory
           restored == CHOOSE f : f = [n \in 0..Len(items) |-> ReAddStep(items, f, n)]
           front(n) == [m \in 1..n |-> items[m]]
           G == {n \in 0..Len(items) : restored[n] = [items |-> front(n), ok |-> TRUE]}
<1>1. /\ items \in Seq(Items) /\ Len(items) \in Nat /\ Len(items) <= Capacity /\ Capacity \in Nat
      /\ DistinctIds(items) /\ Canonical(items)
      /\ \A n \in 1..Len(items) : items[n] \in Items
  BY StarterAssumption DEF Stowed
<1>2. RestoredInventory(data) = restored[Len(items)]
  BY DEF RestoredInventory, ReAddStep
<1>3. restored = [n \in 0..Len(items) |-> ReAddStep(items, restored, n)]
  BY <1>1, ReAddExists
<1> HIDE DEF items, restored
<1>4. 0 \in G
  <2>1. restored[0] = [items |-> <<>>, ok |-> TRUE]
    BY <1>1, <1>3 DEF ReAddStep
  <2>2. front(0) = <<>>
    OBVIOUS
  <2>3. QED
    BY <1>1, <2>1, <2>2
<1>5. ASSUME NEW n \in 1..Len(items), n - 1 \in G PROVE n \in G
  <2> DEFINE before == front(n - 1)
  <2>1. n \in Nat /\ n - 1 \in Nat /\ n \in 0..Len(items) /\ n <= Capacity
    BY <1>1
  <2>2. /\ before \in Seq(Items) /\ Len(before) = n - 1
        /\ \A m \in 1..(n - 1) : before[m] = items[m]
    <3>1. before \in [1..(n - 1) -> Items]
      BY <1>1, <2>1
    <3>2. QED
      BY <2>1, <3>1
  <2>3. restored[n - 1] = [items |-> before, ok |-> TRUE]
    BY <1>5
  <2>4. restored[n] = ReAdd([items |-> before, ok |-> TRUE], items[n])
    <3> HIDE DEF G, before, front
    <3>1. n # 0 /\ restored[n] = ReAddStep(items, restored, n)
      BY <1>3, <2>1
    <3>2. QED
      BY <2>3, <3>1 DEF ReAddStep
  <2>5. Append(before, items[n]) = front(n)
    <3>1. front(n) \in [1..n -> Items]
      BY <1>1, <2>1
    <3>2. front(n) \in Seq(Items) /\ Len(front(n)) = n
      BY <2>1, <3>1
    <3>3. \A m \in 1..n : m = n \/ m \in 1..(n - 1)
      BY <2>1
    <3>4. Append(before, items[n]) \in Seq(Items) /\ Len(Append(before, items[n])) = n
      BY <1>1, <2>1, <2>2
    <3>5. \A m \in 1..n : Append(before, items[n])[m] = front(n)[m]
      BY <2>1, <2>2, <3>3
    <3> HIDE DEF front
    <3>6. QED
      BY <3>2, <3>4, <3>5, SeqEqual
  <2> HIDE DEF before, front
  <2>6. AddItem(before, items[n], Capacity)
          = {[items |-> Append(before, items[n]), remainder |-> 0]}
    <3>1. ASSUME NEW m \in 1..Len(before), before[m].kind = items[n].kind
          PROVE  before[m].qty = MaxStack[before[m].kind]
      <4>1. m \in 1..Len(items) /\ n \in 1..Len(items) /\ m < n /\ before[m] = items[m]
        BY <1>1, <2>1, <2>2
      <4>2. QED
        BY <1>1, <3>1, <4>1 DEF Canonical
    <3>2. items[n] \in Items /\ Len(before) < Capacity
      BY <1>1, <2>1, <2>2
    <3>3. \A m \in 1..Len(before) :
            before[m].kind = items[n].kind => before[m].qty = MaxStack[items[n].kind]
      BY <3>1
    <3> HIDE DEF G
    <3>4. QED
      BY <2>2, <3>2, <3>3, AddedBehind
  <2>7. ~HoldsId(before, items[n].id)
    BY <1>1, <2>1, <2>2 DEF HoldsId, DistinctIds
  <2>8. HoldsId(Append(before, items[n]), items[n].id)
    <3>1. Append(before, items[n])[n] = items[n] /\ Len(Append(before, items[n])) = n
      BY <1>1, <2>1, <2>2
    <3>2. QED
      BY <2>1, <3>1 DEF HoldsId
  <2>9. ReAdd([items |-> before, ok |-> TRUE], items[n])
          = [items |-> Append(before, items[n]), ok |-> TRUE]
    <3> DEFINE r == [items |-> Append(before, items[n]), remainder |-> 0]
               old == [items |-> before, ok |-> TRUE]
    <3>1. old.items = before /\ old.ok = TRUE
      OBVIOUS
    <3>2. r.items = Append(before, items[n]) /\ r.remainder = 0
      OBVIOUS
    <3> HIDE DEF r, old
    <3>3. ReAdd(old, items[n]) = [items |-> r.items,
                                  ok |-> old.ok /\ ~HoldsId(old.items, items[n].id)
                                           /\ r.remainder = 0 /\ HoldsId(r.items, items[n].id)]
      BY <2>6, <3>1, ReAddOnly DEF r
    <3>4. QED
      BY <2>7, <2>8, <3>1, <3>2, <3>3 DEF old
  <2>10. QED
    BY <2>1, <2>4, <2>5, <2>9
<1>6. Len(items) \in G
  <2> HIDE DEF G
  <2>1. \A n \in 0..Len(items) : n \in G
    BY <1>1, <1>4, <1>5, IntervalInduction
  <2>2. QED
    BY <1>1, <2>1
<1>7. front(Len(items)) = items
  BY <1>1
<1>8. QED
  BY <1>2, <1>6, <1>7 DEF items

-----------------------------------------------------------------------------
\* save_data.capture. What lies under an authored placement id is that
\* placement's item, so the item read back under the override is the same.
LEMMA SameItem ==
  ASSUME NEW i \in Items, NEW j \in Items, i.id = j.id, i.kind = j.kind, i.qty = j.qty
  PROVE  i = j
BY DEF Items

LEMMA PlacementKeepsId ==
  ASSUME PlayInv, NEW p \in DOMAIN ground, p \in DOMAIN Placements
  PROVE  /\ ground[p] \in WorldItems /\ ground[p].item \in Items
         /\ ground[p].item.id = Placements[p].item.id
<1>1. ground[p] \in WorldItems
  BY DEF PlayInv, IInv, TypeOK
<1>2. ground[p].item \in Items /\ ground[p].item.id \in ItemIds
  BY <1>1, ItemFields DEF WorldItems
<1>3. p = DefaultId[ground[p].item.id] => ground[p].item.id = Placements[p].item.id
  BY <1>2, PlacementAssumption
<1>4. QED
  BY <1>1, <1>2, <1>3 DEF PlayInv, IInv, PlacementsNamed

LEMMA CaptureFields ==
  /\ Capture.inventory = inv
  /\ Capture.equipment = [s \in InUse |-> equipped[s]]
  /\ Capture.overrides = [p \in { q \in DOMAIN Placements : ~Unchanged(q) } |->
                            IF p \in DOMAIN ground THEN Override(ground[p].item) ELSE Removed]
  /\ Capture.dynamic = [w \in DOMAIN ground \ DOMAIN Placements |-> ground[w]]
BY DEF Capture

LEMMA CaptureRetains == Retained(Capture) = DOMAIN Placements \cap DOMAIN ground
<1> DEFINE changed == { q \in DOMAIN Placements : ~Unchanged(q) }
           over == [p \in changed |-> IF p \in DOMAIN ground THEN Override(ground[p].item) ELSE Removed]
<1>1. Capture.overrides = over /\ DOMAIN over = changed
  BY CaptureFields
<1>2. \A p \in changed : over[p].removed <=> p \notin DOMAIN ground
  <2>1. \A i : ~Override(i).removed
    BY DEF Override
  <2>2. Removed.removed
    BY DEF Removed
  <2> HIDE DEF changed
  <2>3. QED
    BY <2>1, <2>2
<1> HIDE DEF over
<1>3. \A p \in DOMAIN Placements : p \notin DOMAIN ground => p \in changed
  BY DEF Unchanged
<1>4. QED
  BY <1>1, <1>2, <1>3 DEF Retained

\* An override puts its quantity and its kind into the authored item.
LEMMA Overridden ==
  ASSUME NEW P, NEW Q, NEW R, NEW S, NEW a \in [item : [id : P, kind : Q, qty : R], pos : S], NEW q, NEW k
  PROVE  [a EXCEPT !.item.qty = q, !.item.kind = k]
           = [item |-> [id |-> a.item.id, kind |-> k, qty |-> q], pos |-> a.pos]
<1> DEFINE i == a.item
           new == [id |-> i.id, kind |-> k, qty |-> q]
<1>1. [a EXCEPT !.item.qty = q, !.item.kind = k] = [a EXCEPT !.item = [i EXCEPT !.qty = q, !.kind = k]]
  OBVIOUS
<1>2. [i EXCEPT !.qty = q, !.kind = k] = [[i EXCEPT !.qty = q] EXCEPT !.kind = k]
  OBVIOUS
<1>3. [i EXCEPT !.qty = q] = [id |-> i.id, kind |-> i.kind, qty |-> q]
  OBVIOUS
<1>4. [[id |-> i.id, kind |-> i.kind, qty |-> q] EXCEPT !.kind = k] = new
  OBVIOUS
<1> HIDE DEF i, new
<1>5. [a EXCEPT !.item = new] = [item |-> new, pos |-> a.pos]
  OBVIOUS
<1>6. QED
  BY <1>1, <1>2, <1>3, <1>4, <1>5 DEF i, new

LEMMA PlacementComesBack ==
  ASSUME PlayInv, NEW p \in DOMAIN ground, p \in DOMAIN Placements
  PROVE  RestoredPlacement(Capture, p) = [item |-> ground[p].item, pos |-> Placements[p].pos]
<1> DEFINE changed == { q \in DOMAIN Placements : ~Unchanged(q) }
           over == [q \in changed |-> IF q \in DOMAIN ground THEN Override(ground[q].item) ELSE Removed]
           item == ground[p].item
           authored == Placements[p]
<1>1. Capture.overrides = over /\ DOMAIN over = changed
  BY CaptureFields
<1>2. /\ item \in Items /\ item.id = authored.item.id
      /\ authored \in [item : Items, pos : Positions]
  BY PlacementKeepsId, PlacementAssumption
<1>3. CASE Unchanged(p)
  <2>1. item.qty = authored.item.qty /\ item.kind = authored.item.kind /\ p \notin changed
    BY <1>3 DEF Unchanged
  <2>2. RestoredPlacement(Capture, p) = authored
    BY <1>1, <2>1 DEF RestoredPlacement
  <2> HIDE DEF item, authored
  <2>3. item = authored.item
    BY <1>2, <2>1, SameItem
  <2>4. authored = [item |-> item, pos |-> authored.pos]
    BY <1>2, <2>3
  <2>5. QED
    BY <2>2, <2>4 DEF item, authored
<1>4. CASE ~Unchanged(p)
  <2>1. p \in changed /\ over[p] = Override(item)
    BY <1>4
  <2>2. over[p].qty = item.qty /\ over[p].kind = item.kind
    BY <2>1 DEF Override
  <2>3. RestoredPlacement(Capture, p) = [authored EXCEPT !.item.qty = over[p].qty,
                                                         !.item.kind = over[p].kind]
    BY <1>1, <2>1 DEF RestoredPlacement
  <2> HIDE DEF over, item, authored, changed
  <2>4. RestoredPlacement(Capture, p) = [item |-> [id |-> authored.item.id, kind |-> item.kind, qty |-> item.qty],
                                         pos |-> authored.pos]
    <3>1. authored \in [item : [id : ItemIds, kind : Kinds, qty : Nat \ {0}], pos : Positions]
      BY <1>2 DEF Items
    <3>2. [authored EXCEPT !.item.qty = item.qty, !.item.kind = item.kind]
            = [item |-> [id |-> authored.item.id, kind |-> item.kind, qty |-> item.qty], pos |-> authored.pos]
      BY <3>1, Overridden
    <3>3. QED
      BY <2>2, <2>3, <3>2
  <2>5. item = [id |-> authored.item.id, kind |-> item.kind, qty |-> item.qty]
    BY <1>2 DEF Items
  <2>6. QED
    BY <2>4, <2>5 DEF item, authored
<1>5. QED
  BY <1>3, <1>4

LEMMA GroundComesBack ==
  ASSUME PlayInv
  PROVE  /\ DOMAIN RestoredGround(Capture) = DOMAIN ground
         /\ \A w \in DOMAIN ground :
              RestoredGround(Capture)[w] = IF w \in DOMAIN Placements
                                           THEN [item |-> ground[w].item, pos |-> Placements[w].pos]
                                           ELSE ground[w]
<1> DEFINE dynamic == [w \in DOMAIN ground \ DOMAIN Placements |-> ground[w]]
<1>1. Capture.dynamic = dynamic /\ DOMAIN dynamic = DOMAIN ground \ DOMAIN Placements
  BY CaptureFields
<1>2. Retained(Capture) = DOMAIN Placements \cap DOMAIN ground
  BY CaptureRetains
<1>3. \A w \in DOMAIN dynamic : dynamic[w] = ground[w]
  OBVIOUS
<1> HIDE DEF dynamic
<1>4. RestoredGround(Capture)
        = [w \in DOMAIN ground |-> IF w \in DOMAIN dynamic THEN dynamic[w]
                                   ELSE RestoredPlacement(Capture, w)]
  <2>1. Retained(Capture) \cup DOMAIN dynamic = DOMAIN ground
    BY <1>1, <1>2
  <2>2. QED
    BY <1>1, <2>1 DEF RestoredGround
<1>5. QED
  BY <1>1, <1>3, <1>4, PlacementComesBack

LEMMA EquipmentComesBack ==
  ASSUME PlayInv
  PROVE  RestoredEquipment(Capture) = equipped
<1> DEFINE saved == [s \in InUse |-> equipped[s]]
<1>1. Capture.equipment = saved /\ DOMAIN saved = InUse
  BY CaptureFields
<1>2. equipped \in [Slots -> Items \cup {NoItem}]
  BY DEF PlayInv, IInv, TypeOK
<1>3. \A s \in Slots : s \notin InUse => equipped[s] = NoItem
  BY DEF InUse
<1>4. \A s \in InUse : saved[s] = equipped[s]
  OBVIOUS
<1> HIDE DEF saved
<1>5. RestoredEquipment(Capture) = [s \in Slots |-> equipped[s]]
  BY <1>1, <1>3, <1>4 DEF RestoredEquipment
<1>6. QED
  BY <1>2, <1>5

LEMMA InventoryComesBack ==
  ASSUME PlayInv
  PROVE  RestoredInventory(Capture) = [items |-> inv, ok |-> TRUE]
<1>1. Stowed(inv)
  BY SoundIsInvariant DEF Sound
<1>2. QED
  BY <1>1, CaptureFields, StowedComesBack

\* The session read back is as sound as the one that was saved.
LEMMA CaptureIsSound ==
  ASSUME PlayInv
  PROVE  Sound(inv, equipped, RestoredGround(Capture))
<1> DEFINE g == RestoredGround(Capture)
<1>1. Sound(inv, equipped, ground)
  BY SoundIsInvariant
<1>2. DOMAIN g = DOMAIN ground
  BY GroundComesBack
<1>3. g = [w \in DOMAIN g |-> g[w]]
  BY DEF RestoredGround
<1>4. ASSUME NEW w \in DOMAIN ground
      PROVE  g[w].item = ground[w].item /\ g[w] \in WorldItems
  <2>1. ground[w] \in WorldItems
    BY <1>1 DEF Sound, Lying
  <2>2. CASE w \in DOMAIN Placements
    <3>1. g[w] = [item |-> ground[w].item, pos |-> Placements[w].pos]
      BY <2>2, GroundComesBack
    <3>2. Placements[w].pos \in Positions
      BY <2>2, PlacementFacts
    <3> HIDE DEF g
    <3>3. QED
      BY <2>1, <3>1, <3>2 DEF WorldItems
  <2>3. CASE w \notin DOMAIN Placements
    BY <2>1, <2>3, GroundComesBack
  <2>4. QED
    BY <2>2, <2>3
<1> HIDE DEF g
<1>5. Lying(g)
  <2>1. g \in [DOMAIN g -> WorldItems]
    BY <1>2, <1>3, <1>4
  <2>2. QED
    BY <1>1, <1>2, <1>4, <2>1 DEF Sound, Lying
<1>6. Separate(inv, equipped, g)
  BY <1>1, <1>2, <1>4 DEF Sound, Separate
<1>7. Whole(inv, equipped, g)
  BY <1>1, <1>2, <1>4 DEF Sound, Whole, Somewhere
<1>8. QED
  BY <1>1, <1>5, <1>6, <1>7 DEF Sound, g

-----------------------------------------------------------------------------
\* save_data.validate counts ids.
LEMMA ImageCardinality ==
  ASSUME NEW S, IsFiniteSet(S), NEW f, \A x, y \in S : f[x] = f[y] => x = y
  PROVE  /\ IsFiniteSet({ f[x] : x \in S })
         /\ Cardinality({ f[x] : x \in S }) = Cardinality(S)
<1> DEFINE T == { f[x] : x \in S }
           h == [x \in S |-> f[x]]
<1>1. h \in Surjection(S, T) /\ h \in Injection(S, T)
  BY DEF Surjection, Injection, IsInjective
<1> HIDE DEF h, T
<1>2. IsFiniteSet(T) /\ Cardinality(T) = Cardinality(S)
  BY <1>1, FS_Surjection
<1>3. QED
  BY <1>2 DEF T

LEMMA DisjointUnion ==
  ASSUME NEW S, IsFiniteSet(S), NEW T, IsFiniteSet(T), \A x \in S : x \notin T
  PROVE  /\ IsFiniteSet(S \cup T)
         /\ Cardinality(S \cup T) = Cardinality(S) + Cardinality(T)
<1>1. S \cap T = {}
  OBVIOUS
<1>2. QED
  BY <1>1, FS_Union, FS_EmptySet, FS_CardinalityType

\* F5 never answers "Save failed": every id the snapshot reserves, it
\* reserves once.
LEMMA CaptureIsValid ==
  ASSUME PlayInv
  PROVE  Valid(Capture)
<1> DEFINE placed == DOMAIN Placements \cap DOMAIN ground
           dropped == DOMAIN ground \ DOMAIN Placements
           carriedIds == [n \in 1..Len(inv) |-> inv[n].id]
           wornIds == [s \in InUse |-> equipped[s].id]
           groundIds == [w \in DOMAIN ground |-> ground[w].item.id]
           A == { carriedIds[n] : n \in 1..Len(inv) }
           B == { wornIds[s] : s \in InUse }
           C == { groundIds[w] : w \in dropped }
           D == { groundIds[w] : w \in placed }
<1>1. /\ inv \in Seq(Items) /\ Len(inv) \in Nat /\ Len(inv) <= Capacity
      /\ IsFiniteSet(DOMAIN ground) /\ InUse \subseteq Slots /\ IsFiniteSet(Slots)
      /\ UniqueOwnership
  BY ContentAssumption DEF PlayInv, IInv, TypeOK, InUse
<1>2. IsFiniteSet(1..Len(inv)) /\ Cardinality(1..Len(inv)) = Len(inv)
  <2>1. 1 \in Int /\ Len(inv) \in Int /\ (1 > Len(inv) => Len(inv) = 0)
    BY <1>1
  <2>2. QED
    BY <2>1, FS_Interval
<1>3. IsFiniteSet(InUse) /\ IsFiniteSet(placed) /\ IsFiniteSet(dropped)
  BY <1>1, FS_Subset
<1>4. IsFiniteSet(A) /\ Cardinality(A) = Len(inv)
  <2>1. \A m, n \in 1..Len(inv) : carriedIds[m] = carriedIds[n] => m = n
    BY <1>1 DEF UniqueOwnership, OnceInInventory, DistinctIds
  <2> HIDE DEF carriedIds
  <2>2. QED
    BY <1>2, <2>1, ImageCardinality
<1>5. IsFiniteSet(B) /\ Cardinality(B) = Cardinality(InUse)
  <2>1. \A s, t \in InUse : wornIds[s] = wornIds[t] => s = t
    BY <1>1 DEF UniqueOwnership, OnceInEquipment
  <2> HIDE DEF wornIds
  <2>2. QED
    BY <1>3, <2>1, ImageCardinality
<1>6. \A v, w \in DOMAIN ground : groundIds[v] = groundIds[w] => v = w
  BY <1>1 DEF UniqueOwnership, OnceInWorld
<1>7. /\ IsFiniteSet(C) /\ Cardinality(C) = Cardinality(dropped)
      /\ IsFiniteSet(D) /\ Cardinality(D) = Cardinality(placed)
  <2>1. \A v, w \in dropped : groundIds[v] = groundIds[w] => v = w
    BY <1>6
  <2>2. \A v, w \in placed : groundIds[v] = groundIds[w] => v = w
    BY <1>6
  <2> HIDE DEF groundIds, placed, dropped
  <2>3. QED
    BY <1>3, <2>1, <2>2, ImageCardinality
<1>8. /\ \A x \in A : x \notin B /\ x \notin C /\ x \notin D
      /\ \A x \in B : x \notin C /\ x \notin D
      /\ \A x \in C : x \notin D
  <2>1. \A x \in A : x \notin B /\ x \notin C /\ x \notin D
    BY <1>1 DEF UniqueOwnership, OwnersDisjoint, HoldsId
  <2>2. \A x \in B : x \notin C /\ x \notin D
    BY <1>1 DEF UniqueOwnership, OwnersDisjoint
  <2>3. \A x \in C : x \notin D
    BY <1>6
  <2>4. QED
    BY <2>1, <2>2, <2>3
<1>9. ReservedIds(Capture) = ((A \cup B) \cup C) \cup D
  <2>1. IdsOf(inv) = A
    BY DEF IdsOf
  <2>2. { Capture.equipment[s].id : s \in DOMAIN Capture.equipment } = B
    BY CaptureFields
  <2>3. { Capture.dynamic[w].item.id : w \in DOMAIN Capture.dynamic } = C
    BY CaptureFields
  <2>4. { Placements[p].item.id : p \in Retained(Capture) } = D
    BY CaptureRetains, PlacementKeepsId
  <2> HIDE DEF A, B, C, D
  <2>5. QED
    BY <2>1, <2>2, <2>3, <2>4, CaptureFields DEF ReservedIds
<1>10. Reservations(Capture) = Len(inv) + Cardinality(InUse) + Cardinality(dropped) + Cardinality(placed)
  <2>1. DOMAIN Capture.equipment = InUse /\ DOMAIN Capture.dynamic = dropped
    BY CaptureFields
  <2>2. QED
    BY <2>1, CaptureFields, CaptureRetains DEF Reservations
<1> HIDE DEF A, B, C, D, placed, dropped
<1>11. Cardinality(((A \cup B) \cup C) \cup D) = Reservations(Capture)
  <2>1. IsFiniteSet(A \cup B) /\ Cardinality(A \cup B) = Cardinality(A) + Cardinality(B)
    BY <1>4, <1>5, <1>8, DisjointUnion
  <2>2. \A x \in A \cup B : x \notin C
    BY <1>8
  <2>3. /\ IsFiniteSet((A \cup B) \cup C)
        /\ Cardinality((A \cup B) \cup C) = Cardinality(A \cup B) + Cardinality(C)
    BY <1>7, <2>1, <2>2, DisjointUnion
  <2>4. \A x \in (A \cup B) \cup C : x \notin D
    BY <1>8
  <2>5. Cardinality(((A \cup B) \cup C) \cup D) = Cardinality((A \cup B) \cup C) + Cardinality(D)
    BY <1>7, <2>3, <2>4, DisjointUnion
  <2>6. QED
    BY <1>4, <1>5, <1>7, <1>10, <2>1, <2>3, <2>5
<1>12. /\ DOMAIN Capture.equipment \subseteq Slots
       /\ DOMAIN Capture.overrides \subseteq DOMAIN Placements
       /\ DOMAIN Capture.dynamic \cap DOMAIN Placements = {}
  BY <1>1, CaptureFields
<1>13. QED
  BY <1>1, <1>9, <1>11, <1>12, CaptureFields DEF Valid

\* ... and no assert of create_session fails for what was just saved.
LEMMA CaptureIsRestorable ==
  ASSUME PlayInv
  PROVE  Restorable(Capture)
<1>1. RestoredInventory(Capture).ok
  BY InventoryComesBack
<1>2. \A s \in DOMAIN Capture.equipment : s \in SlotsOf[Capture.equipment[s].kind]
  BY CaptureFields DEF PlayInv, Fits
<1>3. DOMAIN Capture.dynamic \cap Retained(Capture) = {}
  BY CaptureFields, CaptureRetains
<1>4. Lying(RestoredGround(Capture))
  BY CaptureIsSound DEF Sound
<1>5. QED
  BY <1>1, <1>2, <1>3, <1>4 DEF Restorable, Lying

-----------------------------------------------------------------------------
\* What is on disk: a file that was accepted, and from which a sound session
\* is rebuilt whenever it is loaded.
Kept(data) ==
    /\ Valid(data) /\ Restorable(data)
    /\ RestoredInventory(data).items = data.inventory
    /\ Sound(RestoredInventory(data).items, RestoredEquipment(data), RestoredGround(data))

SavedInv == PlayInv /\ (file # NoSave => Kept(file))

LEMMA CaptureIsKept ==
  ASSUME PlayInv
  PROVE  Kept(Capture)
<1>1. RestoredInventory(Capture).items = inv /\ RestoredEquipment(Capture) = equipped
  BY InventoryComesBack, EquipmentComesBack
<1>2. RestoredInventory(Capture).items = Capture.inventory
  BY <1>1, CaptureFields
<1>3. QED
  BY <1>1, <1>2, CaptureIsValid, CaptureIsRestorable, CaptureIsSound DEF Kept

LEMMA SessionKeeps ==
  ASSUME NEW data, Kept(data), SessionFrom(data)
  PROVE  PlayInv'
BY SoundIsInvariantThen DEF Kept, SessionFrom

LEMMA FreshKeeps ==
  ASSUME FreshSession
  PROVE  PlayInv'
BY InitIsSoundThen DEF FreshSession, Init

LEMMA SavedNextKeeps == SavedInv /\ [SavedNext]_savedVars => SavedInv'
<1> SUFFICES ASSUME SavedInv, [SavedNext]_savedVars PROVE SavedInv'
  OBVIOUS
<1>1. CASE Play
  BY <1>1, PlayKeeps DEF Play, SavedInv
<1>2. CASE Save
  <2>1. PlayInv' /\ Kept(file')
    BY <1>2, PlayKeeps, CaptureIsKept DEF Save, SavedInv
  <2>2. QED
    BY <2>1 DEF SavedInv
<1>3. CASE Load
  <2>1. PlayInv' /\ file' = file
    BY <1>3, SessionKeeps DEF Load, SavedInv
  <2>2. QED
    BY <2>1 DEF SavedInv
<1>4. CASE Reset
  BY <1>4, FreshKeeps DEF Reset, SavedInv
<1>5. CASE Restart
  <2>1. PlayInv' /\ file' = file
    BY <1>5, SessionKeeps, FreshKeeps DEF Restart, SavedInv
  <2>2. QED
    BY <2>1 DEF SavedInv
<1>6. CASE UNCHANGED savedVars
  <2>1. PlayInv' /\ file' = file
    BY <1>6, PlayKeeps DEF savedVars, vars, SavedInv
  <2>2. QED
    BY <2>1 DEF SavedInv
<1>7. QED
  BY <1>1, <1>2, <1>3, <1>4, <1>5, <1>6 DEF SavedNext

LEMMA SavedHolds == SavedSpec => []SavedInv
<1>1. SavedInit => SavedInv
  BY InitIsSound DEF SavedInit, SavedInv
<1>2. QED
  BY <1>1, SavedNextKeeps, PTL DEF SavedSpec

\* Whatever is saved, dropped, picked up, loaded and restarted in between, no
\* item id has two owners, no unstackable item is missing, and the inventory
\* is one that inventory.restore accepts.
THEOREM LoadingDuplicatesNothing ==
  SavedSpec => [](UniqueOwnership /\ UnstackablesSurvive /\ CanonicalStacks)
<1>1. SavedInv => UniqueOwnership /\ UnstackablesSurvive /\ CanonicalStacks
  BY DEF SavedInv, PlayInv, IInv
<1>2. QED
  BY <1>1, SavedHolds, PTL

\* A file once accepted passes validate and every assert of create_session,
\* for any content and any capacity.
THEOREM AcceptedFilesLoad == SavedSpec => []FileLoads
<1>1. SavedInv => FileLoads
  BY DEF SavedInv, Kept, FileLoads
<1>2. QED
  BY <1>1, SavedHolds, PTL

\* F5 always succeeds, and what it writes gives every owner back what it
\* had, in the same order, and every dropped item that bears no authored id
\* its tile.
THEOREM SavingIsComplete == SavedSpec => []OwnersComeBack
<1>1. ASSUME PlayInv PROVE OwnersComeBack
  <2>1. Valid(Capture)
    BY <1>1, CaptureIsValid
  <2>2. RestoredInventory(Capture).items = inv /\ RestoredEquipment(Capture) = equipped
    BY <1>1, InventoryComesBack, EquipmentComesBack
  <2>3. QED
    BY <1>1, <2>1, <2>2, GroundComesBack DEF OwnersComeBack
<1>2. QED
  BY <1>1, SavedHolds, PTL DEF SavedInv

(***************************************************************************)
(* The units an owner holds.                                               *)
(***************************************************************************)
Quantity(item, k) == IF item # NoItem /\ item.kind = k THEN item.qty ELSE 0

LEMMA QuantityType ==
  ASSUME NEW item \in Items \cup {NoItem}, NEW k \in Kinds
  PROVE  Quantity(item, k) \in Nat /\ Quantity(item, k) <= MaxStack[k] /\ MaxStack[k] \in Nat
<1>1. MaxStack[k] \in Nat
  BY MaxStackAssumption
<1>2. CASE item # NoItem /\ item.kind = k
  BY <1>1, <1>2, ItemFields DEF Quantity
<1>3. CASE ~ (item # NoItem /\ item.kind = k)
  BY <1>1, <1>3 DEF Quantity
<1>4. QED
  BY <1>2, <1>3

LEMMA UnitsAreFinite ==
  ASSUME NEW k \in Kinds, NEW owner, IsFiniteSet(DOMAIN owner)
  PROVE  IsFiniteSet(Units(owner, k)) /\ UnitCount(owner, k) \in Nat
<1>1. IsFiniteSet(1..MaxStack[k])
  BY MaxStackAssumption, FS_Interval
<1>2. IsFiniteSet((DOMAIN owner) \X (1..MaxStack[k]))
  BY <1>1, FS_Product
<1>3. Units(owner, k) \in SUBSET ((DOMAIN owner) \X (1..MaxStack[k]))
  BY DEF Units
<1>4. IsFiniteSet(Units(owner, k))
  BY <1>2, <1>3, FS_Subset
<1>5. QED
  BY <1>4, FS_CardinalityType DEF UnitCount

\* What an owner holds is what one place of it holds and what the others hold.
LEMMA OnePlaceApart ==
  ASSUME NEW k \in Kinds, NEW D, IsFiniteSet(D), NEW d \in D, NEW owner, DOMAIN owner = D,
         owner[d] \in Items \cup {NoItem}
  PROVE  UnitCount(owner, k) = UnitCount([e \in D \ {d} |-> owner[e]], k) + Quantity(owner[d], k)
<1> DEFINE rest == [e \in D \ {d} |-> owner[e]]
           here == {d} \X (1..Quantity(owner[d], k))
           q == Quantity(owner[d], k)
<1>1. q \in Nat /\ q <= MaxStack[k] /\ MaxStack[k] \in Nat
  BY QuantityType
<1>2. IsFiniteSet(here) /\ Cardinality(here) = q
  <2>1. IsFiniteSet({d}) /\ Cardinality({d}) = 1
    BY FS_Singleton
  <2>2. IsFiniteSet(1..q) /\ Cardinality(1..q) = q
    BY <1>1, FS_Interval
  <2> HIDE DEF q
  <2>3. IsFiniteSet({d} \X (1..q)) /\ Cardinality({d} \X (1..q)) = Cardinality({d}) * Cardinality(1..q)
    BY <2>1, <2>2, FS_Product
  <2>4. QED
    BY <1>1, <2>1, <2>2, <2>3 DEF q
<1>3. IsFiniteSet(Units(rest, k)) /\ UnitCount(rest, k) \in Nat
  <2>1. IsFiniteSet(D \ {d})
    BY FS_RemoveElement
  <2>2. QED
    BY <2>1, UnitsAreFinite
<1>4. Units(owner, k) = Units(rest, k) \cup here
  <2>1. ASSUME NEW x \in Units(owner, k) PROVE x \in Units(rest, k) \cup here
    <3>1. /\ x[1] \in D /\ x[2] \in 1..MaxStack[k] /\ x = <<x[1], x[2]>>
          /\ owner[x[1]] # NoItem /\ owner[x[1]].kind = k /\ x[2] <= owner[x[1]].qty
      BY DEF Units
    <3>2. CASE x[1] = d
      BY <1>1, <3>1, <3>2 DEF Quantity
    <3>3. CASE x[1] # d
      BY <3>1, <3>3 DEF Units
    <3>4. QED
      BY <3>2, <3>3
  <2>2. ASSUME NEW x \in Units(rest, k) PROVE x \in Units(owner, k)
    BY <2>2 DEF Units
  <2>3. ASSUME NEW x \in here PROVE x \in Units(owner, k)
    <3>1. x[1] = d /\ x[2] \in 1..q /\ x = <<d, x[2]>>
      OBVIOUS
    <3>2. owner[d] # NoItem /\ owner[d].kind = k /\ q = owner[d].qty
      BY <3>1 DEF Quantity
    <3>3. x[2] \in 1..MaxStack[k]
      BY <1>1, <3>1
    <3>4. QED
      BY <1>1, <3>1, <3>2, <3>3 DEF Units
  <2>4. QED
    BY <2>1, <2>2, <2>3
<1>5. Units(rest, k) \cap here = {}
  BY DEF Units
<1>6. Cardinality(Units(rest, k) \cap here) = 0
  BY <1>5, FS_EmptySet
<1> HIDE DEF rest, here, q
<1>7. Cardinality(Units(owner, k)) = Cardinality(Units(rest, k)) + Cardinality(here) - 0
  BY <1>2, <1>3, <1>4, <1>6, FS_Union
<1>8. QED
  BY <1>1, <1>2, <1>3, <1>7 DEF UnitCount, rest, q

\* Moving things to other places of an owner changes nothing.
LEMMA Rearranged ==
  ASSUME NEW k \in Kinds, NEW a, NEW b, IsFiniteSet(DOMAIN a),
         NEW f \in Bijection(DOMAIN a, DOMAIN b), \A d \in DOMAIN a : b[f[d]] = a[d]
  PROVE  UnitCount(a, k) = UnitCount(b, k)
<1> DEFINE A == Units(a, k)
           B == Units(b, k)
           g == [x \in A |-> <<f[x[1]], x[2]>>]
<1>1. f \in [DOMAIN a -> DOMAIN b] /\ (\A c, d \in DOMAIN a : f[c] = f[d] => c = d)
  BY DEF Bijection, Injection, IsInjective
<1>2. \A e \in DOMAIN b : \E d \in DOMAIN a : f[d] = e
  BY DEF Bijection, Surjection
<1>3. \A x \in A : x[1] \in DOMAIN a /\ x[2] \in 1..MaxStack[k] /\ x = <<x[1], x[2]>>
  BY DEF Units
<1>4. \A x \in A : <<f[x[1]], x[2]>> \in B
  BY <1>1, <1>3 DEF Units
<1>5. g \in [A -> B]
  <2> HIDE DEF A, B
  <2> QED BY <1>4
<1>6. \A x, y \in A : g[x] = g[y] => x = y
  BY <1>1, <1>3
<1>7. \A y \in B : \E x \in A : g[x] = y
  <2>1. TAKE y \in B
  <2>2. y[1] \in DOMAIN b /\ y[2] \in 1..MaxStack[k] /\ y = <<y[1], y[2]>>
    BY DEF Units
  <2>3. PICK d \in DOMAIN a : f[d] = y[1]
    BY <1>2, <2>2
  <2>4. <<d, y[2]>> \in A
    BY <2>2, <2>3 DEF Units
  <2>5. g[<<d, y[2]>>] = y
    BY <2>2, <2>3, <2>4
  <2>6. QED
    BY <2>4, <2>5
<1> HIDE DEF A, B, g
<1>8. g \in Bijection(A, B)
  BY <1>5, <1>6, <1>7 DEF Bijection, Injection, IsInjective, Surjection
<1>9. ExistsBijection(A, B)
  BY <1>8 DEF ExistsBijection
<1>10. IsFiniteSet(A)
  BY UnitsAreFinite DEF A
<1>11. QED
  BY <1>9, <1>10, FS_Bijection DEF UnitCount, A, B

\* Two owners that differ in one place.
LEMMA OnePlaceDiffers ==
  ASSUME NEW k \in Kinds, NEW D, IsFiniteSet(D), NEW d \in D,
         NEW a \in [D -> Items \cup {NoItem}], NEW b \in [D -> Items \cup {NoItem}],
         \A e \in D \ {d} : a[e] = b[e]
  PROVE  UnitCount(b, k) = UnitCount(a, k) - Quantity(a[d], k) + Quantity(b[d], k)
<1>1. [e \in D \ {d} |-> a[e]] = [e \in D \ {d} |-> b[e]]
  OBVIOUS
<1>2. UnitCount(a, k) = UnitCount([e \in D \ {d} |-> a[e]], k) + Quantity(a[d], k)
  BY OnePlaceApart
<1>3. UnitCount(b, k) = UnitCount([e \in D \ {d} |-> a[e]], k) + Quantity(b[d], k)
  BY <1>1, OnePlaceApart
<1>4. Quantity(a[d], k) \in Nat /\ Quantity(b[d], k) \in Nat
  BY QuantityType
<1>5. UnitCount([e \in D \ {d} |-> a[e]], k) \in Nat
  <2>1. IsFiniteSet(D \ {d})
    BY FS_RemoveElement
  <2>2. QED
    BY <2>1, UnitsAreFinite
<1>6. QED
  BY <1>2, <1>3, <1>4, <1>5

\* An owner with one more place.
LEMMA OnePlaceMore ==
  ASSUME NEW k \in Kinds, NEW D, IsFiniteSet(D), NEW d, d \notin D,
         NEW a \in [D -> Items \cup {NoItem}], NEW b \in [D \cup {d} -> Items \cup {NoItem}],
         \A e \in D : a[e] = b[e]
  PROVE  UnitCount(b, k) = UnitCount(a, k) + Quantity(b[d], k)
<1>1. a = [e \in (D \cup {d}) \ {d} |-> b[e]]
  OBVIOUS
<1>2. IsFiniteSet(D \cup {d})
  BY FS_AddElement
<1>3. d \in D \cup {d} /\ DOMAIN b = D \cup {d} /\ b[d] \in Items \cup {NoItem}
  OBVIOUS
<1>4. QED
  BY <1>1, <1>2, <1>3, OnePlaceApart

\* remove_item takes one stack out.
LEMMA WithoutSlotUnits ==
  ASSUME NEW k \in Kinds, NEW items \in Seq(Items), NEW n \in 1..Len(items)
  PROVE  UnitCount(items, k) = UnitCount(WithoutSlot(items, n), k) + Quantity(items[n], k)
<1> DEFINE L == Len(items)
           D == 1..L
           rest == [e \in D \ {n} |-> items[e]]
           f == [e \in D \ {n} |-> IF e < n THEN e ELSE e - 1]
           w == WithoutSlot(items, n)
<1>1. L \in Nat /\ n \in Nat /\ n >= 1 /\ n <= L /\ DOMAIN items = D /\ IsFiniteSet(D)
  BY FS_Interval
<1>2. UnitCount(items, k) = UnitCount(rest, k) + Quantity(items[n], k)
  <2>1. items[n] \in Items \cup {NoItem}
    OBVIOUS
  <2> HIDE DEF L, D
  <2>2. n \in D
    BY <1>1 DEF D
  <2>3. QED
    BY <1>1, <2>1, <2>2, OnePlaceApart
<1>3. DOMAIN w = 1..(L - 1) /\ (\A m \in 1..(L - 1) : w[m] = IF m < n THEN items[m] ELSE items[m + 1])
  BY DEF WithoutSlot
<1>4. f \in Bijection(DOMAIN rest, DOMAIN w)
  <2>1. \A e \in D \ {n} : f[e] \in 1..(L - 1)
    BY <1>1
  <2>2. f \in [D \ {n} -> 1..(L - 1)]
    BY <2>1
  <2>3. \A c, e \in D \ {n} : f[c] = f[e] => c = e
    BY <1>1
  <2>4. \A m \in 1..(L - 1) : \E e \in D \ {n} : f[e] = m
    <3>1. TAKE m \in 1..(L - 1)
    <3>2. CASE m < n
      BY <1>1, <3>1, <3>2
    <3>3. CASE m >= n
      <4>1. m + 1 \in D \ {n} /\ f[m + 1] = m
        BY <1>1, <3>1, <3>3
      <4>2. QED
        BY <4>1
    <3>4. QED
      BY <1>1, <3>2, <3>3
  <2>5. DOMAIN rest = D \ {n}
    OBVIOUS
  <2> HIDE DEF f, D, L, rest, w
  <2>6. QED
    BY <1>3, <2>2, <2>3, <2>4, <2>5 DEF Bijection, Injection, IsInjective, Surjection
<1>5. \A e \in DOMAIN rest : w[f[e]] = rest[e]
  <2>1. TAKE e \in DOMAIN rest
  <2>2. e \in D \ {n} /\ rest[e] = items[e]
    OBVIOUS
  <2>3. CASE e < n
    BY <1>1, <1>3, <2>2, <2>3
  <2>4. CASE e > n
    BY <1>1, <1>3, <2>2, <2>4
  <2>5. QED
    BY <1>1, <2>2, <2>3, <2>4
<1>6. IsFiniteSet(DOMAIN rest)
  <2>1. DOMAIN rest = D \ {n}
    OBVIOUS
  <2> HIDE DEF D, rest
  <2>2. QED
    BY <1>1, <2>1, FS_RemoveElement
<1> HIDE DEF f, D, L, rest, w
<1>7. UnitCount(rest, k) = UnitCount(w, k)
  BY <1>4, <1>5, <1>6, Rearranged
<1>8. QED
  BY <1>2, <1>7 DEF w

\* The merge loop adds what it moves.
LEMMA MergedUnits ==
  ASSUME NEW k \in Kinds, NEW items \in Seq(Items), NEW incoming \in Items,
         NEW left \in MergeTraces(items, incoming)
  PROVE  UnitCount(Merged(items, incoming, left), k)
           = UnitCount(items, k)
               + (IF incoming.kind = k THEN incoming.qty - left[Len(items)] ELSE 0)
<1> DEFINE L == Len(items)
           M == Merged(items, incoming, left)
           D == 1..L
           upto(m) == [n \in D |-> IF n <= m THEN M[n] ELSE items[n]]
           gone(m) == IF incoming.kind = k THEN incoming.qty - left[m] ELSE 0
           T == { m \in 0..L : UnitCount(upto(m), k) = UnitCount(items, k) + gone(m) }
<1>1. L \in Nat /\ IsFiniteSet(D) /\ items \in [D -> Items] /\ DOMAIN items = D
  BY FS_Interval
<1>2. /\ M \in [D -> Items]
      /\ \A n \in D : M[n].kind = items[n].kind
                      /\ M[n].qty = items[n].qty + Moved(items[n], incoming, left[n - 1])
  <2>1. M \in Seq(Items) /\ Len(M) = L
    BY MergedStacks
  <2>2. \A n \in D : M[n].kind = items[n].kind
                     /\ M[n].qty = items[n].qty + Moved(items[n], incoming, left[n - 1])
    BY MergedStacks
  <2> HIDE DEF M, L
  <2>3. M \in [1..Len(M) -> Items]
    BY <2>1
  <2>4. QED
    BY <2>1, <2>2, <2>3
<1>3. /\ left[0] = incoming.qty /\ incoming.qty \in Nat
      /\ \A i \in 0..L : left[i] \in Nat
      /\ \A n \in D : left[n] = left[n - 1] - Moved(items[n], incoming, left[n - 1])
  BY TraceFalls, ItemFields DEF MergeTraces
<1>4. 0 \in T
  <2>1. upto(0) = items
    <3> HIDE DEF L, M
    <3>1. \A n \in D : ~ (n <= 0)
      BY <1>1
    <3>2. QED
      BY <1>1, <3>1
  <2>2. gone(0) = 0
    BY <1>3
  <2>3. UnitCount(items, k) \in Nat
    BY <1>1, UnitsAreFinite
  <2> HIDE DEF upto, gone, L
  <2>4. QED
    BY <1>1, <2>1, <2>2, <2>3
<1>5. ASSUME NEW m \in 1..L, m - 1 \in T PROVE m \in T
  <2> DEFINE a == upto(m - 1)
             b == upto(m)
  <2>1. m \in D /\ m \in Nat /\ m - 1 \in 0..L /\ m \in 0..L
    BY <1>1
  <2>2. a \in [D -> Items \cup {NoItem}] /\ b \in [D -> Items \cup {NoItem}]
    <3> HIDE DEF M, D
    <3>1. \A n \in D : M[n] \in Items /\ items[n] \in Items
      BY <1>1, <1>2
    <3>2. QED
      BY <3>1
  <2>3. \A e \in D \ {m} : a[e] = b[e]
    <3> HIDE DEF M
    <3>1. \A e \in D \ {m} : (e <= m <=> e <= m - 1)
      BY <1>1, <2>1
    <3>2. QED
      BY <3>1
  <2>4. a[m] = items[m] /\ b[m] = M[m]
    <3> HIDE DEF M
    <3>1. m <= m /\ ~(m <= m - 1)
      BY <2>1
    <3>2. QED
      BY <2>1, <3>1
  <2>5. UnitCount(b, k) = UnitCount(a, k) - Quantity(items[m], k) + Quantity(M[m], k)
    <3> HIDE DEF a, b, D, M
    <3>1. QED
      BY <1>1, <2>1, <2>2, <2>3, <2>4, OnePlaceDiffers
  <2>6. Quantity(M[m], k) = Quantity(items[m], k) + (gone(m) - gone(m - 1))
    <3>1. items[m] \in Items /\ M[m] \in Items
      BY <1>1, <1>2, <2>1
    <3>2. items[m] # NoItem /\ M[m] # NoItem /\ items[m].qty \in Nat
      BY <3>1, EquipAssumption, ItemFields
    <3>3. left[m] \in Nat /\ left[m - 1] \in Nat
          /\ left[m] = left[m - 1] - Moved(items[m], incoming, left[m - 1])
      BY <1>3, <2>1
    <3>4. /\ Moved(items[m], incoming, left[m - 1]) \in Nat
          /\ items[m].kind # incoming.kind => Moved(items[m], incoming, left[m - 1]) = 0
      BY <3>1, <3>3, MovedBounds
    <3>5. M[m].kind = items[m].kind /\ M[m].qty = items[m].qty + Moved(items[m], incoming, left[m - 1])
      BY <1>2, <2>1
    <3> DEFINE moved == Moved(items[m], incoming, left[m - 1])
    <3> HIDE DEF moved
    <3>6. gone(m) - gone(m - 1) = IF incoming.kind = k THEN moved ELSE 0
      <4>1. left[m] = left[m - 1] - moved /\ moved \in Nat
        BY <3>3, <3>4 DEF moved
      <4>2. QED
        BY <1>3, <3>3, <4>1
    <3> HIDE DEF M, L, gone
    <3>7. Quantity(items[m], k) = IF items[m].kind = k THEN items[m].qty ELSE 0
      BY <3>2 DEF Quantity
    <3>8. Quantity(M[m], k) = IF items[m].kind = k THEN items[m].qty + moved ELSE 0
      BY <3>2, <3>5 DEF Quantity, moved
    <3>9. moved \in Nat /\ (items[m].kind # incoming.kind => moved = 0)
      BY <3>4 DEF moved
    <3>10. QED
      BY <3>2, <3>6, <3>7, <3>8, <3>9
  <2>7. UnitCount(a, k) = UnitCount(items, k) + gone(m - 1)
    BY <1>5
  <2>8. UnitCount(items, k) \in Nat
    BY <1>1, UnitsAreFinite
  <2>9. gone(m) \in Int /\ gone(m - 1) \in Int
    BY <1>3, <2>1
  <2>10. Quantity(items[m], k) \in Int
    <3>1. items[m] \in Items
      BY <1>1, <2>1
    <3>2. QED
      BY <3>1, QuantityType
  <2> HIDE DEF upto, gone, L, a, M
  <2>11. UnitCount(b, k) = UnitCount(items, k) + gone(m)
    BY <2>5, <2>6, <2>7, <2>8, <2>9, <2>10
  <2>12. QED
    BY <2>1, <2>11
<1>6. L \in T
  <2> HIDE DEF T
  <2>1. \A i \in 0..L : i \in T
    BY <1>1, <1>4, <1>5, IntervalInduction
  <2>2. QED
    BY <1>1, <2>1
<1>7. upto(L) = M
  <2> HIDE DEF M
  <2>1. \A n \in D : n <= L
    BY <1>1
  <2>2. QED
    BY <1>2, <2>1
<1> HIDE DEF upto, M, L
<1>8. UnitCount(M, k) = UnitCount(items, k) + gone(L)
  BY <1>6, <1>7
<1>9. QED
  BY <1>8 DEF M, L

\* add_item takes the incoming units but for the remainder it answers.
LEMMA AddItemUnits ==
  ASSUME NEW k \in Kinds, NEW items \in Seq(Items), NEW incoming \in Items, NEW capacity \in Nat,
         Len(items) <= capacity, NEW r \in AddItem(items, incoming, capacity)
  PROVE  UnitCount(r.items, k)
           = UnitCount(items, k) + (IF incoming.kind = k THEN incoming.qty - r.remainder ELSE 0)
<1>1. PICK left \in MergeTraces(items, incoming) : r = AddResult(items, incoming, capacity, left)
  BY DEF AddItem
<1> DEFINE L == Len(items)
           rest == left[L]
           M == Merged(items, incoming, left)
           slot == [incoming EXCEPT !.qty = rest]
<1>2. UnitCount(M, k) = UnitCount(items, k) + (IF incoming.kind = k THEN incoming.qty - rest ELSE 0)
  BY MergedUnits
<1>3. CASE rest > 0 /\ L < capacity
  <2>1. r = [items |-> Append(M, slot), remainder |-> 0]
    BY <1>1, <1>3 DEF AddResult
  <2>2. L \in Nat /\ rest \in Nat /\ rest <= incoming.qty /\ incoming.qty \in Nat
    BY TraceFalls, ItemFields
  <2>3. slot \in Items /\ slot.kind = incoming.kind /\ slot.qty = rest
    <3>1. rest <= MaxStack[incoming.kind]
      BY <2>2, ItemFields
    <3> HIDE DEF rest
    <3>2. QED
      BY <1>3, <2>2, <3>1, WithQuantity
  <2>4. M \in Seq(Items) /\ Len(M) = L
    BY MergedStacks
  <2> DEFINE b == Append(M, slot)
             D == 1..L
  <2> HIDE DEF M, slot, rest
  <2>5. M \in [D -> Items \cup {NoItem}]
    BY <2>2, <2>4
  <2>6. b \in Seq(Items) /\ Len(b) = L + 1
    BY <2>2, <2>3, <2>4
  <2>7. (\A n \in D : M[n] = b[n]) /\ b[L + 1] = slot
    BY <2>2, <2>3, <2>4
  <2> HIDE DEF b, L
  <2>8. b \in [D \cup {L + 1} -> Items \cup {NoItem}]
    <3>1. b \in [1..(L + 1) -> Items]
      BY <2>6
    <3>2. D \cup {L + 1} = 1..(L + 1)
      BY <2>2
    <3> HIDE DEF D
    <3>3. QED
      BY <3>1, <3>2
  <2>9. IsFiniteSet(D) /\ L + 1 \notin D
    BY <2>2, FS_Interval
  <2> HIDE DEF D
  <2>10. UnitCount(b, k) = UnitCount(M, k) + Quantity(slot, k)
    <3>1. \A e \in D : M[e] = b[e]
      BY <2>7
    <3> DEFINE d == L + 1
    <3>2. b \in [D \cup {d} -> Items \cup {NoItem}] /\ d \notin D /\ b[d] = slot
      BY <2>7, <2>8, <2>9
    <3> HIDE DEF d
    <3>3. M = [e \in (D \cup {d}) \ {d} |-> b[e]]
      BY <2>5, <3>1, <3>2
    <3>4. IsFiniteSet(D \cup {d}) /\ d \in D \cup {d} /\ DOMAIN b = D \cup {d}
      BY <2>9, <3>2, FS_AddElement
    <3>5. b[d] \in Items \cup {NoItem}
      BY <2>3, <3>2
    <3>6. UnitCount(b, k) = UnitCount([e \in (D \cup {d}) \ {d} |-> b[e]], k) + Quantity(b[d], k)
      BY <3>4, <3>5, OnePlaceApart
    <3>7. QED
      BY <3>2, <3>3, <3>6
  <2>11. Quantity(slot, k) = IF incoming.kind = k THEN rest ELSE 0
    BY <2>3, EquipAssumption DEF Quantity
  <2>12. UnitCount(items, k) \in Nat
    <3>1. IsFiniteSet(DOMAIN items)
      BY <2>2, <2>9 DEF L, D
    <3>2. QED
      BY <3>1, UnitsAreFinite
  <2>13. r.items = b /\ r.remainder = 0
    BY <2>1 DEF b
  <2>14. QED
    BY <1>2, <2>2, <2>10, <2>11, <2>12, <2>13
<1>4. CASE ~ (rest > 0 /\ L < capacity)
  <2>1. r = [items |-> M, remainder |-> rest]
    BY <1>1, <1>4 DEF AddResult
  <2> HIDE DEF M, rest
  <2>2. QED
    BY <1>2, <2>1
<1>5. QED
  BY <1>3, <1>4

(***************************************************************************)
(* The ledger.                                                             *)
(***************************************************************************)
LEMMA QuantitiesType ==
  PlayInv => \A k \in Kinds : Quantities(k) \in [carried : Nat, worn : Nat, world : Nat]
<1>1. SUFFICES ASSUME PlayInv, NEW k \in Kinds
               PROVE  Quantities(k) \in [carried : Nat, worn : Nat, world : Nat]
  OBVIOUS
<1>2. IsFiniteSet(DOMAIN inv)
  <2>1. Len(inv) \in Nat /\ DOMAIN inv = 1..Len(inv)
    BY <1>1 DEF PlayInv, IInv, TypeOK
  <2>2. QED
    BY <2>1, FS_Interval
<1>3. IsFiniteSet(DOMAIN equipped)
  BY <1>1, ContentAssumption DEF PlayInv, IInv, TypeOK
<1>4. IsFiniteSet(DOMAIN ItemsLying(ground))
  <2>1. DOMAIN ItemsLying(ground) = DOMAIN ground
    BY DEF ItemsLying
  <2>2. QED
    BY <1>1, <2>1 DEF PlayInv
<1>5. UnitCount(inv, k) \in Nat /\ UnitCount(equipped, k) \in Nat /\ UnitCount(ItemsLying(ground), k) \in Nat
  BY <1>2, <1>3, <1>4, UnitsAreFinite
<1>6. QED
  BY <1>5 DEF Quantities, QuantitiesOf

LEMMA QuantitiesTypeThen ==
  (PlayInv => \A k \in Kinds : Quantities(k) \in [carried : Nat, worn : Nat, world : Nat])'
<1>1. PlayInv => \A k \in Kinds : Quantities(k) \in [carried : Nat, worn : Nat, world : Nat]
  BY QuantitiesType
<1>2. QED
  BY <1>1, PTL

\* What a transfer of n units of kind k along a route adds to place p of kind j.
Shift(j, p, k, route, n) ==
    IF j # k THEN 0 ELSE IF p = route[2] THEN n ELSE IF p = route[1] THEN 0 - n ELSE 0

LEMMA ShiftIsTransfer ==
  ASSUME PlayInv, PlayInv', NEW k \in Kinds, NEW n \in 1..MaxStack[k], NEW route \in Ledger!Routes,
         \A j \in Kinds :
           /\ UnitCount(inv', j) = UnitCount(inv, j) + Shift(j, "carried", k, route, n)
           /\ UnitCount(equipped', j) = UnitCount(equipped, j) + Shift(j, "worn", k, route, n)
           /\ UnitCount(ItemsLying(ground'), j)
                = UnitCount(ItemsLying(ground), j) + Shift(j, "world", k, route, n)
  PROVE  Ledger!Next
<1> DEFINE h == [j \in Kinds |-> Quantities(j)]
           g == [j \in Kinds |-> [carried |-> UnitCount(inv', j), worn |-> UnitCount(equipped', j),
                                  world |-> UnitCount(ItemsLying(ground'), j)]]
           Row == [carried : Nat, worn : Nat, world : Nat]
<1>1. h' = g
  BY DEF Quantities, QuantitiesOf
<1>2. h \in [Kinds -> Row] /\ h' \in [Kinds -> Row]
  BY QuantitiesType, QuantitiesTypeThen
<1>3. \A j \in Kinds :
        /\ h[j].carried = UnitCount(inv, j) /\ h[j].worn = UnitCount(equipped, j)
        /\ h[j].world = UnitCount(ItemsLying(ground), j)
        /\ g[j].carried = UnitCount(inv', j) /\ g[j].worn = UnitCount(equipped', j)
        /\ g[j].world = UnitCount(ItemsLying(ground'), j)
  BY DEF Quantities, QuantitiesOf
<1>4. g \in [Kinds -> Row]
  BY <1>1, <1>2
<1>5. \A j \in Kinds :
        /\ g[j].carried = h[j].carried + Shift(j, "carried", k, route, n)
        /\ g[j].worn = h[j].worn + Shift(j, "worn", k, route, n)
        /\ g[j].world = h[j].world + Shift(j, "world", k, route, n)
  <2> HIDE DEF h, g
  <2> QED BY <1>3
<1>6. n \in Nat /\ n > 0
  BY MaxStackAssumption
<1>7. \/ route = <<"world", "carried">> \/ route = <<"carried", "world">>
      \/ route = <<"carried", "worn">> \/ route = <<"worn", "carried">>
  BY DEF Ledger!Routes
<1> HIDE DEF h, g
<1>8. \A j \in Kinds : j # k => g[j] = h[j]
  <2>1. TAKE j \in Kinds
  <2>2. HAVE j # k
  <2>3. g[j].carried = h[j].carried /\ g[j].worn = h[j].worn /\ g[j].world = h[j].world
    BY <1>2, <1>4, <1>5, <2>2 DEF Shift
  <2>4. g[j] \in Row /\ h[j] \in Row
    BY <1>2, <1>4
  <2>5. QED
    BY <2>3, <2>4
<1>9. n <= h[k][route[1]]
  <2>1. g[k] \in Row /\ h[k] \in Row
    BY <1>2, <1>4
  <2>2. CASE route[1] = "carried"
    BY <1>5, <1>6, <1>7, <2>1, <2>2 DEF Shift
  <2>3. CASE route[1] = "worn"
    BY <1>5, <1>6, <1>7, <2>1, <2>3 DEF Shift
  <2>4. CASE route[1] = "world"
    BY <1>5, <1>6, <1>7, <2>1, <2>4 DEF Shift
  <2>5. QED
    BY <1>7, <2>2, <2>3, <2>4
<1>10. g[k] = [h[k] EXCEPT ![route[1]] = @ - n, ![route[2]] = @ + n]
  <2>1. g[k] \in Row /\ h[k] \in Row
    BY <1>2, <1>4
  <2>2. CASE route = <<"world", "carried">>
    <3>1. g[k].carried = h[k].carried + n /\ g[k].worn = h[k].worn /\ g[k].world = h[k].world - n
      BY <1>5, <1>6, <2>1, <2>2 DEF Shift
    <3>2. QED
      BY <2>1, <2>2, <3>1
  <2>3. CASE route = <<"carried", "world">>
    <3>1. g[k].carried = h[k].carried - n /\ g[k].worn = h[k].worn /\ g[k].world = h[k].world + n
      BY <1>5, <1>6, <2>1, <2>3 DEF Shift
    <3>2. QED
      BY <2>1, <2>3, <3>1
  <2>4. CASE route = <<"carried", "worn">>
    <3>1. g[k].carried = h[k].carried - n /\ g[k].worn = h[k].worn + n /\ g[k].world = h[k].world
      BY <1>5, <1>6, <2>1, <2>4 DEF Shift
    <3>2. QED
      BY <2>1, <2>4, <3>1
  <2>5. CASE route = <<"worn", "carried">>
    <3>1. g[k].carried = h[k].carried + n /\ g[k].worn = h[k].worn - n /\ g[k].world = h[k].world
      BY <1>5, <1>6, <2>1, <2>5 DEF Shift
    <3>2. QED
      BY <2>1, <2>5, <3>1
  <2>6. QED
    BY <1>7, <2>2, <2>3, <2>4, <2>5
<1>11. g = [h EXCEPT ![k][route[1]] = @ - n, ![k][route[2]] = @ + n]
  <2>1. [h EXCEPT ![k][route[1]] = @ - n, ![k][route[2]] = @ + n]
          = [h EXCEPT ![k] = [h[k] EXCEPT ![route[1]] = @ - n, ![route[2]] = @ + n]]
    BY <1>2, <1>7
  <2>2. [h EXCEPT ![k] = [h[k] EXCEPT ![route[1]] = @ - n, ![route[2]] = @ + n]] = [h EXCEPT ![k] = g[k]]
    BY <1>10
  <2>3. [h EXCEPT ![k] = g[k]] = g
    BY <1>2, <1>4, <1>8
  <2>4. QED
    BY <2>1, <2>2, <2>3
<1>12. Ledger!Transfer(h, h', k, route, n)
  BY <1>1, <1>9, <1>11 DEF Ledger!Transfer
<1>13. QED
  BY <1>12 DEF Ledger!Next, h

\* What lies on the ground when one item is taken, laid down or reduced.
LEMMA GroundFacts ==
  ASSUME PlayInv
  PROVE  /\ IsFiniteSet(DOMAIN ground) /\ ground \in [DOMAIN ground -> WorldItems]
         /\ ItemsLying(ground) \in [DOMAIN ground -> Items]
         /\ \A w \in DOMAIN ground : ItemsLying(ground)[w] = ground[w].item
<1>1. IsFiniteSet(DOMAIN ground) /\ ground \in [DOMAIN ground -> WorldItems]
  BY DEF PlayInv, IInv, TypeOK
<1>2. \A w \in DOMAIN ground : ground[w].item \in Items
  BY <1>1 DEF WorldItems
<1>3. QED
  BY <1>1, <1>2 DEF ItemsLying

LEMMA TakenUnits ==
  ASSUME PlayInv, NEW w \in DOMAIN ground, NEW j \in Kinds
  PROVE  UnitCount(ItemsLying(ground), j)
           = UnitCount(ItemsLying(Taken(w)), j) + Quantity(ground[w].item, j)
<1> DEFINE D == DOMAIN ground
           a == ItemsLying(ground)
<1>1. a \in [D -> Items] /\ IsFiniteSet(D) /\ a[w] = ground[w].item /\ w \in D
  BY GroundFacts
<1>2. ItemsLying(Taken(w)) = [e \in D \ {w} |-> a[e]]
  BY DEF ItemsLying, Taken
<1> HIDE DEF a, D
<1>3. DOMAIN a = D /\ a[w] \in Items \cup {NoItem}
  BY <1>1
<1>4. UnitCount(a, j) = UnitCount([e \in D \ {w} |-> a[e]], j) + Quantity(a[w], j)
  BY <1>1, <1>3, OnePlaceApart
<1>5. QED
  BY <1>1, <1>2, <1>4 DEF a

LEMMA PlacedUnits ==
  ASSUME PlayInv, NEW w, w \notin DOMAIN ground, NEW item \in Items, NEW pos, NEW j \in Kinds
  PROVE  UnitCount(ItemsLying(Placed(w, item, pos)), j)
           = UnitCount(ItemsLying(ground), j) + Quantity(item, j)
<1> DEFINE D == DOMAIN ground
           a == ItemsLying(ground)
           b == ItemsLying(Placed(w, item, pos))
<1>1. a \in [D -> Items] /\ IsFiniteSet(D)
  BY GroundFacts
<1>2. /\ DOMAIN b = D \cup {w} /\ b[w] = item
      /\ \A e \in D : b[e] = a[e]
  BY DEF ItemsLying, Placed
<1>3. a = [e \in (D \cup {w}) \ {w} |-> b[e]]
  <2> HIDE DEF a, b, D
  <2>1. (D \cup {w}) \ {w} = D
    BY DEF D
  <2>2. QED
    BY <1>1, <1>2, <2>1
<1> HIDE DEF a, b, D
<1>4. IsFiniteSet(D \cup {w}) /\ w \in D \cup {w}
  BY <1>1, FS_AddElement
<1>5. b[w] \in Items \cup {NoItem}
  BY <1>2
<1>6. UnitCount(b, j) = UnitCount([e \in (D \cup {w}) \ {w} |-> b[e]], j) + Quantity(b[w], j)
  BY <1>2, <1>4, <1>5, OnePlaceApart
<1>7. QED
  BY <1>2, <1>3, <1>6 DEF a, b

LEMMA RequantifiedUnits ==
  ASSUME PlayInv, NEW w \in DOMAIN ground, NEW q \in Nat, q > 0,
         q <= MaxStack[ground[w].item.kind], NEW j \in Kinds
  PROVE  UnitCount(ItemsLying(Requantified(w, q)), j)
           = UnitCount(ItemsLying(ground), j) - Quantity(ground[w].item, j)
               + (IF ground[w].item.kind = j THEN q ELSE 0)
<1> DEFINE D == DOMAIN ground
           a == ItemsLying(ground)
           item == [ground[w].item EXCEPT !.qty = q]
           b == ItemsLying(Requantified(w, q))
<1>1. a \in [D -> Items] /\ IsFiniteSet(D) /\ w \in D /\ a[w] = ground[w].item
  BY GroundFacts
<1>2. item \in Items /\ item.kind = ground[w].item.kind /\ item.qty = q
  <2>1. ground[w].item \in Items
    BY <1>1
  <2>2. QED
    BY <2>1, WithQuantity
<1>3. DOMAIN b = D /\ b[w] = item /\ \A e \in D \ {w} : b[e] = a[e]
  <2> HIDE DEF item
  <2>1. Requantified(w, q) = [v \in D |-> IF v = w THEN [item |-> item, pos |-> ground[w].pos] ELSE ground[v]]
    BY DEF Requantified, Placed, item
  <2>2. QED
    BY <2>1 DEF ItemsLying
<1>4. b \in [D -> Items]
  <2>1. b = [e \in D |-> b[e]]
    BY <1>3 DEF ItemsLying
  <2> HIDE DEF a, b, D, item
  <2>2. \A e \in D : b[e] \in Items
    BY <1>1, <1>2, <1>3
  <2>3. QED
    BY <2>1, <2>2
<1> HIDE DEF a, b, D, item
<1>5. a \in [D -> Items \cup {NoItem}] /\ b \in [D -> Items \cup {NoItem}] /\ \A e \in D \ {w} : a[e] = b[e]
  BY <1>1, <1>3, <1>4
<1>6. UnitCount(b, j) = UnitCount(a, j) - Quantity(a[w], j) + Quantity(b[w], j)
  BY <1>1, <1>5, OnePlaceDiffers
<1>7. Quantity(item, j) = IF ground[w].item.kind = j THEN q ELSE 0
  BY <1>2, EquipAssumption DEF Quantity
<1>8. QED
  BY <1>1, <1>3, <1>6, <1>7 DEF a, b

\* What is worn when slot s changes.
LEMMA WornUnits ==
  ASSUME PlayInv, NEW s \in Slots, NEW x \in Items \cup {NoItem}, NEW j \in Kinds
  PROVE  UnitCount([equipped EXCEPT ![s] = x], j)
           = UnitCount(equipped, j) - Quantity(equipped[s], j) + Quantity(x, j)
<1>1. equipped \in [Slots -> Items \cup {NoItem}] /\ IsFiniteSet(Slots)
  BY ContentAssumption DEF PlayInv, IInv, TypeOK
<1> DEFINE b == [equipped EXCEPT ![s] = x]
<1>2. b \in [Slots -> Items \cup {NoItem}] /\ b[s] = x /\ \A e \in Slots \ {s} : equipped[e] = b[e]
  BY <1>1
<1> HIDE DEF b
<1>3. UnitCount(b, j) = UnitCount(equipped, j) - Quantity(equipped[s], j) + Quantity(b[s], j)
  BY <1>1, <1>2, OnePlaceDiffers
<1>4. QED
  BY <1>2, <1>3 DEF b

\* Every operation moves units of one kind along one route.
LEMMA PickupIsTransfer ==
  ASSUME PlayInv, PlayInv', NEW w \in WorldIds, Pickup(w)
  PROVE  Ledger!Next
<1> DEFINE item == ground[w].item
           k == item.kind
           route == <<"world", "carried">>
<1>1. w \in DOMAIN ground /\ UNCHANGED equipped
  BY DEF Pickup
<1>2. PICK r \in AddItem(inv, item, Capacity) :
        /\ r.remainder < item.qty /\ inv' = r.items
        /\ ground' = IF r.remainder > 0 THEN Requantified(w, r.remainder) ELSE Taken(w)
  BY DEF Pickup
<1> DEFINE n == item.qty - r.remainder
<1>3. item \in Items /\ item.qty \in Nat /\ k \in Kinds /\ item.qty <= MaxStack[k] /\ item # NoItem
      /\ MaxStack[k] \in Nat
  <2>1. item \in Items
    BY <1>1, GroundFacts
  <2> HIDE DEF item
  <2>2. QED
    BY <2>1, ItemFields, EquipAssumption
<1>4. inv \in Seq(Items) /\ Len(inv) <= Capacity /\ Capacity \in Nat
  BY StarterAssumption DEF PlayInv, IInv, TypeOK
<1> HIDE DEF item
<1>5. r.remainder \in Nat /\ r.remainder < item.qty
  BY <1>2, <1>3, <1>4, AddItemResult
<1>6. n \in 1..MaxStack[k]
  BY <1>3, <1>5
<1>7. ASSUME NEW j \in Kinds
      PROVE  UnitCount(inv', j) = UnitCount(inv, j) + Shift(j, "carried", k, route, n)
  <2>1. UnitCount(inv', j) = UnitCount(inv, j) + (IF k = j THEN n ELSE 0)
    BY <1>2, <1>3, <1>4, AddItemUnits
  <2>2. QED
    BY <2>1 DEF Shift
<1>8. ASSUME NEW j \in Kinds
      PROVE  UnitCount(ItemsLying(ground'), j)
               = UnitCount(ItemsLying(ground), j) + Shift(j, "world", k, route, n)
  <2>1. UnitCount(ItemsLying(ground), j) \in Nat
    BY QuantitiesType DEF Quantities, QuantitiesOf
  <2>2. Quantity(item, j) = IF k = j THEN item.qty ELSE 0
    BY <1>3 DEF Quantity
  <2>3. CASE r.remainder > 0
    <3>1. r.remainder <= MaxStack[ground[w].item.kind]
      BY <1>3, <1>5 DEF item
    <3>2. UnitCount(ItemsLying(Requantified(w, r.remainder)), j)
            = UnitCount(ItemsLying(ground), j) - Quantity(item, j) + (IF k = j THEN r.remainder ELSE 0)
      BY <1>1, <1>5, <2>3, <3>1, RequantifiedUnits DEF item
    <3>3. ground' = Requantified(w, r.remainder)
      BY <1>2, <2>3
    <3>4. QED
      BY <1>3, <1>5, <2>1, <2>2, <3>2, <3>3 DEF Shift
  <2>4. CASE r.remainder = 0
    <3>1. UnitCount(ItemsLying(ground), j) = UnitCount(ItemsLying(Taken(w)), j) + Quantity(item, j)
      BY <1>1, TakenUnits DEF item
    <3>2. ground' = Taken(w)
      BY <1>2, <2>4
    <3>3. UnitCount(ItemsLying(ground'), j) \in Nat
      BY QuantitiesTypeThen DEF Quantities, QuantitiesOf
    <3>4. QED
      BY <1>3, <2>1, <2>2, <2>4, <3>1, <3>2, <3>3 DEF Shift
  <2>5. QED
    BY <1>5, <2>3, <2>4
<1>9. ASSUME NEW j \in Kinds
      PROVE  UnitCount(equipped', j) = UnitCount(equipped, j) + Shift(j, "worn", k, route, n)
  <2>1. UnitCount(equipped, j) \in Nat
    BY QuantitiesType DEF Quantities, QuantitiesOf
  <2>2. QED
    BY <1>1, <2>1 DEF Shift
<1>10. route \in Ledger!Routes
  BY DEF Ledger!Routes
<1> HIDE DEF k, n, route
<1>11. QED
  BY <1>3, <1>6, <1>7, <1>8, <1>9, <1>10, ShiftIsTransfer DEF k

LEMMA CarriedFacts ==
  ASSUME PlayInv, NEW n \in 1..Len(inv)
  PROVE  /\ inv \in Seq(Items) /\ inv[n] \in Items /\ inv[n] # NoItem
         /\ inv[n].kind \in Kinds /\ inv[n].qty \in 1..MaxStack[inv[n].kind]
         /\ DefaultId[inv[n].id] \in WorldIds
<1>1. inv \in Seq(Items)
  BY DEF PlayInv, IInv, TypeOK
<1>2. inv[n] \in Items
  BY <1>1
<1>3. inv[n].id \in ItemIds /\ inv[n].kind \in Kinds /\ inv[n].qty \in Nat /\ inv[n].qty > 0
      /\ MaxStack[inv[n].kind] \in Nat /\ inv[n].qty <= MaxStack[inv[n].kind]
  BY <1>2, ItemFields
<1>4. QED
  BY <1>1, <1>2, <1>3, EquipAssumption, DefaultIdAssumption

LEMMA CarriedFalls ==
  ASSUME PlayInv, NEW n \in 1..Len(inv), NEW j \in Kinds
  PROVE  /\ UnitCount(inv, j) = UnitCount(WithoutSlot(inv, n), j) + Quantity(inv[n], j)
         /\ Quantity(inv[n], j) = IF inv[n].kind = j THEN inv[n].qty ELSE 0
<1>1. inv \in Seq(Items) /\ inv[n] # NoItem
  BY CarriedFacts
<1>2. QED
  BY <1>1, WithoutSlotUnits DEF Quantity

LEMMA DropIsTransfer ==
  ASSUME PlayInv, PlayInv', NEW m \in 1..Capacity, NEW pos \in Positions, Drop(m, pos)
  PROVE  Ledger!Next
<1> DEFINE item == inv[m]
           k == item.kind
           n == item.qty
           w == DefaultId[item.id]
           route == <<"carried", "world">>
<1>1. /\ m \in 1..Len(inv) /\ w \notin DOMAIN ground /\ ground' = Placed(w, item, pos)
      /\ inv' = WithoutSlot(inv, m) /\ UNCHANGED equipped
  BY DEF Drop, CanPlace
<1>2. item \in Items /\ k \in Kinds /\ n \in 1..MaxStack[k] /\ n \in Nat
  BY <1>1, CarriedFacts
<1>3. ASSUME NEW j \in Kinds
      PROVE  /\ UnitCount(inv', j) = UnitCount(inv, j) + Shift(j, "carried", k, route, n)
             /\ UnitCount(equipped', j) = UnitCount(equipped, j) + Shift(j, "worn", k, route, n)
             /\ UnitCount(ItemsLying(ground'), j)
                  = UnitCount(ItemsLying(ground), j) + Shift(j, "world", k, route, n)
  <2>1. /\ UnitCount(inv, j) \in Nat /\ UnitCount(equipped, j) \in Nat
        /\ UnitCount(ItemsLying(ground), j) \in Nat
    BY QuantitiesType DEF Quantities, QuantitiesOf
  <2>2. UnitCount(inv', j) \in Nat
    BY QuantitiesTypeThen DEF Quantities, QuantitiesOf
  <2>3. Quantity(item, j) = IF k = j THEN n ELSE 0
    BY <1>1, CarriedFalls
  <2>4. UnitCount(inv, j) = UnitCount(inv', j) + Quantity(item, j)
    BY <1>1, CarriedFalls
  <2> HIDE DEF item, w
  <2>5. UnitCount(ItemsLying(ground'), j) = UnitCount(ItemsLying(ground), j) + Quantity(item, j)
    BY <1>1, <1>2, PlacedUnits
  <2>6. UnitCount(inv', j) = UnitCount(inv, j) + Shift(j, "carried", k, route, n)
    BY <1>2, <2>1, <2>2, <2>3, <2>4 DEF Shift
  <2>7. UnitCount(equipped', j) = UnitCount(equipped, j) + Shift(j, "worn", k, route, n)
    BY <1>1, <2>1 DEF Shift
  <2>8. QED
    BY <1>2, <2>1, <2>3, <2>5, <2>6, <2>7 DEF Shift
<1>4. route \in Ledger!Routes
  BY DEF Ledger!Routes
<1> HIDE DEF item, k, n, route
<1>5. QED
  BY <1>2, <1>3, <1>4, ShiftIsTransfer

LEMMA EquipIsTransfer ==
  ASSUME PlayInv, PlayInv', NEW m \in 1..Capacity, NEW s \in Slots, Equip(m, s)
  PROVE  Ledger!Next
<1> DEFINE item == inv[m]
           k == item.kind
           n == item.qty
           route == <<"carried", "worn">>
<1>1. /\ m \in 1..Len(inv) /\ equipped[s] = NoItem /\ equipped' = [equipped EXCEPT ![s] = item]
      /\ inv' = WithoutSlot(inv, m) /\ UNCHANGED ground
  BY DEF Equip, CanEquip
<1>2. item \in Items /\ k \in Kinds /\ n \in 1..MaxStack[k] /\ n \in Nat
  BY <1>1, CarriedFacts
<1>3. ASSUME NEW j \in Kinds
      PROVE  /\ UnitCount(inv', j) = UnitCount(inv, j) + Shift(j, "carried", k, route, n)
             /\ UnitCount(equipped', j) = UnitCount(equipped, j) + Shift(j, "worn", k, route, n)
             /\ UnitCount(ItemsLying(ground'), j)
                  = UnitCount(ItemsLying(ground), j) + Shift(j, "world", k, route, n)
  <2>1. /\ UnitCount(inv, j) \in Nat /\ UnitCount(equipped, j) \in Nat
        /\ UnitCount(ItemsLying(ground), j) \in Nat
    BY QuantitiesType DEF Quantities, QuantitiesOf
  <2>2. UnitCount(inv', j) \in Nat
    BY QuantitiesTypeThen DEF Quantities, QuantitiesOf
  <2>3. Quantity(item, j) = IF k = j THEN n ELSE 0
    BY <1>1, CarriedFalls
  <2>4. UnitCount(inv, j) = UnitCount(inv', j) + Quantity(item, j)
    BY <1>1, CarriedFalls
  <2> HIDE DEF item
  <2>5. Quantity(equipped[s], j) = 0
    BY <1>1 DEF Quantity
  <2>6. UnitCount([equipped EXCEPT ![s] = item], j)
          = UnitCount(equipped, j) - Quantity(equipped[s], j) + Quantity(item, j)
    BY <1>2, WornUnits
  <2>7. UnitCount(inv', j) = UnitCount(inv, j) + Shift(j, "carried", k, route, n)
    BY <1>2, <2>1, <2>2, <2>3, <2>4 DEF Shift
  <2>8. UnitCount(equipped', j) = UnitCount(equipped, j) + Shift(j, "worn", k, route, n)
    BY <1>1, <1>2, <2>1, <2>3, <2>5, <2>6 DEF Shift
  <2>9. QED
    BY <1>1, <2>1, <2>7, <2>8 DEF Shift
<1>4. route \in Ledger!Routes
  BY DEF Ledger!Routes
<1> HIDE DEF item, k, n, route
<1>5. QED
  BY <1>2, <1>3, <1>4, ShiftIsTransfer

\* What is worn cannot be stacked, so the inventory takes it whole or leaves
\* it, and a refusal changes no quantity.
LEMMA UnequipIsTransfer ==
  ASSUME PlayInv, PlayInv', NEW s \in Slots, Unequip(s)
  PROVE  Ledger!Next \/ UNCHANGED [k \in Kinds |-> Quantities(k)]
<1> DEFINE item == equipped[s]
           k == item.kind
           n == item.qty
           route == <<"worn", "carried">>
<1>1. item # NoItem /\ UNCHANGED ground
  BY DEF Unequip
<1>2. PICK r \in AddItem(inv, item, Capacity) :
        /\ inv' = r.items
        /\ equipped' = IF r.remainder = 0 THEN [equipped EXCEPT ![s] = NoItem] ELSE equipped
  BY DEF Unequip
<1>3. item \in Items /\ SlotsOf[k] # {}
  BY <1>1 DEF PlayInv, IInv, TypeOK, Fits, InUse
<1>4. k \in Kinds /\ n = 1 /\ MaxStack[k] = 1
  <2> HIDE DEF item
  <2>1. k \in Kinds /\ n \in Nat /\ n > 0 /\ MaxStack[k] \in Nat /\ n <= MaxStack[k]
    BY <1>3, ItemFields
  <2>2. ~(MaxStack[k] > 1)
    BY <1>3, <2>1, EquipAssumption DEF Stackable
  <2>3. QED
    BY <2>1, <2>2
<1>5. inv \in Seq(Items) /\ Len(inv) <= Capacity /\ Capacity \in Nat
  BY StarterAssumption DEF PlayInv, IInv, TypeOK
<1>6. /\ r.remainder \in {0, 1}
      /\ \A j \in Kinds : UnitCount(inv', j) = UnitCount(inv, j) + (IF k = j THEN n - r.remainder ELSE 0)
  <2> HIDE DEF item
  <2>1. r.remainder \in 0..item.qty
    BY <1>2, <1>3, <1>5, AddItemResult
  <2>2. \A j \in Kinds : UnitCount(r.items, j) = UnitCount(inv, j) + (IF k = j THEN n - r.remainder ELSE 0)
    BY <1>2, <1>3, <1>5, AddItemUnits
  <2>3. QED
    BY <1>2, <1>4, <2>1, <2>2
<1>7. CASE r.remainder = 1
  <2>1. ASSUME NEW j \in Kinds PROVE Quantities(j)' = Quantities(j)
    <3>1. UnitCount(inv, j) \in Nat
      BY QuantitiesType DEF Quantities, QuantitiesOf
    <3>2. UnitCount(inv', j) = UnitCount(inv, j)
      BY <1>4, <1>6, <1>7, <3>1
    <3>3. equipped' = equipped
      BY <1>2, <1>7
    <3>4. QED
      BY <1>1, <3>2, <3>3 DEF Quantities, QuantitiesOf
  <2>2. QED
    BY <2>1
<1>8. CASE r.remainder = 0
  <2>1. ASSUME NEW j \in Kinds
        PROVE  /\ UnitCount(inv', j) = UnitCount(inv, j) + Shift(j, "carried", k, route, n)
               /\ UnitCount(equipped', j) = UnitCount(equipped, j) + Shift(j, "worn", k, route, n)
               /\ UnitCount(ItemsLying(ground'), j)
                    = UnitCount(ItemsLying(ground), j) + Shift(j, "world", k, route, n)
    <3>1. /\ UnitCount(inv, j) \in Nat /\ UnitCount(equipped, j) \in Nat
          /\ UnitCount(ItemsLying(ground), j) \in Nat
      BY QuantitiesType DEF Quantities, QuantitiesOf
    <3>2. UnitCount([equipped EXCEPT ![s] = NoItem], j)
            = UnitCount(equipped, j) - Quantity(equipped[s], j) + Quantity(NoItem, j)
      BY WornUnits
    <3>3. Quantity(NoItem, j) = 0 /\ Quantity(item, j) = IF k = j THEN n ELSE 0
      BY <1>1 DEF Quantity
    <3>4. UnitCount(inv', j) = UnitCount(inv, j) + Shift(j, "carried", k, route, n)
      BY <1>4, <1>6, <1>8 DEF Shift
    <3>5. UnitCount(equipped', j) = UnitCount(equipped, j) + Shift(j, "worn", k, route, n)
      BY <1>2, <1>4, <1>8, <3>1, <3>2, <3>3 DEF Shift
    <3>6. QED
      BY <1>1, <3>1, <3>4, <3>5 DEF Shift
  <2>2. route \in Ledger!Routes /\ n \in 1..MaxStack[k]
    BY <1>4 DEF Ledger!Routes
  <2> HIDE DEF item, k, n, route
  <2>3. QED
    BY <1>4, <2>1, <2>2, ShiftIsTransfer
<1>9. QED
  BY <1>6, <1>7, <1>8

LEMMA InitOpensLedger == Init => Ledger!Init
BY DEF Init, Quantities, AuthoredQuantities, Ledger!Init

LEMMA InitOpensLedgerThen == (Init => Ledger!Init)'
<1>1. Init => Ledger!Init
  BY InitOpensLedger
<1>2. QED
  BY <1>1, PTL

LEMMA StepIsTransfer ==
  PlayInv /\ PlayInv' /\ [Next]_vars => [Ledger!Next]_([k \in Kinds |-> Quantities(k)])
<1>1. SUFFICES ASSUME PlayInv, PlayInv', [Next]_vars
               PROVE  Ledger!Next \/ UNCHANGED [k \in Kinds |-> Quantities(k)]
  OBVIOUS
<1>2. ASSUME NEW w \in WorldIds, Pickup(w) PROVE Ledger!Next
  BY <1>1, <1>2, PickupIsTransfer
<1>3. ASSUME NEW n \in 1..Capacity, NEW pos \in Positions, Drop(n, pos) PROVE Ledger!Next
  BY <1>1, <1>3, DropIsTransfer
<1>4. ASSUME NEW n \in 1..Capacity, NEW s \in Slots, Equip(n, s) PROVE Ledger!Next
  BY <1>1, <1>4, EquipIsTransfer
<1>5. ASSUME NEW s \in Slots, Unequip(s)
      PROVE  Ledger!Next \/ UNCHANGED [k \in Kinds |-> Quantities(k)]
  BY <1>1, <1>5, UnequipIsTransfer
<1>6. CASE UNCHANGED vars
  <2>1. UNCHANGED [k \in Kinds |-> Quantities(k)]
    BY <1>6 DEF vars, Quantities, QuantitiesOf
  <2>2. QED
    BY <2>1
<1>7. QED
  BY <1>1, <1>2, <1>3, <1>4, <1>5, <1>6 DEF Next

LEMMA CaptureIsASnapshot ==
  ASSUME PlayInv
  PROVE  Capture \in Snapshots
<1>1. /\ inv \in Seq(Items) /\ equipped \in [Slots -> Items \cup {NoItem}]
      /\ ground \in [DOMAIN ground -> WorldItems] /\ DOMAIN ground \subseteq WorldIds
  BY DEF PlayInv, IInv, TypeOK
<1>2. Capture.equipment \in [InUse -> Items] /\ InUse \in SUBSET Slots
  BY <1>1, CaptureFields DEF InUse
<1>3. PICK changed \in SUBSET DOMAIN Placements :
        Capture.overrides = [p \in changed |-> IF p \in DOMAIN ground THEN Override(ground[p].item) ELSE Removed]
  BY CaptureFields
<1>4. \A p \in changed : Capture.overrides[p] \in Overrides
  <2>1. TAKE p \in changed
  <2>2. CASE p \in DOMAIN ground
    <3>1. ground[p].item \in Items
      BY <1>1, <2>2 DEF WorldItems
    <3>2. ground[p].item.qty \in Nat /\ ground[p].item.kind \in Kinds
      BY <3>1, MaxStackAssumption DEF Items
    <3>3. QED
      BY <1>3, <2>2, <3>2 DEF Override, Overrides
  <2>3. CASE p \notin DOMAIN ground
    BY <1>3, <2>3 DEF Overrides
  <2>4. QED
    BY <2>2, <2>3
<1>5. Capture.overrides \in [changed -> Overrides]
  BY <1>3, <1>4
<1>6. Capture.dynamic \in [DOMAIN ground \ DOMAIN Placements -> WorldItems]
  BY <1>1, CaptureFields
<1>7. Capture = [inventory |-> Capture.inventory, equipment |-> Capture.equipment,
                 overrides |-> Capture.overrides, dynamic |-> Capture.dynamic]
  BY DEF Capture
<1> HIDE DEF Capture
<1>8. Capture.inventory \in Seq(Items)
  BY <1>1, CaptureFields
<1>9. Capture.equipment \in UNION { [S -> Items] : S \in SUBSET Slots }
  BY <1>2
<1>10. Capture.overrides \in UNION { [P -> Overrides] : P \in SUBSET DOMAIN Placements }
  BY <1>3, <1>5
<1>11. Capture.dynamic \in UNION { [W -> WorldItems] : W \in SUBSET WorldIds }
  BY <1>1, <1>6
<1>12. QED
  BY <1>7, <1>8, <1>9, <1>10, <1>11 DEF Snapshots

\* What the file of a saved session says is what that session has.
LEMMA CaptureQuantities ==
  ASSUME PlayInv
  PROVE  FileQuantities(Capture) = [k \in Kinds |-> Quantities(k)]
<1>1. Capture.inventory = inv /\ RestoredEquipment(Capture) = equipped
  BY CaptureFields, EquipmentComesBack
<1>2. ItemsLying(RestoredGround(Capture)) = ItemsLying(ground)
  <2>1. DOMAIN RestoredGround(Capture) = DOMAIN ground
    BY GroundComesBack
  <2>2. \A w \in DOMAIN ground : RestoredGround(Capture)[w].item = ground[w].item
    BY GroundComesBack
  <2>3. QED
    BY <2>1, <2>2 DEF ItemsLying
<1>3. QED
  BY <1>1, <1>2 DEF FileQuantities, Quantities, QuantitiesOf

\* What a load restores is what the file says.
LEMMA LoadedQuantities ==
  ASSUME NEW data, Kept(data), SessionFrom(data)
  PROVE  [k \in Kinds |-> Quantities(k)]' = FileQuantities(data)
BY DEF Kept, SessionFrom, FileQuantities, Quantities, QuantitiesOf

\* docs/items.md: "overflow is never discarded". Every pickup, partial
\* pickup, drop, equip and unequip moves units of one kind between two
\* owners and changes no other quantity, and a load brings back the
\* quantities that were saved.
LEMMA SavedStepIsLedgerStep ==
  ASSUME SavedInv, SavedInv', [SavedNext]_savedVars
  PROVE  \/ Ledger!Move \/ Ledger!Keep \/ Ledger!Return \/ Ledger!Reopen
         \/ UNCHANGED <<[k \in Kinds |-> Quantities(k)], file>>
<1> DEFINE h == [k \in Kinds |-> Quantities(k)]
<1>1. PlayInv /\ PlayInv' /\ (file # NoSave => Kept(file))
  BY DEF SavedInv
<1>2. CASE Play
  <2>1. Ledger!Next \/ UNCHANGED h
    BY <1>1, <1>2, StepIsTransfer DEF Play
  <2>2. QED
    BY <1>2, <2>1 DEF Play, Ledger!Move
<1>3. CASE Save
  <2>1. UNCHANGED vars /\ file' = Capture
    BY <1>3 DEF Save
  <2>2. UNCHANGED h
    BY <2>1 DEF vars, Quantities
  <2>3. Capture # NoSave
    BY <1>1, CaptureIsASnapshot, NoSaveAssumption
  <2>4. QED
    BY <1>1, <2>1, <2>2, <2>3, CaptureQuantities DEF Ledger!Keep
<1>4. CASE Load
  BY <1>1, <1>4, LoadedQuantities DEF Load, Ledger!Return
<1>5. ASSUME FreshSession, file' = NoSave PROVE Ledger!Reopen
  <2>1. Init'
    BY <1>5 DEF FreshSession, Init
  <2>2. Ledger!Init'
    BY <2>1, InitOpensLedgerThen
  <2>3. QED
    BY <1>5, <2>2 DEF Ledger!Init, Ledger!Reopen
<1>6. CASE Reset
  BY <1>5, <1>6 DEF Reset
<1>7. CASE Restart
  <2>1. CASE file # NoSave
    <3>1. SessionFrom(file) /\ file' = file
      BY <1>1, <1>7, <2>1 DEF Restart, Kept
    <3>2. QED
      BY <1>1, <2>1, <3>1, LoadedQuantities DEF Ledger!Return
  <2>2. CASE file = NoSave
    BY <1>5, <1>7, <2>2 DEF Restart
  <2>3. QED
    BY <2>1, <2>2
<1>8. CASE UNCHANGED savedVars
  BY <1>8 DEF savedVars, Quantities
<1>9. QED
  BY <1>2, <1>3, <1>4, <1>6, <1>7, <1>8 DEF SavedNext

THEOREM QuantitiesAreConserved == SavedSpec => ImplementsLedger
<1>1. SavedInit => Ledger!KeepingInit
  BY InitOpensLedger DEF SavedInit, Ledger!KeepingInit
<1>2. SavedInv /\ SavedInv' /\ [SavedNext]_savedVars =>
        [Ledger!Move \/ Ledger!Keep \/ Ledger!Return \/ Ledger!Reopen]_<<[k \in Kinds |-> Quantities(k)], file>>
  BY SavedStepIsLedgerStep
<1>3. QED
  BY <1>1, <1>2, SavedHolds, PTL DEF SavedSpec, ImplementsLedger, Ledger!KeepingSpec
=============================================================================
