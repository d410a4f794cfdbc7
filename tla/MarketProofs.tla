---------------------------- MODULE MarketProofs ----------------------------
(***************************************************************************)
(* The market for any players, prices, fee and number of results under     *)
(* way: a step moves goods and gold between two players at the price of an *)
(* offer, or costs one player something, and nothing else.                 *)
(***************************************************************************)
EXTENDS Market, TLAPS, FiniteSetTheorems, WellFoundedInduction, SequenceTheorems

-----------------------------------------------------------------------------
(* The sum of a function over a finite set (Functions.tla).                *)
Chosen(s) == CHOOSE x \in s : TRUE

SumOver(f, sum, s) == IF s = {} THEN 0 ELSE f[Chosen(s)] + sum[s \ {Chosen(s)}]

IsSum(f, S, sum) == sum = [s \in SUBSET S |-> SumOver(f, sum, s)]

LEMMA SumUnfolds ==
  ASSUME NEW f, NEW S
  PROVE  SumFunctionOnSet(f, S)
           = (CHOOSE sum : sum = [s \in SUBSET S |-> SumOver(f, sum, s)])[S]
BY DEF SumFunctionOnSet, FoldFunctionOnSet, MapThenFoldSet, Chosen, SumOver

LEMMA ChosenIsElement ==
  ASSUME NEW s, s # {}
  PROVE  Chosen(s) \in s
BY DEF Chosen

LEMMA SubsetInduction ==
  ASSUME NEW S, IsFiniteSet(S), NEW Q,
         \A T \in SUBSET S : (\A U \in SUBSET T : U # T => U \in Q) => T \in Q
  PROVE  \A T \in SUBSET S : T \in Q
<1> DEFINE Bad == { T \in FiniteSubsetsOf(S) : T \notin Q }
<1>1. SUFFICES ASSUME NEW T \in SUBSET S, T \notin Q PROVE FALSE
  OBVIOUS
<1>2. T \in Bad
  BY <1>1, FS_Subset DEF FiniteSubsetsOf
<1>3. PICK M \in Bad : \A y \in Bad : ~ (<<y, M>> \in StrictSubsetOrdering(S))
  <2> HIDE DEF Bad
  <2>1. Bad \subseteq FiniteSubsetsOf(S)
    BY DEF Bad
  <2> QED
    BY <1>2, <2>1, FS_StrictSubsetOrderingWellFounded, WFMin
<1>4. M \in SUBSET S /\ M \notin Q
  BY <1>3 DEF FiniteSubsetsOf
<1>5. ASSUME NEW U \in SUBSET M, U # M
      PROVE  U \in Q
  <2>1. U \in SUBSET S /\ IsFiniteSet(U)
    BY <1>4, FS_Subset
  <2>2. <<U, M>> \in StrictSubsetOrdering(S)
    BY <1>4, <1>5, <2>1 DEF StrictSubsetOrdering
  <2>3. QED
    BY <1>3, <2>1, <2>2 DEF FiniteSubsetsOf
<1>6. QED
  BY <1>4, <1>5

LEMMA NatSetInduction ==
  ASSUME NEW Q, 0 \in Q, \A k \in Nat : k \in Q => k + 1 \in Q
  PROVE  Nat \subseteq Q
<1>1. SUFFICES ASSUME Nat \ Q # {} PROVE FALSE
  OBVIOUS
<1> DEFINE R == {ss \in Nat \X Nat : ss[1] < ss[2]}
<1>2. IsWellFoundedOn(R, Nat)
  BY NatLessThanWellFounded DEF OpToRel
<1>3. PICK m \in Nat \ Q : \A k \in Nat \ Q : <<k, m>> \notin R
  BY <1>1, <1>2, WFMin
<1>4. m - 1 \in Nat /\ <<m - 1, m>> \in R
  BY <1>3
<1>5. m - 1 \in Q
  BY <1>3, <1>4
<1>6. QED
  BY <1>3, <1>4, <1>5

LEMMA SumExists ==
  ASSUME NEW f, NEW S, IsFiniteSet(S)
  PROVE  \E sum : sum = [s \in SUBSET S |-> SumOver(f, sum, s)]
<1> DEFINE Small(k) == { s \in SUBSET S : Cardinality(s) <= k }
           Solved(k) == \E g : g = [s \in Small(k) |-> SumOver(f, g, s)]
           Good == { k \in Nat : Solved(k) }
<1>0. \A s \in SUBSET S : IsFiniteSet(s) /\ Cardinality(s) \in Nat
  BY FS_Subset, FS_CardinalityType
<1>1. Solved(0)
  <2>1. \A s \in Small(0) : s = {}
    BY <1>0, FS_EmptySet
  <2>2. [s \in Small(0) |-> 0] = [s \in Small(0) |-> SumOver(f, [t \in Small(0) |-> 0], s)]
    BY <2>1 DEF SumOver
  <2>3. QED
    BY <2>2
<1>2. ASSUME NEW k \in Nat, Solved(k)
      PROVE  Solved(k + 1)
  <2>1. PICK g : g = [s \in Small(k) |-> SumOver(f, g, s)]
    BY <1>2
  <2> DEFINE h == [s \in Small(k + 1) |-> SumOver(f, g, s)]
  <2>2. \A s \in Small(k) : s \in Small(k + 1) /\ h[s] = g[s]
    BY <1>0, <2>1
  <2>3. ASSUME NEW s \in Small(k + 1)
        PROVE  SumOver(f, g, s) = SumOver(f, h, s)
    <3>1. CASE s = {}
      BY <3>1 DEF SumOver
    <3>2. CASE s # {}
      <4>1. Chosen(s) \in s
        BY <3>2, ChosenIsElement
      <4>2. s \ {Chosen(s)} \in Small(k)
        BY <1>0, <4>1, FS_RemoveElement
      <4>3. h[s \ {Chosen(s)}] = g[s \ {Chosen(s)}]
        BY <2>2, <4>2
      <4>4. QED
        BY <4>3 DEF SumOver
    <3>3. QED
      BY <3>1, <3>2
  <2>4. h = [s \in Small(k + 1) |-> SumOver(f, h, s)]
    BY <2>3
  <2>5. QED
    BY <2>4
<1>3. Cardinality(S) \in Good
  <2>1. 0 \in Good /\ \A k \in Good : k + 1 \in Good
    <3> HIDE DEF Solved
    <3> QED BY <1>1, <1>2
  <2> HIDE DEF Good
  <2>2. Nat \subseteq Good
    BY <2>1, NatSetInduction
  <2>3. QED
    BY <1>0, <2>2
<1>4. Small(Cardinality(S)) = SUBSET S
  BY <1>0, FS_Subset
<1>5. QED
  BY <1>3, <1>4

LEMMA SumUnique ==
  ASSUME NEW f, NEW S, IsFiniteSet(S), NEW T \in SUBSET S,
         NEW sum, IsSum(f, S, sum), NEW sub, IsSum(f, T, sub)
  PROVE  sum[T] = sub[T]
<1> DEFINE Q == { s \in SUBSET T : sum[s] = sub[s] }
<1>1. IsFiniteSet(T)
  BY FS_Subset
<1>2. ASSUME NEW s \in SUBSET T, \A u \in SUBSET s : u # s => u \in Q
      PROVE  s \in Q
  <2>1. sum[s] = SumOver(f, sum, s) /\ sub[s] = SumOver(f, sub, s)
    BY DEF IsSum
  <2>2. CASE s = {}
    BY <2>1, <2>2 DEF SumOver
  <2>3. CASE s # {}
    <3>1. Chosen(s) \in s
      BY <2>3, ChosenIsElement
    <3>2. sum[s \ {Chosen(s)}] = sub[s \ {Chosen(s)}]
      BY <1>2, <3>1
    <3>3. QED
      BY <2>1, <3>2 DEF SumOver
  <2>4. QED
    BY <2>2, <2>3
<1> HIDE DEF Q
<1>3. T \in Q
  BY <1>1, <1>2, SubsetInduction
<1>4. QED
  BY <1>3 DEF Q

LEMMA SumIsOver ==
  ASSUME NEW f, NEW S, IsFiniteSet(S)
  PROVE  \E sum : /\ IsSum(f, S, sum)
                  /\ SumFunctionOnSet(f, S) = sum[S]
                  /\ sum[S] = SumOver(f, sum, S)
<1> DEFINE Sum == CHOOSE sum : sum = [s \in SUBSET S |-> SumOver(f, sum, s)]
<1>1. Sum = [s \in SUBSET S |-> SumOver(f, Sum, s)]
  BY SumExists
<1>2. SumFunctionOnSet(f, S) = Sum[S]
  BY SumUnfolds
<1> HIDE DEF Sum
<1>3. Sum[S] = SumOver(f, Sum, S)
  BY <1>1
<1>4. QED
  BY <1>1, <1>2, <1>3 DEF IsSum

\* The equations of the library's sum.
LEMMA SumEmpty ==
  ASSUME NEW f
  PROVE  SumFunctionOnSet(f, {}) = 0
BY FS_EmptySet, SumIsOver DEF SumOver

LEMMA SumStep ==
  ASSUME NEW f, NEW S, IsFiniteSet(S), S # {}
  PROVE  /\ Chosen(S) \in S
         /\ SumFunctionOnSet(f, S) = f[Chosen(S)] + SumFunctionOnSet(f, S \ {Chosen(S)})
<1> DEFINE T == S \ {Chosen(S)}
<1>1. Chosen(S) \in S /\ T \in SUBSET S /\ IsFiniteSet(T)
  BY ChosenIsElement, FS_RemoveElement
<1> HIDE DEF T
<1>2. PICK sum : IsSum(f, S, sum) /\ SumFunctionOnSet(f, S) = sum[S] /\ sum[S] = SumOver(f, sum, S)
  BY SumIsOver
<1>3. PICK sub : IsSum(f, T, sub) /\ SumFunctionOnSet(f, T) = sub[T]
  BY <1>1, SumIsOver
<1>4. sum[T] = sub[T]
  BY <1>1, <1>2, <1>3, SumUnique
<1>5. QED
  BY <1>1, <1>2, <1>3, <1>4 DEF T, SumOver

LEMMA SumType ==
  ASSUME NEW S, IsFiniteSet(S), NEW f, \A x \in S : f[x] \in Nat
  PROVE  SumFunctionOnSet(f, S) \in Nat
<1> DEFINE Q == { T \in SUBSET S : SumFunctionOnSet(f, T) \in Nat }
<1>1. ASSUME NEW T \in SUBSET S, \A U \in SUBSET T : U # T => U \in Q
      PROVE  T \in Q
  <2>1. CASE T = {}
    BY <2>1, SumEmpty
  <2>2. CASE T # {}
    <3>1. Chosen(T) \in T /\ SumFunctionOnSet(f, T) = f[Chosen(T)] + SumFunctionOnSet(f, T \ {Chosen(T)})
      BY <2>2, FS_Subset, SumStep
    <3>2. T \ {Chosen(T)} \in Q
      BY <1>1, <3>1
    <3>3. QED
      BY <3>1, <3>2
  <2>3. QED
    BY <2>1, <2>2
<1> HIDE DEF Q
<1>2. S \in Q
  BY <1>1, SubsetInduction
<1>3. QED
  BY <1>2 DEF Q

\* Any element can be taken out of a sum.
LEMMA SumAdd ==
  ASSUME NEW S, IsFiniteSet(S), NEW f, \A x \in S : f[x] \in Nat, NEW y \in S
  PROVE  SumFunctionOnSet(f, S) = f[y] + SumFunctionOnSet(f, S \ {y})
<1> DEFINE Sum(T) == SumFunctionOnSet(f, T)
           Q == { T \in SUBSET S : \A x \in T : Sum(T) = f[x] + Sum(T \ {x}) }
<1>0. \A T \in SUBSET S : IsFiniteSet(T) /\ Sum(T) \in Nat
  <2>1. ASSUME NEW T \in SUBSET S
        PROVE  IsFiniteSet(T) /\ Sum(T) \in Nat
    <3>1. IsFiniteSet(T) /\ \A x \in T : f[x] \in Nat
      BY FS_Subset
    <3>2. QED
      BY <3>1, SumType
  <2>2. QED
    BY <2>1
<1>1. ASSUME NEW T \in SUBSET S, \A U \in SUBSET T : U # T => U \in Q
      PROVE  T \in Q
  <2>1. SUFFICES ASSUME NEW x \in T PROVE Sum(T) = f[x] + Sum(T \ {x})
    OBVIOUS
  <2> DEFINE c == Chosen(T)
  <2>2. c \in T /\ Sum(T) = f[c] + Sum(T \ {c})
    BY <1>0, SumStep
  <2>3. CASE x = c
    BY <2>2, <2>3
  <2>4. CASE x # c
    <3> HIDE DEF c
    <3>1. T \ {c} \in Q /\ T \ {x} \in Q
      BY <1>1, <2>2
    <3>2. x \in T \ {c} /\ c \in T \ {x}
      BY <2>2, <2>4
    <3>3. Sum(T \ {c}) = f[x] + Sum((T \ {c}) \ {x}) /\ Sum(T \ {x}) = f[c] + Sum((T \ {x}) \ {c})
      BY <3>1, <3>2
    <3>4. (T \ {c}) \ {x} = (T \ {x}) \ {c}
      OBVIOUS
    <3>5. f[x] \in Nat /\ f[c] \in Nat /\ Sum((T \ {x}) \ {c}) \in Nat
      BY <1>0, <2>2
    <3> HIDE DEF Sum
    <3>6. QED
      BY <2>2, <3>3, <3>4, <3>5
  <2>5. QED
    BY <2>3, <2>4
<1>2. S \in Q
  <2> HIDE DEF Q
  <2> QED BY <1>1, SubsetInduction
<1>3. QED
  BY <1>2

\* A sum grows with its terms.
LEMMA SumLe ==
  ASSUME NEW S, IsFiniteSet(S), NEW f, NEW g,
         \A x \in S : f[x] \in Nat /\ g[x] \in Nat /\ f[x] <= g[x]
  PROVE  SumFunctionOnSet(f, S) <= SumFunctionOnSet(g, S)
<1> DEFINE Q == { T \in SUBSET S : SumFunctionOnSet(f, T) <= SumFunctionOnSet(g, T) }
<1>1. ASSUME NEW T \in SUBSET S, \A U \in SUBSET T : U # T => U \in Q
      PROVE  T \in Q
  <2>1. CASE T = {}
    BY <2>1, SumEmpty
  <2>2. CASE T # {}
    <3> DEFINE R == T \ {Chosen(T)}
    <3>0. IsFiniteSet(T)
      BY FS_Subset
    <3>1. /\ Chosen(T) \in T
          /\ SumFunctionOnSet(f, T) = f[Chosen(T)] + SumFunctionOnSet(f, R)
          /\ SumFunctionOnSet(g, T) = g[Chosen(T)] + SumFunctionOnSet(g, R)
      BY <2>2, <3>0, SumStep
    <3>2. R \in Q /\ IsFiniteSet(R)
      BY <1>1, <3>0, <3>1, FS_RemoveElement
    <3>3. SumFunctionOnSet(f, R) \in Nat /\ SumFunctionOnSet(g, R) \in Nat
      <4> HIDE DEF Q
      <4>1. \A x \in R : f[x] \in Nat /\ g[x] \in Nat
        OBVIOUS
      <4> HIDE DEF R
      <4> QED BY <3>2, <4>1, SumType
    <3> HIDE DEF R
    <3>4. QED
      BY <3>1, <3>2, <3>3
  <2>3. QED
    BY <2>1, <2>2
<1> HIDE DEF Q
<1>2. S \in Q
  BY <1>1, SubsetInduction
<1>3. QED
  BY <1>2 DEF Q

LEMMA SumCong ==
  ASSUME NEW S, IsFiniteSet(S), NEW f, NEW g, \A x \in S : f[x] \in Nat /\ f[x] = g[x]
  PROVE  SumFunctionOnSet(f, S) = SumFunctionOnSet(g, S)
<1>1. SumFunctionOnSet(f, S) \in Nat /\ SumFunctionOnSet(g, S) \in Nat
  <2>1. \A x \in S : g[x] \in Nat
    OBVIOUS
  <2>2. QED
    BY <2>1, SumType
<1>2. SumFunctionOnSet(f, S) <= SumFunctionOnSet(g, S) /\ SumFunctionOnSet(g, S) <= SumFunctionOnSet(f, S)
  BY SumLe
<1>3. QED
  BY <1>1, <1>2

\* The sum over a set is the sum over its parts.
LEMMA SumSplit ==
  ASSUME NEW S, IsFiniteSet(S), NEW f, \A x \in S : f[x] \in Nat, NEW T \in SUBSET S
  PROVE  SumFunctionOnSet(f, S) = SumFunctionOnSet(f, T) + SumFunctionOnSet(f, S \ T)
<1> DEFINE Sum(U) == SumFunctionOnSet(f, U)
           Q == { U \in SUBSET T : Sum(S) = Sum(U) + Sum(S \ U) }
<1>0. \A U \in SUBSET S : IsFiniteSet(U) /\ Sum(U) \in Nat
  <2>1. ASSUME NEW U \in SUBSET S
        PROVE  IsFiniteSet(U) /\ Sum(U) \in Nat
    <3>1. IsFiniteSet(U) /\ \A x \in U : f[x] \in Nat
      BY FS_Subset
    <3>2. QED
      BY <3>1, SumType
  <2>2. QED
    BY <2>1
<1>1. ASSUME NEW U \in SUBSET T, \A V \in SUBSET U : V # U => V \in Q
      PROVE  U \in Q
  <2>1. CASE U = {}
    <3>1. S \ U = S /\ Sum(U) = 0 /\ Sum(S) \in Nat
      BY <1>0, <2>1, SumEmpty
    <3>2. QED
      BY <3>1
  <2>2. CASE U # {}
    <3> DEFINE c == Chosen(U)
               V == U \ {c}
    <3>1. c \in U /\ Sum(U) = f[c] + Sum(V)
      BY <1>0, <2>2, SumStep
    <3>2. V \in Q
      BY <1>1, <3>1
    <3>3. Sum(S \ V) = f[c] + Sum((S \ V) \ {c})
      <4>1. IsFiniteSet(S \ V) /\ c \in S \ V /\ \A x \in S \ V : f[x] \in Nat
        BY <1>0, <3>1
      <4> HIDE DEF c, V
      <4>2. QED
        BY <4>1, SumAdd
    <3>4. (S \ V) \ {c} = S \ U
      BY <3>1
    <3>5. f[c] \in Nat /\ Sum(V) \in Nat /\ Sum(S \ U) \in Nat
      BY <1>0, <3>1
    <3>6. Sum(S) = Sum(V) + Sum(S \ V)
      BY <3>2
    <3> HIDE DEF Sum, c, V
    <3>7. QED
      BY <3>1, <3>3, <3>4, <3>5, <3>6
  <2>3. QED
    BY <2>1, <2>2
<1>2. T \in Q
  <2>1. IsFiniteSet(T)
    BY FS_Subset
  <2> HIDE DEF Q
  <2> QED BY <1>1, <2>1, SubsetInduction
<1>3. QED
  BY <1>2

-----------------------------------------------------------------------------
(* The inductive invariant: a row under way tells owner, side and worth of *)
(* an offer that is still listed as they are.  Ids of rows under way are   *)
(* not given again, and such an offer is not accepted in part.             *)
Row == [owner : Player, side : {"sell", "buy"}, amount : Nat \ {0}, price : Prices, old : BOOLEAN]

Tables == UNION {[D -> Row] : D \in SUBSET Id}

TypeOK ==
    /\ gold \in [Player -> Nat] /\ stash \in [Player -> Nat] /\ locker \in [Player -> Nat]
    /\ offers \in Tables
    /\ batches \in Seq(Tables)
    /\ \A k \in 1 .. Len(batches) : DOMAIN batches[k] # {}

Agrees(row, offer) ==
    row.owner = offer.owner /\ row.side = offer.side /\ Worth(row) = Worth(offer)

RowsCurrent ==
    \A k \in 1 .. Len(batches) : \A id \in DOMAIN batches[k] \cap Listed :
        Agrees(batches[k][id], offers[id])

IInv == TypeOK /\ RowsCurrent

-----------------------------------------------------------------------------
(* Tables of offers and what they are worth.                               *)
LEMMA Tabled ==
  ASSUME NEW t
  PROVE  t \in Tables <=> /\ DOMAIN t \subseteq Id
                          /\ t = [id \in DOMAIN t |-> t[id]]
                          /\ \A id \in DOMAIN t : t[id] \in Row
BY DEF Tables

LEMMA WorthType ==
  ASSUME NEW row \in Row
  PROVE  Worth(row) \in Nat
<1>1. row.amount \in Nat /\ row.price \in Nat
  BY MarketAssumption DEF Row
<1>2. row.amount * row.price \in Nat
  BY <1>1
<1>3. QED
  BY <1>1, <1>2 DEF Worth

LEMMA TableFinite ==
  ASSUME NEW t \in Tables, NEW ids \in SUBSET (DOMAIN t)
  PROVE  IsFiniteSet(ids)
BY MarketAssumption, Tabled, FS_Subset

LEMMA WorthOfType ==
  ASSUME NEW t \in Tables, NEW ids \in SUBSET (DOMAIN t)
  PROVE  WorthOf(t, ids) \in Nat
<1> DEFINE f == [id \in DOMAIN t |-> Worth(t[id])]
<1>1. \A id \in ids : f[id] \in Nat
  BY Tabled, WorthType
<1> HIDE DEF f
<1>2. SumFunctionOnSet(f, ids) \in Nat
  BY <1>1, TableFinite, SumType
<1>3. QED
  BY <1>2 DEF WorthOf, f

LEMMA WorthOfEmpty ==
  ASSUME NEW t
  PROVE  WorthOf(t, {}) = 0
BY SumEmpty DEF WorthOf

LEMMA WorthOfAdd ==
  ASSUME NEW t \in Tables, NEW ids \in SUBSET (DOMAIN t), NEW id \in ids
  PROVE  WorthOf(t, ids) = Worth(t[id]) + WorthOf(t, ids \ {id})
<1> DEFINE f == [i \in DOMAIN t |-> Worth(t[i])]
<1>1. f[id] = Worth(t[id]) /\ \A i \in ids : f[i] \in Nat
  BY Tabled, WorthType
<1> HIDE DEF f
<1>2. SumFunctionOnSet(f, ids) = f[id] + SumFunctionOnSet(f, ids \ {id})
  BY <1>1, TableFinite, SumAdd
<1>3. QED
  BY <1>1, <1>2 DEF WorthOf, f

LEMMA WorthOfSplit ==
  ASSUME NEW t \in Tables, NEW ids \in SUBSET (DOMAIN t), NEW part \in SUBSET ids
  PROVE  WorthOf(t, ids) = WorthOf(t, part) + WorthOf(t, ids \ part)
<1> DEFINE f == [i \in DOMAIN t |-> Worth(t[i])]
<1>1. \A i \in ids : f[i] \in Nat
  BY Tabled, WorthType
<1> HIDE DEF f
<1>2. SumFunctionOnSet(f, ids) = SumFunctionOnSet(f, part) + SumFunctionOnSet(f, ids \ part)
  BY <1>1, TableFinite, SumSplit
<1>3. QED
  BY <1>2 DEF WorthOf, f

LEMMA WorthOfCong ==
  ASSUME NEW t \in Tables, NEW u \in Tables, NEW ids \in SUBSET (DOMAIN t), ids \subseteq DOMAIN u,
         \A id \in ids : Worth(t[id]) = Worth(u[id])
  PROVE  WorthOf(t, ids) = WorthOf(u, ids)
<1> DEFINE f == [i \in DOMAIN t |-> Worth(t[i])]
           g == [i \in DOMAIN u |-> Worth(u[i])]
<1>1. \A i \in ids : f[i] \in Nat /\ f[i] = g[i]
  BY Tabled, WorthType
<1> HIDE DEF f, g
<1>2. SumFunctionOnSet(f, ids) = SumFunctionOnSet(g, ids)
  BY <1>1, TableFinite, SumCong
<1>3. QED
  BY <1>2 DEF WorthOf, f, g

\* What is kept for a player in table t, and the share of offer id in it.
KeptIn(t, p, side) == WorthOf(t, OffersBy(t, p, side))

Share(t, id, p, side) == IF id \in OffersBy(t, p, side) THEN Worth(t[id]) ELSE 0

LEMMA KeptInType ==
  ASSUME NEW t \in Tables, NEW p, NEW side
  PROVE  KeptIn(t, p, side) \in Nat
<1>1. OffersBy(t, p, side) \in SUBSET (DOMAIN t)
  BY DEF OffersBy
<1>2. QED
  BY <1>1, WorthOfType DEF KeptIn

LEMMA KeptInShare ==
  ASSUME NEW t \in Tables, NEW p, NEW side, NEW id
  PROVE  /\ Share(t, id, p, side) \in Nat
         /\ WorthOf(t, OffersBy(t, p, side) \ {id}) \in Nat
         /\ KeptIn(t, p, side) = Share(t, id, p, side) + WorthOf(t, OffersBy(t, p, side) \ {id})
<1>1. OffersBy(t, p, side) \in SUBSET (DOMAIN t) /\ OffersBy(t, p, side) \ {id} \in SUBSET (DOMAIN t)
  BY DEF OffersBy
<1>2. WorthOf(t, OffersBy(t, p, side) \ {id}) \in Nat
  BY <1>1, WorthOfType
<1>3. CASE id \in OffersBy(t, p, side)
  <2>1. Share(t, id, p, side) = Worth(t[id]) /\ Worth(t[id]) \in Nat
    BY <1>1, <1>3, Tabled, WorthType DEF Share
  <2>2. QED
    BY <1>1, <1>2, <1>3, <2>1, WorthOfAdd DEF KeptIn
<1>4. CASE id \notin OffersBy(t, p, side)
  <2>1. OffersBy(t, p, side) \ {id} = OffersBy(t, p, side) /\ Share(t, id, p, side) = 0
    BY <1>4 DEF Share
  <2>2. QED
    BY <1>2, <2>1 DEF KeptIn
<1>5. QED
  BY <1>3, <1>4

\* If tables differ in one offer only, so does what they keep.
LEMMA OneOfferDiffers ==
  ASSUME NEW t \in Tables, NEW u \in Tables, NEW id,
         DOMAIN t \ {id} = DOMAIN u \ {id},
         \A i \in DOMAIN t \ {id} : Agrees(t[i], u[i]),
         NEW p, NEW side
  PROVE  /\ KeptIn(t, p, side) \in Nat /\ KeptIn(u, p, side) \in Nat
         /\ Share(t, id, p, side) \in Nat /\ Share(u, id, p, side) \in Nat
         /\ KeptIn(t, p, side) + Share(u, id, p, side) = KeptIn(u, p, side) + Share(t, id, p, side)
<1> DEFINE rest == OffersBy(t, p, side) \ {id}
<1>1. rest = OffersBy(u, p, side) \ {id} /\ rest \subseteq DOMAIN t /\ rest \subseteq DOMAIN u
  BY DEF OffersBy, Agrees
<1>2. \A i \in rest : Worth(t[i]) = Worth(u[i])
  BY DEF OffersBy, Agrees
<1>3. WorthOf(t, rest) = WorthOf(u, rest)
  <2> HIDE DEF rest
  <2> QED BY <1>1, <1>2, WorthOfCong
<1>4. /\ Share(t, id, p, side) \in Nat /\ WorthOf(t, rest) \in Nat
      /\ KeptIn(t, p, side) = Share(t, id, p, side) + WorthOf(t, rest)
  BY KeptInShare
<1>5. /\ Share(u, id, p, side) \in Nat
      /\ KeptIn(u, p, side) = Share(u, id, p, side) + WorthOf(u, OffersBy(u, p, side) \ {id})
  BY KeptInShare
<1> HIDE DEF rest
<1>6. QED
  BY <1>1, <1>3, <1>4, <1>5

LEMMA OneOfferLess ==
  ASSUME NEW t \in Tables, NEW u \in Tables, NEW id,
         DOMAIN u = DOMAIN t \ {id}, \A i \in DOMAIN u : u[i] = t[i],
         NEW p, NEW side
  PROVE  /\ KeptIn(t, p, side) \in Nat /\ KeptIn(u, p, side) \in Nat
         /\ Share(t, id, p, side) \in Nat
         /\ KeptIn(u, p, side) + Share(t, id, p, side) = KeptIn(t, p, side)
<1>1. DOMAIN t \ {id} = DOMAIN u \ {id} /\ \A i \in DOMAIN t \ {id} : Agrees(t[i], u[i])
  BY DEF Agrees
<1>2. /\ KeptIn(t, p, side) \in Nat /\ KeptIn(u, p, side) \in Nat
      /\ Share(t, id, p, side) \in Nat
      /\ KeptIn(t, p, side) + Share(u, id, p, side) = KeptIn(u, p, side) + Share(t, id, p, side)
  BY <1>1, OneOfferDiffers
<1>3. Share(u, id, p, side) = 0
  BY DEF Share, OffersBy
<1>4. QED
  BY <1>2, <1>3

\* What is deleted for rows that agree with their offers is what they say.
LEMMA RowsReturned ==
  ASSUME NEW t \in Tables, NEW rows \in Tables, NEW ids,
         ids \subseteq DOMAIN rows, ids \subseteq DOMAIN t,
         \A id \in ids : Agrees(rows[id], t[id]),
         NEW u \in Tables, DOMAIN u = DOMAIN t \ ids, \A id \in DOMAIN u : u[id] = t[id],
         NEW p, NEW side
  PROVE  KeptIn(t, p, side) = KeptIn(u, p, side) + WorthOf(rows, OffersBy(rows, p, side) \cap ids)
<1> DEFINE all == OffersBy(t, p, side)
           part == OffersBy(rows, p, side) \cap ids
<1>2. part = all \cap ids /\ part \in SUBSET all /\ all \in SUBSET (DOMAIN t)
      /\ part \subseteq DOMAIN rows /\ part \in SUBSET (DOMAIN t)
  BY DEF OffersBy, Agrees
<1>3. all \ part = OffersBy(u, p, side)
  BY <1>2 DEF OffersBy
<1>4. \A id \in part : Worth(t[id]) = Worth(rows[id])
  BY DEF Agrees
<1>5. \A id \in OffersBy(u, p, side) : Worth(u[id]) = Worth(t[id])
  BY DEF OffersBy
<1>6. OffersBy(u, p, side) \in SUBSET (DOMAIN u) /\ OffersBy(u, p, side) \subseteq DOMAIN t
  BY DEF OffersBy
<1> HIDE DEF all, part
<1>7. KeptIn(t, p, side) = WorthOf(t, part) + WorthOf(t, all \ part)
  <2>1. WorthOf(t, all) = WorthOf(t, part) + WorthOf(t, all \ part)
    BY <1>2, WorthOfSplit
  <2>2. QED
    BY <2>1 DEF KeptIn, all
<1>8. WorthOf(t, part) = WorthOf(rows, part)
  BY <1>2, <1>4, WorthOfCong
<1>9. WorthOf(t, all \ part) = KeptIn(u, p, side)
  <2>1. WorthOf(u, OffersBy(u, p, side)) = WorthOf(t, OffersBy(u, p, side))
    BY <1>5, <1>6, WorthOfCong
  <2>2. QED
    BY <1>3, <2>1 DEF KeptIn
<1>10. WorthOf(t, part) \in Nat /\ KeptIn(u, p, side) \in Nat
  BY <1>2, WorthOfType, KeptInType
<1>11. QED
  BY <1>7, <1>8, <1>9, <1>10 DEF part

-----------------------------------------------------------------------------
(* What the parts of a handler do to the table of offers.                  *)
Value(side, n, price) == IF side = "buy" THEN n * price ELSE n

LEMMA ValueFacts ==
  ASSUME NEW side, NEW n \in Nat, NEW price \in Prices
  PROVE  Value(side, n, price) \in Nat /\ n * price \in Nat /\ price \in Nat
<1>1. price \in Nat
  BY MarketAssumption
<1>2. n * price \in Nat
  BY <1>1
<1>3. QED
  BY <1>1, <1>2 DEF Value

LEMMA OfferFacts ==
  ASSUME TypeOK, NEW id \in Listed
  PROVE  /\ offers[id] \in Row /\ id \in Id
         /\ offers[id].owner \in Player /\ offers[id].side \in {"sell", "buy"}
         /\ offers[id].amount \in Nat \ {0} /\ offers[id].price \in Prices
         /\ Worth(offers[id]) = Value(offers[id].side, offers[id].amount, offers[id].price)
<1>1. offers[id] \in Row /\ id \in Id
  BY Tabled DEF TypeOK, Listed
<1>2. QED
  BY <1>1 DEF Row, Worth, Value

LEMMA InsertKeeps ==
  ASSUME TypeOK, NEW p \in Player, NEW side \in {"sell", "buy"},
         NEW n \in Nat \ {0}, NEW price \in Prices, Insert(p, side, n, price)
  PROVE  /\ offers' \in Tables
         /\ \E id \in Id \ (Listed \cup InFlight) :
              /\ DOMAIN offers' = Listed \cup {id} /\ offers'[id].owner = p
              /\ \A i \in Listed : offers'[i] = offers[i]
         /\ \A q, s : Kept(q, s)' = Kept(q, s)
                                     + IF q = p /\ s = side THEN Value(side, n, price) ELSE 0
<1> DEFINE row == [owner |-> p, side |-> side, amount |-> n, price |-> price, old |-> FALSE]
<1>1. PICK id \in Id \ (Listed \cup InFlight) :
        offers' = [i \in Listed \cup {id} |-> IF i = id THEN row ELSE offers[i]]
  BY DEF Insert
<1>2. row \in Row /\ Worth(row) = Value(side, n, price) /\ row.owner = p /\ row.side = side
  BY DEF Row, Worth, Value
<1> HIDE DEF row
<1>3. /\ offers \in Tables /\ DOMAIN offers = Listed /\ Listed \subseteq Id
      /\ \A i \in Listed : offers[i] \in Row
  BY Tabled DEF TypeOK, Listed
<1>4. /\ DOMAIN offers' = Listed \cup {id} /\ offers'[id] = row
      /\ \A i \in Listed : offers'[i] = offers[i]
  BY <1>1
<1>5. offers' \in Tables
  <2>1. offers' = [i \in DOMAIN offers' |-> offers'[i]]
    BY <1>1
  <2>2. DOMAIN offers' \subseteq Id /\ \A i \in DOMAIN offers' : offers'[i] \in Row
    BY <1>2, <1>3, <1>4
  <2>3. QED
    BY <2>1, <2>2, Tabled
<1>6. ASSUME NEW q, NEW s
      PROVE  Kept(q, s)' = Kept(q, s) + IF q = p /\ s = side THEN Value(side, n, price) ELSE 0
  <2>1. DOMAIN offers \ {id} = DOMAIN offers' \ {id}
    BY <1>3, <1>4
  <2>2. \A i \in DOMAIN offers \ {id} : Agrees(offers[i], offers'[i])
    BY <1>3, <1>4 DEF Agrees
  <2>3. /\ KeptIn(offers, q, s) \in Nat /\ KeptIn(offers', q, s) \in Nat
        /\ KeptIn(offers, q, s) + Share(offers', id, q, s) = KeptIn(offers', q, s) + Share(offers, id, q, s)
        /\ Share(offers', id, q, s) \in Nat
    BY <1>3, <1>5, <2>1, <2>2, OneOfferDiffers
  <2>4. Share(offers, id, q, s) = 0
    BY <1>1, <1>3 DEF Share, OffersBy
  <2>5. Share(offers', id, q, s) = IF q = p /\ s = side THEN Value(side, n, price) ELSE 0
    BY <1>2, <1>4 DEF Share, OffersBy
  <2>6. Kept(q, s) = KeptIn(offers, q, s) /\ Kept(q, s)' = KeptIn(offers', q, s)
    BY DEF Kept, KeptIn
  <2>7. QED
    BY <2>3, <2>4, <2>5, <2>6
<1>7. QED
  BY <1>1, <1>2, <1>4, <1>5, <1>6

LEMMA WithoutTable ==
  ASSUME TypeOK, NEW ids
  PROVE  /\ Without(ids) \in Tables /\ DOMAIN Without(ids) = Listed \ ids
         /\ \A i \in Listed \ ids : Without(ids)[i] = offers[i]
<1> DEFINE u == Without(ids)
<1>1. DOMAIN u = Listed \ ids /\ (\A i \in Listed \ ids : u[i] = offers[i])
      /\ u = [i \in DOMAIN u |-> u[i]]
  BY DEF Without
<1>2. Listed \subseteq Id /\ \A i \in Listed : offers[i] \in Row
  BY Tabled DEF TypeOK, Listed
<1> HIDE DEF u
<1>3. u \in Tables
  BY <1>1, <1>2, Tabled
<1>4. QED
  BY <1>1, <1>3 DEF u

LEMMA OfferGone ==
  ASSUME offers \in Tables, offers' \in Tables, NEW id,
         DOMAIN offers' = DOMAIN offers \ {id}, \A i \in DOMAIN offers' : offers'[i] = offers[i]
  PROVE  \A q, s : /\ Share(offers, id, q, s) \in Nat
                   /\ Kept(q, s)' + Share(offers, id, q, s) = Kept(q, s)
<1> TAKE q, s
<1>1. /\ Share(offers, id, q, s) \in Nat
      /\ KeptIn(offers', q, s) + Share(offers, id, q, s) = KeptIn(offers, q, s)
  BY OneOfferLess
<1>2. Kept(q, s) = KeptIn(offers, q, s) /\ Kept(q, s)' = KeptIn(offers', q, s)
  BY DEF Kept, KeptIn
<1>3. QED
  BY <1>1, <1>2

LEMMA DeleteKeeps ==
  ASSUME TypeOK, NEW id \in Listed, offers' = Without({id})
  PROVE  /\ offers' \in Tables
         /\ \A q, s : /\ Share(offers, id, q, s) \in Nat
                       /\ Kept(q, s)' + Share(offers, id, q, s) = Kept(q, s)
<1>1. /\ offers' \in Tables /\ DOMAIN offers' = Listed \ {id}
      /\ \A i \in Listed \ {id} : offers'[i] = offers[i]
  BY WithoutTable
<1>2. offers \in Tables /\ DOMAIN offers = Listed
  BY DEF TypeOK, Listed
<1>3. DOMAIN offers' = DOMAIN offers \ {id} /\ \A i \in DOMAIN offers' : offers'[i] = offers[i]
  BY <1>1, <1>2
<1>4. QED
  BY <1>1, <1>2, <1>3, OfferGone

LEMMA ReduceKeeps ==
  ASSUME TypeOK, NEW id \in Listed, NEW n \in Nat \ {0}, n <= offers[id].amount, Reduce(id, n)
  PROVE  /\ offers' \in Tables /\ DOMAIN offers' \subseteq Listed
         /\ \A i \in DOMAIN offers' \ {id} : offers'[i] = offers[i]
         /\ n = offers[id].amount => id \notin DOMAIN offers'
         /\ Sold(id) = n
         /\ \A q, s : Kept(q, s)' + (IF q = offers[id].owner /\ s = offers[id].side
                                     THEN Value(s, n, offers[id].price) ELSE 0) = Kept(q, s)
<1> DEFINE o == offers[id]
           left == [o EXCEPT !.amount = o.amount - n]
<1>1. o \in Row /\ Worth(o) = Value(o.side, o.amount, o.price) /\ o.price \in Nat /\ o.amount \in Nat
  BY OfferFacts, MarketAssumption
<1>2. /\ offers \in Tables /\ DOMAIN offers = Listed /\ Listed \subseteq Id
      /\ \A i \in Listed : offers[i] \in Row
  BY Tabled DEF TypeOK, Listed
<1>3. CASE o.amount = n
  <2>1. offers' = Without({id})
    BY <1>3 DEF Reduce
  <2>2. DOMAIN offers' = Listed \ {id} /\ \A i \in Listed \ {id} : offers'[i] = offers[i]
    BY <2>1, WithoutTable
  <2>3. \A q, s : Share(offers, id, q, s)
                  = IF q = o.owner /\ s = o.side THEN Value(s, n, o.price) ELSE 0
    BY <1>1, <1>2, <1>3 DEF Share, OffersBy
  <2>4. /\ offers' \in Tables
        /\ \A q, s : Kept(q, s)' + Share(offers, id, q, s) = Kept(q, s)
    BY <2>1, DeleteKeeps
  <2>5. Sold(id) = n
    BY <1>1, <1>3, <2>2 DEF Sold, Listed
  <2> HIDE DEF o
  <2>6. QED
    BY <1>3, <2>2, <2>3, <2>4, <2>5 DEF o
<1>4. CASE o.amount # n
  <2>1. offers' = [offers EXCEPT ![id].amount = @ - n]
    BY <1>4 DEF Reduce
  <2>2. /\ left \in Row /\ left.owner = o.owner /\ left.side = o.side
        /\ Worth(left) = Value(o.side, o.amount - n, o.price)
    BY <1>1, <1>4 DEF Row, Worth, Value
  <2>3. /\ DOMAIN offers' = Listed /\ offers'[id] = left
        /\ \A i \in Listed \ {id} : offers'[i] = offers[i]
        /\ offers' = [i \in DOMAIN offers' |-> offers'[i]]
    BY <1>2, <2>1
  <2>a. Sold(id) = n
    <3>1. left.amount = o.amount - n
      BY <1>1 DEF Row
    <3> HIDE DEF left
    <3>2. QED
      BY <1>1, <2>3, <3>1 DEF Sold, Listed
  <2> HIDE DEF left
  <2>4. offers' \in Tables
    <3>1. \A i \in DOMAIN offers' : offers'[i] \in Row
      BY <1>2, <2>2, <2>3
    <3>2. QED
      BY <1>2, <2>3, <3>1, Tabled
  <2>5. ASSUME NEW q, NEW s
        PROVE  Kept(q, s)' + (IF q = o.owner /\ s = o.side THEN Value(s, n, o.price) ELSE 0) = Kept(q, s)
    <3>1. \A i \in DOMAIN offers \ {id} : Agrees(offers[i], offers'[i])
      BY <1>2, <2>3 DEF Agrees
    <3>2. /\ KeptIn(offers, q, s) \in Nat /\ KeptIn(offers', q, s) \in Nat
          /\ KeptIn(offers, q, s) + Share(offers', id, q, s) = KeptIn(offers', q, s) + Share(offers, id, q, s)
          /\ Share(offers, id, q, s) \in Nat /\ Share(offers', id, q, s) \in Nat
      BY <1>2, <2>3, <2>4, <3>1, OneOfferDiffers
    <3>3. Kept(q, s) = KeptIn(offers, q, s) /\ Kept(q, s)' = KeptIn(offers', q, s)
      BY DEF Kept, KeptIn
    <3>4. CASE q = o.owner /\ s = o.side
      <4>1. Share(offers, id, q, s) = Worth(o) /\ Share(offers', id, q, s) = Worth(left)
        BY <1>2, <2>2, <2>3, <3>4 DEF Share, OffersBy
      <4>2. Worth(o) = Worth(left) + Value(s, n, o.price)
        <5>1. Value(s, o.amount, o.price) = Value(s, o.amount - n, o.price) + Value(s, n, o.price)
          <6> DEFINE a == o.amount
                     c == o.price
          <6>1. a \in Nat /\ c \in Nat /\ n \in Nat
            BY <1>1
          <6> HIDE DEF a, c
          <6>2. (a - n) * c = a * c - n * c
            BY <6>1
          <6>3. a = (a - n) + n /\ a * c = (a * c - n * c) + n * c
            BY <6>1
          <6>4. QED
            BY <6>2, <6>3 DEF Value, a, c
        <5>2. QED
          BY <1>1, <2>2, <3>4, <5>1
      <4>3. Value(s, n, o.price) \in Nat
        BY <1>1, OfferFacts, ValueFacts
      <4>4. QED
        BY <3>2, <3>3, <3>4, <4>1, <4>2, <4>3
    <3>5. CASE ~ (q = o.owner /\ s = o.side)
      <4>1. Share(offers, id, q, s) = 0 /\ Share(offers', id, q, s) = 0
        BY <1>2, <2>2, <2>3, <3>5 DEF Share, OffersBy
      <4>2. QED
        BY <3>2, <3>3, <3>5, <4>1
    <3>6. QED
      BY <3>4, <3>5
  <2>6. QED
    BY <1>4, <2>3, <2>4, <2>5, <2>a
<1>5. QED
  BY <1>3, <1>4

LEMMA FromStashFacts ==
  ASSUME TypeOK, NEW p \in Player, NEW n \in Nat
  PROVE  /\ stash[p] \in Nat /\ locker[p] \in Nat /\ FromStash(p, n) \in Nat
         /\ FromStash(p, n) <= stash[p] /\ FromStash(p, n) <= n
         /\ Has(p, n) => n - FromStash(p, n) <= locker[p]
<1>1. stash[p] \in Nat /\ locker[p] \in Nat
  BY DEF TypeOK
<1>2. FromStash(p, n) = IF stash[p] <= n THEN stash[p] ELSE n
  <2>1. \E x \in {stash[p], n} : \A y \in {stash[p], n} : x <= y
    BY <1>1
  <2>2. FromStash(p, n) \in {stash[p], n} /\ \A y \in {stash[p], n} : FromStash(p, n) <= y
    BY <2>1 DEF FromStash, Min
  <2>3. QED
    BY <1>1, <2>2
<1>3. QED
  BY <1>1, <1>2 DEF Has

LEMMA RemoveFacts ==
  ASSUME TypeOK, NEW p \in Player, NEW n \in Nat, RemoveOfferItems(p, n)
  PROVE  /\ stash' \in [Player -> Nat] /\ locker' \in [Player -> Nat]
         /\ stash'[p] + locker'[p] + n = stash[p] + locker[p]
         /\ \A q \in Player \ {p} : stash'[q] = stash[q] /\ locker'[q] = locker[q]
<1>1. /\ stash[p] \in Nat /\ locker[p] \in Nat /\ FromStash(p, n) \in Nat
      /\ FromStash(p, n) <= stash[p] /\ FromStash(p, n) <= n /\ n - FromStash(p, n) <= locker[p]
  BY FromStashFacts DEF RemoveOfferItems
<1>2. /\ stash' = [stash EXCEPT ![p] = stash[p] - FromStash(p, n)]
      /\ locker' = [locker EXCEPT ![p] = locker[p] - (n - FromStash(p, n))]
  BY DEF RemoveOfferItems
<1>3. stash \in [Player -> Nat] /\ locker \in [Player -> Nat]
  BY DEF TypeOK
<1>4. stash[p] - FromStash(p, n) \in Nat /\ locker[p] - (n - FromStash(p, n)) \in Nat
  BY <1>1
<1>5. /\ stash'[p] = stash[p] - FromStash(p, n) /\ locker'[p] = locker[p] - (n - FromStash(p, n))
      /\ stash' \in [Player -> Nat] /\ locker' \in [Player -> Nat]
      /\ \A q \in Player \ {p} : stash'[q] = stash[q] /\ locker'[q] = locker[q]
  BY <1>2, <1>3, <1>4
<1>6. QED
  BY <1>1, <1>5

LEMMA LoseFacts ==
  ASSUME TypeOK, NEW p \in Player, NEW n \in Nat, LoseOfferItems(p, n)
  PROVE  /\ stash' \in [Player -> Nat] /\ locker' \in [Player -> Nat]
         /\ stash'[p] + locker'[p] <= stash[p] + locker[p]
         /\ \A q \in Player \ {p} : stash'[q] = stash[q] /\ locker'[q] = locker[q]
BY DEF LoseOfferItems, TypeOK

LEMMA DeliverFacts ==
  ASSUME TypeOK, NEW p \in Player, NEW q \in Player, p # q, NEW n \in Nat, Deliver(p, q, n)
  PROVE  /\ stash' \in [Player -> Nat] /\ locker' \in [Player -> Nat]
         /\ stash'[p] + locker'[p] + n = stash[p] + locker[p]
         /\ stash'[q] = stash[q] /\ locker'[q] = locker[q] + n
         /\ \A r \in Player \ {p, q} : stash'[r] = stash[r] /\ locker'[r] = locker[r]
<1>1. /\ stash[p] \in Nat /\ locker[p] \in Nat /\ locker[q] \in Nat /\ FromStash(p, n) \in Nat
      /\ FromStash(p, n) <= stash[p] /\ FromStash(p, n) <= n /\ n - FromStash(p, n) <= locker[p]
  BY FromStashFacts DEF Deliver
<1>2. /\ stash' = [stash EXCEPT ![p] = stash[p] - FromStash(p, n)]
      /\ locker' = [locker EXCEPT ![p] = locker[p] - (n - FromStash(p, n)), ![q] = locker[q] + n]
  BY DEF Deliver, TypeOK
<1>3. stash \in [Player -> Nat] /\ locker \in [Player -> Nat]
  BY DEF TypeOK
<1>4. /\ stash[p] - FromStash(p, n) \in Nat /\ locker[p] - (n - FromStash(p, n)) \in Nat
      /\ locker[q] + n \in Nat
  BY <1>1
<1>5. /\ stash'[p] = stash[p] - FromStash(p, n) /\ stash' \in [Player -> Nat]
      /\ \A r \in Player \ {p} : stash'[r] = stash[r]
  BY <1>2, <1>3, <1>4
<1>6. /\ locker'[p] = locker[p] - (n - FromStash(p, n)) /\ locker'[q] = locker[q] + n
      /\ locker' \in [Player -> Nat]
      /\ \A r \in Player \ {p, q} : locker'[r] = locker[r]
  BY <1>2, <1>3, <1>4
<1>7. QED
  BY <1>1, <1>5, <1>6

-----------------------------------------------------------------------------
(* What every step does to what the players own (TradesArePaid).           *)
Outcome ==
    \/ \A q \in Player : Keeps(q)
    \/ \E p \in Player : (PaysFee(p) \/ Loses(p)) /\ \A q \in Player \ {p} : Keeps(q)
    \/ \E id \in Listed : Settled(id)

LEMMA OwnType ==
  ASSUME TypeOK, NEW p \in Player
  PROVE  /\ gold[p] \in Nat /\ stash[p] \in Nat /\ locker[p] \in Nat
         /\ \A side : Kept(p, side) \in Nat
         /\ GoodsOf(p) \in Nat /\ GoldOf(p) \in Nat
<1>1. gold[p] \in Nat /\ stash[p] \in Nat /\ locker[p] \in Nat /\ offers \in Tables
  BY DEF TypeOK
<1>2. \A side : Kept(p, side) \in Nat
  BY <1>1, KeptInType DEF Kept, KeptIn
<1>3. QED
  BY <1>1, <1>2 DEF GoodsOf, GoldOf

LEMMA RowsStay ==
  ASSUME IInv, batches' = batches,
         \A id \in DOMAIN offers' \cap InFlight : id \in Listed /\ Agrees(offers[id], offers'[id])
  PROVE  RowsCurrent'
<1>1. ASSUME NEW k \in 1 .. Len(batches), NEW id \in DOMAIN batches[k], id \in DOMAIN offers'
      PROVE  Agrees(batches[k][id], offers'[id])
  <2>1. id \in InFlight
    BY DEF InFlight, IInv, TypeOK
  <2>2. id \in Listed /\ Agrees(offers[id], offers'[id])
    BY <1>1, <2>1
  <2>3. Agrees(batches[k][id], offers[id])
    BY <2>2 DEF IInv, RowsCurrent
  <2>4. QED
    BY <2>2, <2>3 DEF Agrees
<1>2. QED
  BY <1>1 DEF RowsCurrent, Listed

-----------------------------------------------------------------------------
(* One lemma per action.                                                   *)
LEMMA TypeStays ==
  ASSUME TypeOK, gold' \in [Player -> Nat], stash' \in [Player -> Nat], locker' \in [Player -> Nat],
         offers' \in Tables, batches' = batches
  PROVE  TypeOK'
BY DEF TypeOK

LEMMA SellForStep ==
  ASSUME IInv, NEW p \in Player, NEW n \in Nat \ {0}, NEW price \in Prices, SellFor(p, n, price)
  PROVE  TypeOK' /\ RowsCurrent' /\ Outcome
<1>0. TypeOK /\ gold \in [Player -> Nat] /\ Fee \in Nat /\ batches' = batches /\ gold[p] >= Fee
  BY MarketAssumption DEF IInv, TypeOK, SellFor
<1>1. CASE RemoveOfferItems(p, n) /\ gold' = [gold EXCEPT ![p] = @ - Fee] /\ Insert(p, "sell", n, price)
  <2>1. /\ stash' \in [Player -> Nat] /\ locker' \in [Player -> Nat]
        /\ stash'[p] + locker'[p] + n = stash[p] + locker[p]
        /\ \A q \in Player \ {p} : stash'[q] = stash[q] /\ locker'[q] = locker[q]
    BY <1>0, <1>1, RemoveFacts
  <2>2. /\ offers' \in Tables
        /\ \A q, s : Kept(q, s)' = Kept(q, s) + IF q = p /\ s = "sell" THEN Value("sell", n, price) ELSE 0
    BY <1>0, <1>1, InsertKeeps
  <2>3. PICK id \in Id \ (Listed \cup InFlight) :
          /\ DOMAIN offers' = Listed \cup {id} /\ offers'[id].owner = p
          /\ \A i \in Listed : offers'[i] = offers[i]
    BY <1>0, <1>1, InsertKeeps
  <2>4. /\ gold' \in [Player -> Nat] /\ gold'[p] + Fee = gold[p]
        /\ \A q \in Player \ {p} : gold'[q] = gold[q]
    BY <1>0, <1>1
  <2>5. TypeOK'
    BY <1>0, <2>1, <2>2, <2>4, TypeStays
  <2>6. RowsCurrent'
    <3>1. \A i \in DOMAIN offers' \cap InFlight : i \in Listed /\ Agrees(offers[i], offers'[i])
      BY <2>3 DEF Agrees
    <3>2. QED
      BY <1>0, <3>1, RowsStay
  <2>7. PaysFee(p)
    <3>1. Kept(p, "sell")' = Kept(p, "sell") + n /\ Kept(p, "buy")' = Kept(p, "buy")
      BY <1>0, <2>2, OwnType DEF Value
    <3>2. stash'[p] \in Nat /\ locker'[p] \in Nat /\ gold'[p] \in Nat
      BY <2>1, <2>4
    <3>3. GoodsOf(p)' = GoodsOf(p) /\ GoldOf(p)' + Fee = GoldOf(p)
      BY <1>0, <2>1, <2>4, <3>1, <3>2, OwnType DEF GoodsOf, GoldOf
    <3>4. QED
      BY <2>3, <3>3 DEF PaysFee, Listed
  <2>8. ASSUME NEW q \in Player \ {p}
        PROVE  Keeps(q)
    <3>1. Kept(q, "sell")' = Kept(q, "sell") /\ Kept(q, "buy")' = Kept(q, "buy")
      BY <1>0, <2>2, OwnType
    <3>2. QED
      BY <2>1, <2>4, <3>1 DEF Keeps, GoodsOf, GoldOf
  <2>9. QED
    BY <1>0, <2>5, <2>6, <2>7, <2>8 DEF Outcome
<1>2. CASE LoseOfferItems(p, n) /\ gold' = gold /\ offers' = offers
  <2>1. /\ stash' \in [Player -> Nat] /\ locker' \in [Player -> Nat]
        /\ stash'[p] + locker'[p] <= stash[p] + locker[p]
        /\ \A q \in Player \ {p} : stash'[q] = stash[q] /\ locker'[q] = locker[q]
    BY <1>0, <1>2, LoseFacts
  <2>2. \A q, s : Kept(q, s)' = Kept(q, s)
    BY <1>2 DEF Kept, WorthOf, OffersBy
  <2>3. TypeOK'
    BY <1>0, <1>2, <2>1, TypeStays DEF TypeOK
  <2>4. RowsCurrent'
    BY <1>0, <1>2 DEF IInv, RowsCurrent, Listed
  <2>5. Loses(p)
    <3>1. stash'[p] \in Nat /\ locker'[p] \in Nat
      BY <2>1
    <3>2. QED
      BY <1>0, <1>2, <2>1, <2>2, <3>1, OwnType DEF Loses, GoodsOf, GoldOf
  <2>6. \A q \in Player \ {p} : Keeps(q)
    BY <1>2, <2>1, <2>2 DEF Keeps, GoodsOf, GoldOf
  <2>7. QED
    BY <1>0, <2>3, <2>4, <2>5, <2>6 DEF Outcome
<1>3. QED
  BY <1>1, <1>2 DEF SellFor

LEMMA BuyForStep ==
  ASSUME IInv, NEW p \in Player, NEW n \in Nat \ {0}, NEW price \in Prices, BuyFor(p, n, price)
  PROVE  TypeOK' /\ RowsCurrent' /\ Outcome
<1> DEFINE cost == n * price
<1>0. /\ TypeOK /\ gold \in [Player -> Nat] /\ Fee \in Nat /\ batches' = batches
      /\ gold[p] >= cost + Fee /\ gold' = [gold EXCEPT ![p] = @ - (cost + Fee)] /\ cost \in Nat
      /\ stash' = stash /\ locker' = locker /\ Insert(p, "buy", n, price)
  BY MarketAssumption, ValueFacts DEF IInv, TypeOK, BuyFor
<1>1. Value("buy", n, price) = cost
  BY DEF Value
<1> HIDE DEF cost
<1>2. /\ offers' \in Tables
      /\ \A q, s : Kept(q, s)' = Kept(q, s) + IF q = p /\ s = "buy" THEN Value("buy", n, price) ELSE 0
  <2>1. TypeOK /\ Insert(p, "buy", n, price) /\ "buy" \in {"sell", "buy"}
    BY <1>0
  <2>2. QED
    BY <2>1, InsertKeeps
<1>3. PICK id \in Id \ (Listed \cup InFlight) :
        /\ DOMAIN offers' = Listed \cup {id} /\ offers'[id].owner = p
        /\ \A i \in Listed : offers'[i] = offers[i]
  BY <1>0, InsertKeeps
<1>4. /\ gold' \in [Player -> Nat] /\ gold'[p] + cost + Fee = gold[p]
      /\ \A q \in Player \ {p} : gold'[q] = gold[q]
  BY <1>0
<1>5. TypeOK'
  BY <1>0, <1>2, <1>4, TypeStays DEF TypeOK
<1>6. RowsCurrent'
  <2>1. \A i \in DOMAIN offers' \cap InFlight : i \in Listed /\ Agrees(offers[i], offers'[i])
    BY <1>3 DEF Agrees
  <2>2. QED
    BY <1>0, <2>1, RowsStay
<1>7. PaysFee(p)
  <2>1. Kept(p, "sell")' = Kept(p, "sell") /\ Kept(p, "buy")' = Kept(p, "buy") + cost
    BY <1>0, <1>1, <1>2, OwnType
  <2>2. gold'[p] \in Nat
    BY <1>4
  <2>3. GoodsOf(p)' = GoodsOf(p) /\ GoldOf(p)' + Fee = GoldOf(p)
    BY <1>0, <1>4, <2>1, <2>2, OwnType DEF GoodsOf, GoldOf
  <2>4. QED
    BY <1>3, <2>3 DEF PaysFee, Listed
<1>8. ASSUME NEW q \in Player \ {p}
      PROVE  Keeps(q)
  <2>1. Kept(q, "sell")' = Kept(q, "sell") /\ Kept(q, "buy")' = Kept(q, "buy")
    BY <1>0, <1>2, OwnType
  <2>2. QED
    BY <1>0, <1>4, <2>1 DEF Keeps, GoodsOf, GoldOf
<1>9. QED
  BY <1>0, <1>5, <1>6, <1>7, <1>8 DEF Outcome

LEMMA CancelStep ==
  ASSUME IInv, NEW id \in Id, Cancel(id)
  PROVE  TypeOK' /\ RowsCurrent' /\ Outcome
<1> DEFINE o == offers[id]
           w == Worth(offers[id])
<1>0. /\ TypeOK /\ id \in Listed /\ offers' = Without({id}) /\ stash' = stash /\ batches' = batches
      /\ gold \in [Player -> Nat] /\ stash \in [Player -> Nat] /\ locker \in [Player -> Nat]
  BY DEF IInv, TypeOK, Cancel
<1>1. /\ o.owner \in Player /\ o.side \in {"sell", "buy"} /\ w \in Nat
      /\ offers \in Tables /\ id \in DOMAIN offers
  BY <1>0, OfferFacts, WorthType DEF TypeOK, Listed
<1>2. IF o.side = "buy"
      THEN gold' = [gold EXCEPT ![o.owner] = @ + w] /\ locker' = locker
      ELSE locker' = [locker EXCEPT ![o.owner] = @ + w] /\ gold' = gold
  BY DEF Cancel
<1>3. /\ offers' \in Tables
      /\ \A q, s : /\ Share(offers, id, q, s) \in Nat
                   /\ Kept(q, s)' + Share(offers, id, q, s) = Kept(q, s)
  BY <1>0, DeleteKeeps
<1>4. \A q, s : Share(offers, id, q, s) = IF q = o.owner /\ s = o.side THEN w ELSE 0
  BY <1>1 DEF Share, OffersBy
<1>5. TypeOK'
  <2> HIDE DEF o, w
  <2>1. gold' \in [Player -> Nat] /\ locker' \in [Player -> Nat]
    BY <1>0, <1>1, <1>2
  <2>2. QED
    BY <1>0, <1>3, <2>1, TypeStays
<1>6. RowsCurrent'
  <2>1. DOMAIN offers' = Listed \ {id} /\ \A i \in Listed \ {id} : offers'[i] = offers[i]
    BY <1>0, WithoutTable
  <2>2. \A i \in DOMAIN offers' \cap InFlight : i \in Listed /\ Agrees(offers[i], offers'[i])
    BY <2>1 DEF Agrees
  <2>3. QED
    BY <1>0, <2>2, RowsStay
<1>7. ASSUME NEW q \in Player
      PROVE  Keeps(q)
  <2> HIDE DEF o, w
  <2>1. /\ Kept(q, "sell")' + (IF q = o.owner /\ o.side = "sell" THEN w ELSE 0) = Kept(q, "sell")
        /\ Kept(q, "buy")' + (IF q = o.owner /\ o.side = "buy" THEN w ELSE 0) = Kept(q, "buy")
    BY <1>3, <1>4
  <2>2. Kept(q, "sell")' \in Nat /\ Kept(q, "buy")' \in Nat
    BY <1>3, KeptInType DEF Kept, KeptIn
  <2>3. /\ gold[q] \in Nat /\ stash[q] \in Nat /\ locker[q] \in Nat
        /\ Kept(q, "sell") \in Nat /\ Kept(q, "buy") \in Nat
    BY <1>0, OwnType
  <2>4. /\ gold'[q] = gold[q] + (IF q = o.owner /\ o.side = "buy" THEN w ELSE 0)
        /\ locker'[q] = locker[q] + (IF q = o.owner /\ o.side = "sell" THEN w ELSE 0)
    BY <1>0, <1>1, <1>2, <2>3
  <2>5. QED
    BY <1>0, <1>1, <2>1, <2>2, <2>3, <2>4 DEF Keeps, GoodsOf, GoldOf
<1>8. QED
  BY <1>1, <1>5, <1>6, <1>7 DEF Outcome

LEMMA AcceptStep ==
  ASSUME ~PartialInFlight, IInv, NEW p \in Player, NEW id \in Id, NEW n \in Nat \ {0}, Accept(p, id, n)
  PROVE  TypeOK' /\ RowsCurrent' /\ Outcome
<1> DEFINE o == offers[id]
<1>0. /\ TypeOK /\ id \in Listed /\ batches' = batches /\ n <= o.amount
      /\ id \notin InFlight \/ n = o.amount
      /\ gold \in [Player -> Nat] /\ stash \in [Player -> Nat] /\ locker \in [Player -> Nat]
  BY DEF IInv, TypeOK, Accept
<1>a. PICK r \in Player, c \in Prices : r = o.owner /\ c = o.price
  BY <1>0, OfferFacts
<1> DEFINE w == n * c
<1>1. /\ o.side \in {"sell", "buy"} /\ w \in Nat /\ n \in Nat
      /\ Value("buy", n, c) = w /\ Value("sell", n, c) = n
  BY <1>0, OfferFacts, ValueFacts DEF Value
<1>2. ASSUME Reduce(id, n)
      PROVE  /\ offers' \in Tables /\ RowsCurrent' /\ Sold(id) = n
             /\ \A q, s : /\ Kept(q, s)' \in Nat
                          /\ Kept(q, s)' + (IF q = r /\ s = o.side THEN Value(s, n, c) ELSE 0) = Kept(q, s)
  <2>1. /\ offers' \in Tables /\ DOMAIN offers' \subseteq Listed
        /\ \A i \in DOMAIN offers' \ {id} : offers'[i] = offers[i]
        /\ n = o.amount => id \notin DOMAIN offers'
        /\ Sold(id) = n
        /\ \A q, s : Kept(q, s)' + (IF q = r /\ s = o.side THEN Value(s, n, c) ELSE 0) = Kept(q, s)
    BY <1>0, <1>2, <1>a, ReduceKeeps
  <2>2. \A i \in DOMAIN offers' \cap InFlight : i \in Listed /\ Agrees(offers[i], offers'[i])
    BY <1>0, <2>1 DEF Agrees
  <2>3. RowsCurrent'
    BY <1>0, <2>2, RowsStay
  <2>4. \A q, s : Kept(q, s)' \in Nat
    BY <2>1, KeptInType DEF Kept, KeptIn
  <2>5. QED
    BY <2>1, <2>3, <2>4
<1>3. CASE BuyFrom(p, id, n)
  <2>1. /\ o.side = "sell" /\ r # p /\ gold[p] >= w /\ Reduce(id, n) /\ stash' = stash
        /\ gold' = [gold EXCEPT ![p] = @ - w, ![r] = @ + w]
        /\ locker' = [locker EXCEPT ![p] = @ + n]
    BY <1>3, <1>a DEF BuyFrom
  <2>2. /\ offers' \in Tables /\ RowsCurrent' /\ Sold(id) = n
        /\ \A q, s : /\ Kept(q, s)' \in Nat
                     /\ Kept(q, s)' + (IF q = r /\ s = o.side THEN Value(s, n, c) ELSE 0) = Kept(q, s)
    BY <1>2, <2>1
  <2> HIDE DEF o, w
  <2>3. /\ gold' \in [Player -> Nat] /\ gold'[p] + w = gold[p] /\ gold'[r] = gold[r] + w
        /\ \A q \in Player \ {p, r} : gold'[q] = gold[q]
    BY <1>0, <1>1, <2>1
  <2>4. /\ locker' \in [Player -> Nat] /\ locker'[p] = locker[p] + n
        /\ \A q \in Player \ {p} : locker'[q] = locker[q]
    BY <1>0, <2>1
  <2>5. TypeOK'
    BY <1>0, <2>1, <2>2, <2>3, <2>4, TypeStays
  <2>6. \A q \in Player : /\ gold[q] \in Nat /\ stash[q] \in Nat /\ locker[q] \in Nat
                          /\ gold'[q] \in Nat /\ stash'[q] = stash[q] /\ locker'[q] \in Nat
                          /\ Kept(q, "sell") \in Nat /\ Kept(q, "buy") \in Nat
                          /\ Kept(q, "sell")' \in Nat /\ Kept(q, "buy")' = Kept(q, "buy")
                          /\ q # r => Kept(q, "sell")' = Kept(q, "sell")
                          /\ q = r => Kept(q, "sell")' + n = Kept(q, "sell")
    BY <1>0, <1>1, <2>1, <2>2, <2>3, <2>4, OwnType
  <2>7. /\ GoodsOf(p)' = GoodsOf(p) + n /\ GoldOf(p)' + w = GoldOf(p)
        /\ GoodsOf(r)' + n = GoodsOf(r) /\ GoldOf(r)' = GoldOf(r) + w
    <3>1. /\ p # r /\ stash'[p] = stash[p] /\ Kept(p, "sell")' = Kept(p, "sell")
          /\ Kept(p, "buy")' = Kept(p, "buy")
      BY <2>1, <2>6
    <3>2. /\ stash'[r] = stash[r] /\ locker'[r] = locker[r]
          /\ Kept(r, "sell")' + n = Kept(r, "sell")
          /\ Kept(r, "buy")' = Kept(r, "buy")
      BY <1>1, <2>1, <2>4, <2>6
    <3>3. /\ gold[p] \in Nat /\ gold'[p] \in Nat /\ Kept(p, "buy") \in Nat /\ stash[p] \in Nat
          /\ locker[p] \in Nat /\ Kept(p, "sell") \in Nat /\ w \in Nat /\ n \in Nat
          /\ gold[r] \in Nat /\ Kept(r, "buy") \in Nat /\ stash[r] \in Nat /\ locker[r] \in Nat
          /\ Kept(r, "sell") \in Nat /\ Kept(r, "sell")' \in Nat
      BY <1>1, <2>6
    <3>4. GoodsOf(p)' = GoodsOf(p) + n
      BY <2>4, <3>1, <3>3 DEF GoodsOf
    <3>5. GoldOf(p)' + w = GoldOf(p)
      BY <2>3, <3>1, <3>3 DEF GoldOf
    <3>6. GoodsOf(r)' + n = GoodsOf(r)
      BY <3>2, <3>3 DEF GoodsOf
    <3>7. GoldOf(r)' = GoldOf(r) + w
      BY <2>3, <3>2, <3>3 DEF GoldOf
    <3>8. QED
      BY <3>4, <3>5, <3>6, <3>7
  <2>8. \A q \in Player \ {p, r} : Keeps(q)
    BY <2>3, <2>4, <2>6 DEF Keeps, GoodsOf, GoldOf
  <2>9. Trades(p, r, n, c)
    BY <2>7 DEF Trades, o, w
  <2>10. Settled(id)
    BY <1>0, <1>a, <2>1, <2>2, <2>8, <2>9 DEF Settled, o
  <2>11. QED
    BY <1>0, <2>2, <2>5, <2>10 DEF Outcome
<1>4. CASE SellTo(p, id, n)
  <2>1. o.side = "buy" /\ r # p
    BY <1>4, <1>a DEF SellTo
  <2>2. CASE Deliver(p, r, n) /\ gold' = [gold EXCEPT ![p] = @ + w] /\ Reduce(id, n)
    <3>1. /\ offers' \in Tables /\ RowsCurrent' /\ Sold(id) = n
          /\ \A q, s : /\ Kept(q, s)' \in Nat
                       /\ Kept(q, s)' + (IF q = r /\ s = o.side THEN Value(s, n, c) ELSE 0) = Kept(q, s)
      BY <1>2, <2>2
    <3> HIDE DEF o, w
    <3>2. /\ stash' \in [Player -> Nat] /\ locker' \in [Player -> Nat]
          /\ stash'[p] + locker'[p] + n = stash[p] + locker[p]
          /\ stash'[r] = stash[r] /\ locker'[r] = locker[r] + n
          /\ \A q \in Player \ {p, r} : stash'[q] = stash[q] /\ locker'[q] = locker[q]
      BY <1>0, <1>1, <2>1, <2>2, DeliverFacts
    <3>3. /\ gold' \in [Player -> Nat] /\ gold'[p] = gold[p] + w
          /\ \A q \in Player \ {p} : gold'[q] = gold[q]
      BY <1>0, <1>1, <2>2
    <3>4. TypeOK'
      BY <1>0, <3>1, <3>2, <3>3, TypeStays
    <3>5. \A q \in Player : /\ gold[q] \in Nat /\ stash[q] \in Nat /\ locker[q] \in Nat
                            /\ gold'[q] \in Nat /\ stash'[q] \in Nat /\ locker'[q] \in Nat
                            /\ Kept(q, "sell") \in Nat /\ Kept(q, "buy") \in Nat
                            /\ Kept(q, "sell")' = Kept(q, "sell") /\ Kept(q, "buy")' \in Nat
                            /\ q # r => Kept(q, "buy")' = Kept(q, "buy")
                            /\ q = r => Kept(q, "buy")' + w = Kept(q, "buy")
      BY <1>0, <1>1, <2>1, <3>1, <3>2, <3>3, OwnType
    <3>6. /\ GoodsOf(r)' = GoodsOf(r) + n /\ GoldOf(r)' + w = GoldOf(r)
          /\ GoodsOf(p)' + n = GoodsOf(p) /\ GoldOf(p)' = GoldOf(p) + w
      <4>1. p # r /\ Kept(p, "sell")' = Kept(p, "sell") /\ Kept(p, "buy")' = Kept(p, "buy")
        BY <2>1, <3>5
      <4>2. /\ gold'[r] = gold[r] /\ Kept(r, "sell")' = Kept(r, "sell")
            /\ Kept(r, "buy")' + w = Kept(r, "buy")
        BY <1>1, <2>1, <3>3, <3>5
      <4>3. /\ gold[p] \in Nat /\ Kept(p, "buy") \in Nat /\ stash[p] \in Nat /\ stash'[p] \in Nat
            /\ locker[p] \in Nat /\ locker'[p] \in Nat /\ Kept(p, "sell") \in Nat
            /\ w \in Nat /\ n \in Nat
            /\ gold[r] \in Nat /\ Kept(r, "buy") \in Nat /\ Kept(r, "buy")' \in Nat
            /\ stash[r] \in Nat /\ locker[r] \in Nat /\ Kept(r, "sell") \in Nat
        BY <1>1, <3>5
      <4>4. GoodsOf(p)' + n = GoodsOf(p)
        BY <3>2, <4>1, <4>3 DEF GoodsOf
      <4>5. GoldOf(p)' = GoldOf(p) + w
        BY <3>3, <4>1, <4>3 DEF GoldOf
      <4>6. GoodsOf(r)' = GoodsOf(r) + n
        BY <3>2, <4>2, <4>3 DEF GoodsOf
      <4>7. GoldOf(r)' + w = GoldOf(r)
        BY <4>2, <4>3 DEF GoldOf
      <4>8. QED
        BY <4>4, <4>5, <4>6, <4>7
    <3>7. \A q \in Player \ {r, p} : Keeps(q)
      BY <3>2, <3>3, <3>5 DEF Keeps, GoodsOf, GoldOf
    <3>8. Trades(r, p, n, c)
      BY <3>6 DEF Trades, o, w
    <3>9. Settled(id)
      BY <1>0, <1>a, <2>1, <3>1, <3>7, <3>8 DEF Settled, o
    <3>10. QED
      BY <1>0, <3>1, <3>4, <3>9 DEF Outcome
  <2>3. CASE LoseOfferItems(p, n) /\ gold' = gold /\ offers' = offers
    <3>1. /\ stash' \in [Player -> Nat] /\ locker' \in [Player -> Nat]
          /\ stash'[p] + locker'[p] <= stash[p] + locker[p]
          /\ \A q \in Player \ {p} : stash'[q] = stash[q] /\ locker'[q] = locker[q]
      BY <1>0, <2>3, LoseFacts
    <3>2. \A q, s : Kept(q, s)' = Kept(q, s)
      BY <2>3 DEF Kept, WorthOf, OffersBy
    <3>3. TypeOK'
      BY <1>0, <2>3, <3>1, TypeStays DEF TypeOK
    <3>4. RowsCurrent'
      BY <1>0, <2>3 DEF IInv, RowsCurrent, Listed
    <3>5. Loses(p)
      <4>1. stash'[p] \in Nat /\ locker'[p] \in Nat
        BY <3>1
      <4>2. QED
        BY <1>0, <2>3, <3>1, <3>2, <4>1, OwnType DEF Loses, GoodsOf, GoldOf
    <3>6. \A q \in Player \ {p} : Keeps(q)
      BY <2>3, <3>1, <3>2 DEF Keeps, GoodsOf, GoldOf
    <3>7. QED
      BY <1>1, <3>3, <3>4, <3>5, <3>6 DEF Outcome
  <2>4. QED
    BY <1>4, <1>a, <2>2, <2>3 DEF SellTo
<1>5. QED
  BY <1>3, <1>4 DEF Accept

LEMMA AgeStep ==
  ASSUME IInv, NEW id \in Id, Age(id)
  PROVE  TypeOK' /\ RowsCurrent' /\ Outcome
<1> DEFINE o == offers[id]
           aged == [o EXCEPT !.old = TRUE]
<1>0. /\ TypeOK /\ id \in Listed /\ offers' = [offers EXCEPT ![id].old = TRUE]
      /\ gold' = gold /\ stash' = stash /\ locker' = locker /\ batches' = batches
  BY DEF IInv, Age
<1>1. o \in Row /\ o.price \in Prices
  BY <1>0, OfferFacts
<1>2. /\ offers \in Tables /\ DOMAIN offers = Listed /\ Listed \subseteq Id
      /\ \A i \in Listed : offers[i] \in Row
  BY <1>0, Tabled DEF TypeOK, Listed
<1>3. aged \in Row /\ Agrees(o, aged)
  BY <1>1 DEF Row, Agrees, Worth
<1>4. /\ DOMAIN offers' = Listed /\ offers'[id] = aged
      /\ \A i \in Listed \ {id} : offers'[i] = offers[i]
      /\ offers' = [i \in DOMAIN offers' |-> offers'[i]]
  BY <1>0, <1>2
<1> HIDE DEF aged
<1>5. offers' \in Tables
  <2>1. \A i \in DOMAIN offers' : offers'[i] \in Row
    BY <1>2, <1>3, <1>4
  <2>2. QED
    BY <1>2, <1>4, <2>1, Tabled
<1>6. \A i \in Listed : Agrees(offers[i], offers'[i])
  BY <1>3, <1>4 DEF Agrees
<1>7. TypeOK'
  BY <1>0, <1>5, TypeStays DEF TypeOK
<1>8. RowsCurrent'
  BY <1>0, <1>4, <1>6, RowsStay
<1>9. ASSUME NEW q \in Player
      PROVE  Keeps(q)
  <2>1. ASSUME NEW s
        PROVE  Kept(q, s)' = Kept(q, s)
    <3>1. OffersBy(offers', q, s) = OffersBy(offers, q, s)
      BY <1>2, <1>4, <1>6 DEF OffersBy, Agrees
    <3>2. OffersBy(offers, q, s) \in SUBSET (DOMAIN offers) /\ OffersBy(offers, q, s) \subseteq DOMAIN offers'
      BY <1>2, <1>4 DEF OffersBy
    <3>3. \A i \in OffersBy(offers, q, s) : Worth(offers[i]) = Worth(offers'[i])
      BY <1>2, <1>6, <3>2 DEF Agrees
    <3>4. WorthOf(offers, OffersBy(offers, q, s)) = WorthOf(offers', OffersBy(offers, q, s))
      BY <1>2, <1>5, <3>2, <3>3, WorthOfCong
    <3>5. QED
      BY <3>1, <3>4 DEF Kept
  <2>2. QED
    BY <1>0, <2>1 DEF Keeps, GoodsOf, GoldOf
<1>10. QED
  BY <1>1, <1>7, <1>8, <1>9 DEF Outcome

LEMMA CheckExpiredStep ==
  ASSUME IInv, CheckExpired
  PROVE  TypeOK' /\ RowsCurrent' /\ Outcome
<1> DEFINE rows == [id \in Expired |-> offers[id]]
<1>0. /\ TypeOK /\ RowsCurrent /\ batches \in Seq(Tables)
      /\ Expired # {} /\ batches' = Append(batches, rows)
      /\ gold' = gold /\ stash' = stash /\ locker' = locker /\ offers' = offers
  BY DEF IInv, TypeOK, CheckExpired
<1>1. Expired \subseteq Listed /\ Listed \subseteq Id /\ \A i \in Listed : offers[i] \in Row
  BY <1>0, Tabled DEF TypeOK, Listed, Expired
<1>2. /\ DOMAIN rows = Expired /\ (\A i \in Expired : rows[i] = offers[i])
      /\ rows = [i \in DOMAIN rows |-> rows[i]]
  OBVIOUS
<1> HIDE DEF rows
<1>3. rows \in Tables
  BY <1>1, <1>2, Tabled
<1>4. /\ batches' \in Seq(Tables) /\ Len(batches') = Len(batches) + 1
      /\ \A k \in 1 .. Len(batches) : batches'[k] = batches[k]
      /\ batches'[Len(batches) + 1] = rows
  BY <1>0, <1>3, AppendProperties
<1>5. \A k \in 1 .. Len(batches') : k \in 1 .. Len(batches) \/ k = Len(batches) + 1
  BY <1>0, <1>4, LenProperties
<1>6. TypeOK'
  <2>1. \A k \in 1 .. Len(batches') : DOMAIN batches'[k] # {}
    BY <1>0, <1>2, <1>4, <1>5 DEF TypeOK
  <2>2. QED
    BY <1>0, <1>4, <2>1 DEF TypeOK
<1>7. RowsCurrent'
  <2>1. ASSUME NEW k \in 1 .. Len(batches'), NEW id \in DOMAIN batches'[k], id \in Listed
        PROVE  Agrees(batches'[k][id], offers[id])
    <3>1. CASE k \in 1 .. Len(batches)
      BY <1>0, <1>4, <2>1, <3>1 DEF RowsCurrent
    <3>2. CASE k = Len(batches) + 1
      BY <1>2, <1>4, <2>1, <3>2 DEF Agrees
    <3>3. QED
      BY <1>5, <3>1, <3>2
  <2>2. QED
    BY <1>0, <2>1 DEF RowsCurrent, Listed
<1>8. \A q \in Player : Keeps(q)
  BY <1>0 DEF Keeps, GoodsOf, GoldOf, Kept, WorthOf, OffersBy
<1>9. QED
  BY <1>6, <1>7, <1>8 DEF Outcome

LEMMA ProcessExpiredStep ==
  ASSUME IInv, ProcessExpired
  PROVE  TypeOK' /\ RowsCurrent' /\ Outcome
<1> DEFINE rows == Head(batches)
           ids == StillListed(Head(batches))
<1>0. /\ TypeOK /\ RowsCurrent /\ batches \in Seq(Tables) /\ batches # <<>> /\ offers \in Tables
      /\ gold \in [Player -> Nat] /\ stash \in [Player -> Nat] /\ locker \in [Player -> Nat]
      /\ batches' = Tail(batches) /\ stash' = stash /\ offers' = Without(ids)
      /\ gold' = [p \in Player |-> gold[p] + Returned(rows, p, "buy")]
      /\ locker' = [p \in Player |-> locker[p] + Returned(rows, p, "sell")]
  BY DEF IInv, TypeOK, ProcessExpired
<1>1. /\ 1 \in 1 .. Len(batches) /\ rows = batches[1] /\ rows \in Tables
      /\ batches' \in Seq(Tables) /\ Len(batches') = Len(batches) - 1
      /\ \A k \in 1 .. Len(batches') : k + 1 \in 1 .. Len(batches) /\ batches'[k] = batches[k + 1]
  <2>1. Len(batches) \in Nat /\ Len(batches) >= 1 /\ \A k \in 1 .. Len(batches) : batches[k] \in Tables
    BY <1>0
  <2>2. rows = batches[1] /\ rows \in Tables
    BY <1>0, <2>1
  <2> HIDE DEF rows, ids
  <2>3. batches' \in Seq(Tables) /\ Len(batches') = Len(batches) - 1
    BY <1>0
  <2>4. \A k \in 1 .. (Len(batches) - 1) : Tail(batches)[k] = batches[k + 1]
    BY <1>0
  <2>5. QED
    BY <1>0, <2>1, <2>2, <2>3, <2>4
<1>2. ids \subseteq DOMAIN rows /\ ids \subseteq DOMAIN offers /\ \A id \in ids : Agrees(rows[id], offers[id])
  BY <1>0, <1>1 DEF StillListed, Listed, RowsCurrent
<1> HIDE DEF rows, ids
<1>4. /\ offers' \in Tables /\ DOMAIN offers' = DOMAIN offers \ ids
      /\ \A id \in DOMAIN offers' : offers'[id] = offers[id]
  BY <1>0, WithoutTable DEF Listed
<1>5. ASSUME NEW q, NEW s
      PROVE  /\ Kept(q, s)' \in Nat /\ Returned(rows, q, s) \in Nat
             /\ Kept(q, s) = Kept(q, s)' + Returned(rows, q, s)
  <2>1. KeptIn(offers, q, s) = KeptIn(offers', q, s) + WorthOf(rows, OffersBy(rows, q, s) \cap ids)
    <3>1. offers \in Tables /\ rows \in Tables
      BY <1>0, <1>1
    <3>2. QED
      BY <1>2, <1>4, <3>1, RowsReturned
  <2>2. OffersBy(rows, q, s) \cap ids \in SUBSET (DOMAIN rows)
    BY <1>2
  <2>3. WorthOf(rows, OffersBy(rows, q, s) \cap ids) \in Nat /\ KeptIn(offers', q, s) \in Nat
    BY <1>1, <1>4, <2>2, WorthOfType, KeptInType
  <2>4. Returned(rows, q, s) = WorthOf(rows, OffersBy(rows, q, s) \cap ids)
    BY DEF Returned, ids, rows
  <2>5. QED
    BY <2>1, <2>3, <2>4 DEF Kept, KeptIn
<1>6. TypeOK'
  <2>1. \A k \in 1 .. Len(batches') : DOMAIN batches'[k] # {}
    BY <1>0, <1>1 DEF TypeOK
  <2>2. /\ gold' = [p \in Player |-> gold[p] + Returned(rows, p, "buy")]
        /\ locker' = [p \in Player |-> locker[p] + Returned(rows, p, "sell")]
    BY <1>0
  <2>3. \A p \in Player : /\ gold[p] + Returned(rows, p, "buy") \in Nat
                          /\ locker[p] + Returned(rows, p, "sell") \in Nat
    <3>1. ASSUME NEW p \in Player
          PROVE  gold[p] \in Nat /\ locker[p] \in Nat
      BY <1>0
    <3>2. QED
      BY <1>5, <3>1
  <2>4. gold' \in [Player -> Nat] /\ locker' \in [Player -> Nat]
    BY <2>2, <2>3
  <2>5. QED
    BY <1>0, <1>1, <1>4, <2>1, <2>4 DEF TypeOK
<1>7. RowsCurrent'
  <2>1. \A k \in 1 .. Len(batches') : \A id \in DOMAIN batches'[k] \cap DOMAIN offers' :
          Agrees(batches'[k][id], offers'[id])
    BY <1>0, <1>1, <1>4 DEF RowsCurrent, Listed
  <2>2. QED
    BY <2>1 DEF RowsCurrent, Listed
<1>8. ASSUME NEW q \in Player
      PROVE  Keeps(q)
  <2>1. /\ gold[q] \in Nat /\ stash[q] \in Nat /\ locker[q] \in Nat
        /\ gold'[q] = gold[q] + Returned(rows, q, "buy")
        /\ locker'[q] = locker[q] + Returned(rows, q, "sell")
    BY <1>0
  <2>2. QED
    BY <1>0, <1>5, <2>1 DEF Keeps, GoodsOf, GoldOf
<1>9. QED
  BY <1>6, <1>7, <1>8 DEF Outcome

LEMMA NextStep ==
  ASSUME ~PartialInFlight, IInv, Next
  PROVE  TypeOK' /\ RowsCurrent' /\ Outcome
<1>0. 1 .. MaxAmount \subseteq Nat \ {0}
  BY MarketAssumption
<1>1. CASE \E p \in Player, n \in 1 .. MaxAmount, price \in Prices : SellFor(p, n, price) \/ BuyFor(p, n, price)
  BY <1>0, <1>1, SellForStep, BuyForStep
<1>2. CASE \E id \in Id : Cancel(id) \/ Age(id)
  BY <1>2, CancelStep, AgeStep
<1>3. CASE \E p \in Player, id \in Id, n \in 1 .. MaxAmount : Accept(p, id, n)
  BY <1>0, <1>3, AcceptStep
<1>4. CASE CheckExpired
  BY <1>4, CheckExpiredStep
<1>5. CASE ProcessExpired
  BY <1>5, ProcessExpiredStep
<1>6. QED
  BY <1>1, <1>2, <1>3, <1>4, <1>5 DEF Next

LEMMA InitSound == Init => IInv
<1> SUFFICES ASSUME Init PROVE IInv
  OBVIOUS
<1>1. DOMAIN offers = {} /\ batches = <<>> /\ Len(batches) = 0
  BY DEF Init
<1>2. offers = [id \in {} |-> offers[id]]
  BY DEF Init
<1>3. offers \in Tables
  BY <1>1, <1>2, Tabled
<1>4. gold \in [Player -> Nat] /\ stash \in [Player -> Nat] /\ locker \in [Player -> Nat]
  BY MarketAssumption DEF Init
<1>5. batches \in Seq(Tables)
  BY <1>1
<1>6. QED
  BY <1>1, <1>3, <1>4, <1>5 DEF IInv, TypeOK, RowsCurrent

LEMMA InvariantHolds ==
  ASSUME ~PartialInFlight
  PROVE  Spec => []IInv
<1>1. IInv /\ [Next]_vars => IInv'
  <2>1. ASSUME IInv, Next PROVE IInv'
    BY <2>1, NextStep DEF IInv
  <2>2. ASSUME IInv, UNCHANGED vars PROVE IInv'
    BY <2>2 DEF IInv, TypeOK, RowsCurrent, Agrees, Worth, Listed, vars
  <2>3. QED
    BY <2>1, <2>2
<1>2. QED
  BY <1>1, InitSound, PTL DEF Spec

-----------------------------------------------------------------------------
(* The sum over all players grows in no outcome.                           *)
LEMMA TotalMoves ==
  ASSUME NEW f \in [Player -> Nat], NEW g \in [Player -> Nat],
         NEW p \in Player, NEW q \in Player, p # q,
         \A r \in Player \ {p, q} : g[r] = f[r], g[p] + g[q] <= f[p] + f[q]
  PROVE  SumFunction(g) <= SumFunction(f)
<1> DEFINE others == (Player \ {p}) \ {q}
<1>1. /\ IsFiniteSet(Player) /\ IsFiniteSet(Player \ {p}) /\ IsFiniteSet(others)
      /\ q \in Player \ {p} /\ others \subseteq Player
  BY MarketAssumption, FS_RemoveElement
<1>2. ASSUME NEW h \in [Player -> Nat]
      PROVE  /\ SumFunction(h) = h[p] + h[q] + SumFunctionOnSet(h, others)
             /\ SumFunctionOnSet(h, others) \in Nat /\ h[p] \in Nat /\ h[q] \in Nat
  <2>1. \A r \in Player : h[r] \in Nat
    OBVIOUS
  <2>2. SumFunctionOnSet(h, Player) = h[p] + SumFunctionOnSet(h, Player \ {p})
    BY <1>1, <2>1, SumAdd
  <2>3. SumFunctionOnSet(h, Player \ {p}) = h[q] + SumFunctionOnSet(h, others)
    BY <1>1, <2>1, SumAdd
  <2>4. SumFunctionOnSet(h, others) \in Nat
    BY <1>1, <2>1, SumType
  <2>5. SumFunction(h) = SumFunctionOnSet(h, Player)
    BY DEF SumFunction
  <2> HIDE DEF others
  <2>6. QED
    BY <2>1, <2>2, <2>3, <2>4, <2>5
<1>3. SumFunctionOnSet(f, others) = SumFunctionOnSet(g, others)
  <2>1. \A r \in others : f[r] \in Nat /\ f[r] = g[r]
    OBVIOUS
  <2> HIDE DEF others
  <2>2. QED
    BY <1>1, <2>1, SumCong
<1> HIDE DEF others
<1>4. QED
  BY <1>2, <1>3

LEMMA TotalFalls ==
  ASSUME NEW f \in [Player -> Nat], NEW g \in [Player -> Nat], \A p \in Player : g[p] <= f[p]
  PROVE  SumFunction(g) <= SumFunction(f)
<1>1. SumFunctionOnSet(g, Player) <= SumFunctionOnSet(f, Player)
  BY MarketAssumption, SumLe
<1>2. QED
  BY <1>1 DEF SumFunction

LEMMA OwnTypes == TypeOK => \A p \in Player : GoodsOf(p) \in Nat /\ GoldOf(p) \in Nat
BY OwnType

LEMMA OwnTypesThen == (TypeOK => \A p \in Player : GoodsOf(p) \in Nat /\ GoldOf(p) \in Nat)'
<1>1. TypeOK => \A p \in Player : GoodsOf(p) \in Nat /\ GoldOf(p) \in Nat
  BY OwnTypes
<1>2. QED
  BY <1>1, PTL

LEMMA NothingMade ==
  ASSUME TypeOK, TypeOK', Outcome
  PROVE  Goods' <= Goods /\ Gold' <= Gold
<1>1. PICK f \in [Player -> Nat] : f = [p \in Player |-> GoodsOf(p)]
  BY OwnTypes
<1>2. PICK g \in [Player -> Nat] : g = [p \in Player |-> GoodsOf(p)']
  BY OwnTypesThen
<1>3. PICK h \in [Player -> Nat] : h = [p \in Player |-> GoldOf(p)]
  BY OwnTypes
<1>4. PICK k \in [Player -> Nat] : k = [p \in Player |-> GoldOf(p)']
  BY OwnTypesThen
<1>5. /\ Goods = SumFunction(f) /\ Goods' = SumFunction(g)
      /\ Gold = SumFunction(h) /\ Gold' = SumFunction(k)
  BY <1>1, <1>2, <1>3, <1>4 DEF Goods, Gold
<1>6. \A p \in Player : /\ f[p] = GoodsOf(p) /\ g[p] = GoodsOf(p)'
                        /\ h[p] = GoldOf(p) /\ k[p] = GoldOf(p)'
                        /\ f[p] \in Nat /\ g[p] \in Nat /\ h[p] \in Nat /\ k[p] \in Nat
  BY <1>1, <1>2, <1>3, <1>4
<1>7. Fee \in Nat
  BY MarketAssumption
<1>8. CASE \A q \in Player : Keeps(q)
  <2>1. \A q \in Player : g[q] <= f[q] /\ k[q] <= h[q]
    BY <1>6, <1>8 DEF Keeps
  <2>2. QED
    BY <1>5, <2>1, TotalFalls
<1>9. ASSUME NEW p \in Player, PaysFee(p) \/ Loses(p), \A q \in Player \ {p} : Keeps(q)
      PROVE  Goods' <= Goods /\ Gold' <= Gold
  <2>1. g[p] <= f[p] /\ k[p] <= h[p]
    BY <1>6, <1>7, <1>9 DEF PaysFee, Loses
  <2>2. \A q \in Player : g[q] <= f[q] /\ k[q] <= h[q]
    BY <1>6, <1>9, <2>1 DEF Keeps
  <2>3. QED
    BY <1>5, <2>2, TotalFalls
<1>10. ASSUME NEW id \in Listed, Settled(id)
       PROVE  Goods' <= Goods /\ Gold' <= Gold
  <2>1. PICK n : n = Sold(id)
    OBVIOUS
  <2>2. n \in Nat /\ offers[id].price \in Prices
    <3>1. offers[id].amount \in Nat /\ offers[id].price \in Prices
      BY OfferFacts
    <3>2. \A i \in DOMAIN offers' : offers'[i].amount \in Nat
      BY Tabled DEF TypeOK, Row
    <3>3. Sold(id) \in Int /\ Sold(id) > 0
      BY <1>10, <3>1, <3>2 DEF Settled, Sold, Listed
    <3>4. QED
      BY <2>1, <3>1, <3>3
  <2>3. PICK price \in Prices : price = offers[id].price
    BY <2>2
  <2>4. PICK p \in Player, q \in Player :
          p # q /\ Trades(p, q, n, price) /\ \A r \in Player \ {p, q} : Keeps(r)
    BY <1>10, <2>1, <2>3 DEF Settled
  <2>5. n * price \in Nat
    BY <2>2, ValueFacts
  <2>6. /\ \A r \in Player \ {p, q} : g[r] = f[r] /\ k[r] = h[r]
        /\ g[p] + g[q] <= f[p] + f[q]
    BY <1>6, <2>2, <2>4 DEF Keeps, Trades
  <2>7. k[p] + k[q] <= h[p] + h[q]
    BY <1>6, <2>4, <2>5 DEF Trades
  <2>8. QED
    BY <1>5, <2>4, <2>6, <2>7, TotalMoves
<1>11. QED
  BY <1>8, <1>9, <1>10 DEF Outcome

-----------------------------------------------------------------------------
\* While no offer of a result under way is accepted in part, a row tells what
\* its offer is worth until it is worked through.
THEOREM RowsStayCurrent == ASSUME ~PartialInFlight PROVE Spec => [](TypeOK /\ RowsCurrent)
<1>1. IInv => TypeOK /\ RowsCurrent
  BY DEF IInv
<1>2. QED
  BY <1>1, InvariantHolds, PTL

\* ... then no handler makes goods or gold, whatever the offers, and however
\* acceptance, cancelling and the return of expired ones interleave.
THEOREM MarketMakesNothing == ASSUME ~PartialInFlight PROVE Spec => NothingIsCloned
<1>1. IInv /\ [Next]_vars => [Goods' <= Goods /\ Gold' <= Gold]_vars
  <2> SUFFICES ASSUME IInv, Next PROVE Goods' <= Goods /\ Gold' <= Gold
    BY DEF vars
  <2>1. QED
    BY NextStep, NothingMade DEF IInv
<1>2. QED
  BY <1>1, InvariantHolds, PTL DEF Spec, NothingIsCloned

\* ... and whatever is accepted is paid between its owner and one other player
\* at the price of that offer, for the pieces the offer is then shorter by.
THEOREM EveryTradeIsPaid == ASSUME ~PartialInFlight PROVE Spec => TradesArePaid
<1>1. IInv /\ [Next]_vars => [Outcome]_vars
  <2> SUFFICES ASSUME IInv, Next PROVE Outcome
    BY DEF vars
  <2>1. QED
    BY NextStep
<1>2. QED
  BY <1>1, InvariantHolds, PTL DEF Spec, TradesArePaid, Outcome

=============================================================================
