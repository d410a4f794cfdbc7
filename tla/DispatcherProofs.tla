-------------------------- MODULE DispatcherProofs --------------------------
(***************************************************************************)
(* The two models of the dispatcher.                                       *)
(*                                                                         *)
(* DispatcherLanes, for any tasks, lanes, threads and limits: the          *)
(* admission counters are exact, a task holds a slot as long as it is      *)
(* queued and not stopped, a stopped task does not run, the tasks of a     *)
(* producer run in order, a task leaves only by running, lanes are served  *)
(* in turn, and a pass over them ends.                                     *)
(*                                                                         *)
(* DispatcherWakeup, for any set of publishing threads and any number of   *)
(* slices: nobody sleeps over work, and a pass of the loop ends.           *)
(***************************************************************************)
EXTENDS DispatcherLanes, DispatcherWakeup, FiniteSetTheorems, SequenceTheorems, TLAPS

-----------------------------------------------------------------------------
(* Queues: which tasks are in one, and each of them once.                  *)
Once(s) == \A i, j \in 1 .. Len(s) : s[i] = s[j] => i = j

LEMMA ToSetDef == ASSUME NEW T, NEW s \in Seq(T) PROVE ToSet(s) = {s[i] : i \in 1 .. Len(s)}
  BY LenProperties DEF ToSet

LEMMA ToSetEmpty == ToSet(<<>>) = {} /\ Once(<<>>)
  BY DEF ToSet, Once

LEMMA ToSetConcat ==
  ASSUME NEW T, NEW s \in Seq(T), NEW u \in Seq(T)
  PROVE  /\ s \o u \in Seq(T)
         /\ ToSet(s \o u) = ToSet(s) \cup ToSet(u)
         /\ Once(s) /\ Once(u) /\ ToSet(s) \cap ToSet(u) = {} => Once(s \o u)
<1>1. /\ s \o u \in Seq(T)
      /\ Len(s \o u) = Len(s) + Len(u)
      /\ \A i \in 1 .. Len(s) + Len(u) : (s \o u)[i] = IF i <= Len(s) THEN s[i] ELSE u[i - Len(s)]
  BY ConcatProperties
<1>2. Len(s) \in Nat /\ Len(u) \in Nat
  BY LenProperties
<1>3. /\ ToSet(s) = {s[i] : i \in 1 .. Len(s)} /\ ToSet(u) = {u[i] : i \in 1 .. Len(u)}
      /\ ToSet(s \o u) = {(s \o u)[i] : i \in 1 .. Len(s \o u)}
  BY <1>1, ToSetDef
<1>4. ToSet(s \o u) \subseteq ToSet(s) \cup ToSet(u)
  <2> SUFFICES ASSUME NEW i \in 1 .. Len(s) + Len(u) PROVE (s \o u)[i] \in ToSet(s) \cup ToSet(u)
    BY <1>1, <1>3
  <2>1. CASE i <= Len(s)
    BY <1>1, <1>2, <1>3, <2>1
  <2>2. CASE ~(i <= Len(s))
    <3>1. i - Len(s) \in 1 .. Len(u)
      BY <1>2, <2>2
    <3> QED BY <1>1, <1>3, <2>2, <3>1
  <2> QED BY <2>1, <2>2
<1>5. ToSet(s) \subseteq ToSet(s \o u)
  <2> SUFFICES ASSUME NEW i \in 1 .. Len(s) PROVE s[i] \in ToSet(s \o u)
    BY <1>3
  <2>1. i \in 1 .. Len(s) + Len(u) /\ (s \o u)[i] = s[i]
    BY <1>1, <1>2
  <2> QED BY <1>1, <1>3, <2>1
<1>6. ToSet(u) \subseteq ToSet(s \o u)
  <2> SUFFICES ASSUME NEW i \in 1 .. Len(u) PROVE u[i] \in ToSet(s \o u)
    BY <1>3
  <2>1. i + Len(s) \in 1 .. Len(s) + Len(u) /\ ~(i + Len(s) <= Len(s)) /\ i + Len(s) - Len(s) = i
    BY <1>2
  <2>2. (s \o u)[i + Len(s)] = u[i]
    BY <1>1, <2>1
  <2> QED BY <1>1, <1>3, <2>1, <2>2
<1>7. ASSUME Once(s), Once(u), ToSet(s) \cap ToSet(u) = {} PROVE Once(s \o u)
  <2> SUFFICES ASSUME NEW i \in 1 .. Len(s) + Len(u), NEW j \in 1 .. Len(s) + Len(u),
                      (s \o u)[i] = (s \o u)[j]
               PROVE  i = j
    BY <1>1 DEF Once
  <2>0. i \in Nat /\ j \in Nat
    BY <1>2
  <2>1. CASE i <= Len(s) /\ j <= Len(s)
    <3>1. i \in 1 .. Len(s) /\ j \in 1 .. Len(s) /\ s[i] = s[j]
      BY <1>1, <1>2, <2>1
    <3> QED BY <1>7, <3>1 DEF Once
  <2>2. CASE ~(i <= Len(s)) /\ ~(j <= Len(s))
    <3>1. i - Len(s) \in 1 .. Len(u) /\ j - Len(s) \in 1 .. Len(u) /\ u[i - Len(s)] = u[j - Len(s)]
      BY <1>1, <1>2, <2>2
    <3>2. i - Len(s) = j - Len(s)
      BY <1>7, <3>1 DEF Once
    <3> QED BY <1>2, <2>0, <3>2
  <2>3. CASE i <= Len(s) /\ ~(j <= Len(s))
    <3>1. i \in 1 .. Len(s) /\ j - Len(s) \in 1 .. Len(u) /\ s[i] = u[j - Len(s)]
      BY <1>1, <1>2, <2>3
    <3> QED BY <1>3, <1>7, <3>1
  <2>4. CASE ~(i <= Len(s)) /\ j <= Len(s)
    <3>1. j \in 1 .. Len(s) /\ i - Len(s) \in 1 .. Len(u) /\ s[j] = u[i - Len(s)]
      BY <1>1, <1>2, <2>4
    <3> QED BY <1>3, <1>7, <3>1
  <2> QED BY <2>1, <2>2, <2>3, <2>4
<1> QED BY <1>1, <1>4, <1>5, <1>6, <1>7

LEMMA OneTask == ASSUME NEW T, NEW t \in T PROVE <<t>> \in Seq(T) /\ ToSet(<<t>>) = {t} /\ Once(<<t>>)
<1>1. <<t>> \in Seq(T) /\ Len(<<t>>) = 1 /\ <<t>>[1] = t
  OBVIOUS
<1>2. 1 .. 1 = {1}
  OBVIOUS
<1>3. ToSet(<<t>>) = {<<t>>[i] : i \in 1 .. 1}
  BY <1>1, ToSetDef
<1>4. Once(<<t>>)
  BY <1>1, <1>2 DEF Once
<1> QED BY <1>1, <1>2, <1>3, <1>4

LEMMA ToSetAppend ==
  ASSUME NEW T, NEW s \in Seq(T), NEW t \in T
  PROVE  /\ Append(s, t) \in Seq(T)
         /\ ToSet(Append(s, t)) = ToSet(s) \cup {t}
         /\ Once(s) /\ t \notin ToSet(s) => Once(Append(s, t))
<1>1. Append(s, t) = s \o <<t>>
  BY AppendIsConcat
<1> DEFINE u == <<t>>
<1>2. u \in Seq(T) /\ ToSet(u) = {t} /\ Once(u)
  BY OneTask
<1> HIDE DEF u
<1>3. /\ s \o u \in Seq(T)
      /\ ToSet(s \o u) = ToSet(s) \cup ToSet(u)
      /\ Once(s) /\ ToSet(s) \cap ToSet(u) = {} => Once(s \o u)
  BY <1>2, ToSetConcat
<1> QED BY <1>1, <1>2, <1>3 DEF u

(* A queue is what comes before an entry, and what comes from it on.       *)
LEMMA Cut ==
  ASSUME NEW T, NEW s \in Seq(T), NEW n \in 0 .. Len(s)
  PROVE  /\ SubSeq(s, 1, n) \in Seq(T) /\ SubSeq(s, n + 1, Len(s)) \in Seq(T)
         /\ ToSet(SubSeq(s, 1, n)) = {s[i] : i \in 1 .. n}
         /\ ToSet(SubSeq(s, n + 1, Len(s))) = {s[i] : i \in n + 1 .. Len(s)}
         /\ Once(s) => Once(SubSeq(s, 1, n)) /\ Once(SubSeq(s, n + 1, Len(s)))
<1> DEFINE a == SubSeq(s, 1, n)
           b == SubSeq(s, n + 1, Len(s))
<1>1. Len(s) \in Nat /\ n \in Nat /\ \A i \in 1 .. Len(s) : s[i] \in T
  BY LenProperties
<1>2. \A i \in 1 .. n : s[i] \in T
  BY <1>1
<1>2a. \A i \in n + 1 .. Len(s) : s[i] \in T
  BY <1>1
<1>2b. 1 \in Int /\ n \in Int /\ n + 1 \in Int /\ Len(s) \in Int
  BY <1>1
<1>3. /\ a \in Seq(T)
      /\ Len(a) = IF 1 <= n THEN n - 1 + 1 ELSE 0
      /\ \A i \in 1 .. n - 1 + 1 : a[i] = s[1 + i - 1]
  BY <1>2, <1>2b, SubSeqProperties
<1>4. /\ b \in Seq(T)
      /\ Len(b) = IF n + 1 <= Len(s) THEN Len(s) - (n + 1) + 1 ELSE 0
      /\ \A i \in 1 .. Len(s) - (n + 1) + 1 : b[i] = s[n + 1 + i - 1]
  BY <1>2a, <1>2b, SubSeqProperties
<1> HIDE DEF a, b
<1>5. Len(a) = n /\ \A i \in 1 .. n : a[i] = s[i]
  BY <1>1, <1>3
<1>6. Len(b) = Len(s) - n /\ \A i \in 1 .. Len(s) - n : b[i] = s[n + i]
  BY <1>1, <1>4
<1>7. ToSet(a) = {s[i] : i \in 1 .. n}
  <2>1. ToSet(a) = {a[i] : i \in 1 .. n}
    <3>1. a \in Seq(T)
      BY <1>3
    <3>2. ToSet(a) = {a[i] : i \in 1 .. Len(a)}
      BY <3>1, ToSetDef
    <3> QED BY <3>2, <1>5
  <2> QED BY <2>1, <1>5
<1>8. ToSet(b) = {s[i] : i \in n + 1 .. Len(s)}
  <2>1. ToSet(b) = {b[i] : i \in 1 .. Len(s) - n}
    BY <1>4, <1>6, ToSetDef
  <2>2. \A i \in 1 .. Len(s) - n : n + i \in n + 1 .. Len(s) /\ b[i] = s[n + i]
    BY <1>1, <1>6
  <2>3. \A i \in n + 1 .. Len(s) : i - n \in 1 .. Len(s) - n /\ b[i - n] = s[i]
    <3> SUFFICES ASSUME NEW i \in n + 1 .. Len(s) PROVE i - n \in 1 .. Len(s) - n /\ b[i - n] = s[i]
      OBVIOUS
    <3>1. i - n \in 1 .. Len(s) - n /\ n + (i - n) = i
      BY <1>1
    <3>2. b[i - n] = s[n + (i - n)]
      BY <1>6, <3>1
    <3> QED BY <3>1, <3>2
  <2> QED BY <2>1, <2>2, <2>3
<1>9. ASSUME Once(s) PROVE Once(a)
  <2> SUFFICES ASSUME NEW i \in 1 .. n, NEW j \in 1 .. n, a[i] = a[j]
               PROVE  i = j
    BY <1>5 DEF Once
  <2>1. i \in 1 .. Len(s) /\ j \in 1 .. Len(s) /\ s[i] = s[j]
    BY <1>1, <1>5
  <2> QED BY <1>9, <2>1 DEF Once
<1>10. ASSUME Once(s) PROVE Once(b)
  <2> SUFFICES ASSUME NEW i \in 1 .. Len(s) - n, NEW j \in 1 .. Len(s) - n, b[i] = b[j]
               PROVE  i = j
    BY <1>6 DEF Once
  <2>1. n + i \in 1 .. Len(s) /\ n + j \in 1 .. Len(s) /\ s[n + i] = s[n + j]
    BY <1>1, <1>6
  <2>2. n + i = n + j
    BY <1>10, <2>1 DEF Once
  <2> QED BY <1>1, <2>2
<1> QED BY <1>3, <1>4, <1>7, <1>8, <1>9, <1>10 DEF a, b

LEMMA ToSetRest ==
  ASSUME NEW T, NEW s \in Seq(T), Once(s), NEW n \in 0 .. Len(s)
  PROVE  ToSet(SubSeq(s, n + 1, Len(s))) = ToSet(s) \ ToSet(SubSeq(s, 1, n))
<1>1. Len(s) \in Nat /\ n \in Nat /\ n <= Len(s)
  BY LenProperties
<1>2. /\ ToSet(SubSeq(s, 1, n)) = {s[i] : i \in 1 .. n}
      /\ ToSet(SubSeq(s, n + 1, Len(s))) = {s[i] : i \in n + 1 .. Len(s)}
      /\ ToSet(s) = {s[i] : i \in 1 .. Len(s)}
  <2>1. ToSet(s) = {s[i] : i \in 1 .. Len(s)}
    BY ToSetDef
  <2>2. /\ ToSet(SubSeq(s, 1, n)) = {s[i] : i \in 1 .. n}
        /\ ToSet(SubSeq(s, n + 1, Len(s))) = {s[i] : i \in n + 1 .. Len(s)}
    BY Cut
  <2> QED BY <2>1, <2>2
<1>3. \A i \in n + 1 .. Len(s) : i \in 1 .. Len(s) /\ s[i] \notin {s[j] : j \in 1 .. n}
  <2> SUFFICES ASSUME NEW i \in n + 1 .. Len(s), NEW j \in 1 .. n
               PROVE  i \in 1 .. Len(s) /\ s[i] # s[j]
    BY <1>1
  <2>1. i \in 1 .. Len(s) /\ j \in 1 .. Len(s) /\ i # j
    BY <1>1
  <2> QED BY <2>1 DEF Once
<1>4. \A i \in 1 .. Len(s) : i \in 1 .. n \/ i \in n + 1 .. Len(s)
  BY <1>1
<1> QED BY <1>2, <1>3, <1>4

LEMMA ToSetRemoveAt ==
  ASSUME NEW T, NEW s \in Seq(T), Once(s), NEW n \in 1 .. Len(s)
  PROVE  /\ RemoveAt(s, n) \in Seq(T)
         /\ ToSet(RemoveAt(s, n)) = ToSet(s) \ {s[n]}
         /\ Once(RemoveAt(s, n))
<1>1. Len(s) \in Nat /\ n \in Nat /\ 1 <= n /\ n <= Len(s)
  BY LenProperties
<1>2. n - 1 \in 0 .. Len(s) /\ n \in 0 .. Len(s)
  BY <1>1
<1>3. /\ SubSeq(s, 1, n - 1) \in Seq(T)
      /\ ToSet(SubSeq(s, 1, n - 1)) = {s[i] : i \in 1 .. n - 1}
      /\ Once(SubSeq(s, 1, n - 1))
  BY <1>2, Cut
<1>4. /\ SubSeq(s, n + 1, Len(s)) \in Seq(T)
      /\ ToSet(SubSeq(s, n + 1, Len(s))) = {s[i] : i \in n + 1 .. Len(s)}
      /\ Once(SubSeq(s, n + 1, Len(s)))
  BY <1>2, Cut
<1>5. ToSet(s) = {s[i] : i \in 1 .. Len(s)}
  BY ToSetDef
<1>6. {s[i] : i \in 1 .. n - 1} \cap {s[i] : i \in n + 1 .. Len(s)} = {}
  <2> SUFFICES ASSUME NEW i \in 1 .. n - 1, NEW j \in n + 1 .. Len(s) PROVE s[i] # s[j]
    OBVIOUS
  <2>1. i \in 1 .. Len(s) /\ j \in 1 .. Len(s) /\ i # j
    BY <1>1
  <2> QED BY <2>1 DEF Once
<1>7. {s[i] : i \in 1 .. n - 1} \cup {s[i] : i \in n + 1 .. Len(s)} = ToSet(s) \ {s[n]}
  <2>1. \A i \in 1 .. Len(s) : i \in 1 .. n - 1 \/ i \in n + 1 .. Len(s) \/ i = n
    BY <1>1
  <2>2. \A i \in 1 .. n - 1 : i \in 1 .. Len(s) /\ s[i] # s[n]
    BY <1>1 DEF Once
  <2>3. \A i \in n + 1 .. Len(s) : i \in 1 .. Len(s) /\ s[i] # s[n]
    BY <1>1 DEF Once
  <2> QED BY <1>5, <2>1, <2>2, <2>3
<1> DEFINE a == SubSeq(s, 1, n - 1)
           b == SubSeq(s, n + 1, Len(s))
<1>8. a \in Seq(T) /\ b \in Seq(T) /\ Once(a) /\ Once(b) /\ ToSet(a) \cap ToSet(b) = {}
  BY <1>3, <1>4, <1>6
<1>9. ToSet(a) \cup ToSet(b) = ToSet(s) \ {s[n]}
  BY <1>3, <1>4, <1>7
<1>10. RemoveAt(s, n) = a \o b
  BY DEF RemoveAt
<1> HIDE DEF a, b
<1> QED BY <1>8, <1>9, <1>10, ToSetConcat

-----------------------------------------------------------------------------
(* Induction, over a set of numbers.                                       *)
LEMMA NatSetInduction ==
  ASSUME NEW G \in SUBSET Nat, 0 \in G, \A n \in G : n + 1 \in G
  PROVE  G = Nat
<1>1. SUFFICES ASSUME Nat \ G # {} PROVE FALSE
  OBVIOUS
<1> DEFINE R == {ss \in Nat \X Nat : ss[1] < ss[2]}
<1>2. IsWellFoundedOn(R, Nat)
  BY NatLessThanWellFounded DEF OpToRel
<1>3. PICK x \in Nat \ G : \A y \in Nat \ G : <<y, x>> \notin R
  BY <1>1, <1>2, WFMin
<1>4. x # 0 /\ x - 1 \in Nat
  BY <1>3
<1>5. <<x - 1, x>> \in R
  BY <1>4
<1>6. x - 1 \in G
  BY <1>3, <1>4, <1>5
<1> QED BY <1>3, <1>4, <1>6

LEMMA LeastNat ==
  ASSUME NEW G \in SUBSET Nat, G # {}
  PROVE  \E x \in G : \A y \in G : x <= y
<1> DEFINE R == {ss \in Nat \X Nat : ss[1] < ss[2]}
<1>1. IsWellFoundedOn(R, Nat)
  BY NatLessThanWellFounded DEF OpToRel
<1>2. PICK x \in G : \A y \in G : <<y, x>> \notin R
  BY <1>1, WFMin
<1>3. \A y \in G : ~(y < x)
  BY <1>2
<1> QED BY <1>3

(* Keep is a function defined by recursion over the length of the queue:   *)
(* such a function exists, ...                                             *)
KeepStep(s, S, f, n) ==
    IF n = 0 THEN <<>> ELSE IF s[n] \in S THEN Append(f[n - 1], s[n]) ELSE f[n - 1]

LEMMA KeepExists ==
  ASSUME NEW T, NEW s \in Seq(T), NEW S
  PROVE  \E f : f = [n \in 0 .. Len(s) |-> KeepStep(s, S, f, n)]
<1> DEFINE Upto(n) == \E f : f = [k \in 0 .. n |-> KeepStep(s, S, f, k)]
           G == {n \in Nat : Upto(n)}
<1>1. 0 \in G
  <2> DEFINE f == [k \in 0 .. 0 |-> <<>>]
  <2>1. f = [k \in 0 .. 0 |-> KeepStep(s, S, f, k)]
    BY DEF KeepStep
  <2> HIDE DEF f
  <2> QED BY <2>1
<1>2. ASSUME NEW n \in G PROVE n + 1 \in G
  <2>1. n \in Nat
    BY <1>2
  <2>2. PICK f : f = [k \in 0 .. n |-> KeepStep(s, S, f, k)]
    BY <1>2
  <2> DEFINE g == [k \in 0 .. n + 1 |-> KeepStep(s, S, f, k)]
  <2>3. \A k \in 0 .. n : f[k] = KeepStep(s, S, f, k)
    BY <2>2
  <2>4. \A k \in 0 .. n : g[k] = f[k]
    BY <2>1, <2>3
  <2>5. \A k \in 0 .. n + 1 : k = 0 \/ k - 1 \in 0 .. n
    BY <2>1
  <2>6. \A k \in 0 .. n + 1 : KeepStep(s, S, f, k) = KeepStep(s, S, g, k)
    <3> HIDE DEF g
    <3> QED BY <2>4, <2>5 DEF KeepStep
  <2>7. g = [k \in 0 .. n + 1 |-> KeepStep(s, S, g, k)]
    BY <2>6
  <2> HIDE DEF g
  <2> QED BY <2>1, <2>7
<1>3. G = Nat
  <2> HIDE DEF G
  <2>1. G \in SUBSET Nat
    BY DEF G
  <2> QED BY <1>1, <1>2, <2>1, NatSetInduction
<1> QED BY <1>3, LenProperties

(* ... and keeps, of the first n entries, those in S.                      *)
LEMMA KeepProperties ==
  ASSUME NEW T, NEW s \in Seq(T), NEW S
  PROVE  /\ Keep(s, S) \in Seq(T)
         /\ ToSet(Keep(s, S)) = ToSet(s) \cap S
         /\ Once(s) => Once(Keep(s, S))
<1> DEFINE kept == CHOOSE f : f = [n \in 0 .. Len(s) |-> KeepStep(s, S, f, n)]
<1>1. Keep(s, S) = kept[Len(s)]
  BY DEF Keep, KeepStep
<1>2. kept = [n \in 0 .. Len(s) |-> KeepStep(s, S, kept, n)]
  BY KeepExists
<1> HIDE DEF kept
<1>3. Len(s) \in Nat /\ \A i \in 1 .. Len(s) : s[i] \in T
  BY LenProperties
<1> DEFINE Good(n) == /\ kept[n] \in Seq(T)
                      /\ ToSet(kept[n]) = {s[i] : i \in 1 .. n} \cap S
                      /\ Once(s) => Once(kept[n])
           G == {n \in Nat : n <= Len(s) => Good(n)}
<1>4. 0 \in G
  <2>1. kept[0] = <<>>
    BY <1>2, <1>3 DEF KeepStep
  <2>2. <<>> \in Seq(T) /\ {s[i] : i \in 1 .. 0} = {}
    OBVIOUS
  <2>3. Good(0)
    BY <2>1, <2>2, ToSetEmpty
  <2> QED BY <2>3
<1>5. ASSUME NEW n \in G, n + 1 <= Len(s) PROVE Good(n + 1)
  <2>1. n \in Nat /\ n <= Len(s) /\ n + 1 \in 0 .. Len(s) /\ n + 1 \in 1 .. Len(s)
    BY <1>3, <1>5
  <2>2. Good(n)
    BY <1>5, <2>1
  <2>3. kept[n + 1] = KeepStep(s, S, kept, n + 1)
    BY <1>2, <2>1
  <2>4. n + 1 # 0 /\ n + 1 - 1 = n
    BY <2>1
  <2>5. kept[n + 1] = IF s[n + 1] \in S THEN Append(kept[n], s[n + 1]) ELSE kept[n]
    BY <2>3, <2>4 DEF KeepStep
  <2>6. {s[i] : i \in 1 .. n + 1} = {s[i] : i \in 1 .. n} \cup {s[n + 1]}
    <3>1. 1 .. n + 1 = (1 .. n) \cup {n + 1}
      BY <2>1
    <3> QED BY <3>1
  <2>7. s[n + 1] \in T
    BY <1>3, <2>1
  <2>8. CASE s[n + 1] \notin S
    BY <2>2, <2>5, <2>6, <2>8
  <2>9. CASE s[n + 1] \in S
    <3> DEFINE before == kept[n]
               e == s[n + 1]
    <3>1. kept[n + 1] = Append(before, e)
      BY <2>5, <2>9
    <3>2. before \in Seq(T) /\ e \in T
      BY <2>2, <2>7
    <3>3. ASSUME Once(s) PROVE e \notin ToSet(before)
      <4> SUFFICES ASSUME NEW i \in 1 .. n PROVE s[i] # s[n + 1]
        BY <2>2
      <4>1. i \in 1 .. Len(s) /\ i # n + 1
        BY <2>1
      <4> QED BY <2>1, <3>3, <4>1 DEF Once
    <3>4. ToSet(before) \cup {e} = {s[i] : i \in 1 .. n + 1} \cap S
      BY <2>2, <2>6, <2>9
    <3>5. Once(s) => Once(before)
      BY <2>2
    <3> HIDE DEF before, e
    <3>6. /\ Append(before, e) \in Seq(T)
          /\ ToSet(Append(before, e)) = ToSet(before) \cup {e}
          /\ Once(before) /\ e \notin ToSet(before) => Once(Append(before, e))
      BY <3>2, ToSetAppend
    <3> QED BY <3>1, <3>3, <3>4, <3>5, <3>6
  <2> QED BY <2>8, <2>9
<1> HIDE DEF Good
<1>6. \A n \in G : n + 1 \in G
  BY <1>5
<1>7. G = Nat
  <2> HIDE DEF G
  <2>1. G \in SUBSET Nat
    BY DEF G
  <2> QED BY <1>4, <1>6, <2>1, NatSetInduction
<1>8. Good(Len(s))
  BY <1>3, <1>7
<1> QED BY <1>1, <1>8, ToSetDef DEF Good

-----------------------------------------------------------------------------
(* The counters.                                                           *)

HeldBy(l) == {t \in holding : LaneOf[t] = l}

(* Enough of the type invariant for the counters.                          *)
SlotType == reserved \in [Lane -> Nat] /\ holding \subseteq Task

Counted == SlotType /\ SlotsCounted

LEMMA InitCounted == Init => Counted
<1> SUFFICES ASSUME Init PROVE Counted
  OBVIOUS
<1>1. SlotType
  BY DEF Init, SlotType
<1>2. \A l \in Lane : {t \in holding : LaneOf[t] = l} = {}
  BY DEF Init
<1>3. 0 <= LaneCapacity /\ Cardinality({}) = 0
  BY LanesAssumption, FS_EmptySet
<1>4. SlotsCounted
  BY <1>2, <1>3 DEF Init, SlotsCounted
<1> QED BY <1>1, <1>4 DEF Counted

LEMMA FiniteHeld == ASSUME SlotType, NEW l PROVE IsFiniteSet(HeldBy(l))
<1>1. HeldBy(l) \subseteq Task
  BY DEF SlotType, HeldBy
<1> QED BY <1>1, FS_Subset, LanesAssumption

(* A slot that is taken is counted once.                                   *)
LEMMA ReserveKeeps ==
  ASSUME Counted, NEW t \in Task, t \notin holding, Reserve(t)
  PROVE  Counted'
<1>1. LaneOf[t] \in Lane
  BY LanesAssumption
<1>2. \A l \in Lane : reserved'[l] = IF l = LaneOf[t] THEN reserved[l] + 1 ELSE reserved[l]
  BY DEF Counted, SlotType, Reserve
<1>3. SlotType'
  BY <1>1 DEF Counted, SlotType, Reserve
<1>4. ASSUME NEW l \in Lane
      PROVE  /\ reserved'[l] = Cardinality({u \in holding' : LaneOf[u] = l})
             /\ reserved'[l] <= LaneCapacity
  <2>1. CASE l = LaneOf[t]
    <3>1. {u \in holding' : LaneOf[u] = l} = HeldBy(l) \cup {t} /\ t \notin HeldBy(l)
      BY <2>1 DEF Reserve, HeldBy
    <3>2. Cardinality(HeldBy(l) \cup {t}) = Cardinality(HeldBy(l)) + 1
      BY <3>1, FiniteHeld, FS_AddElement DEF Counted
    <3>3. reserved[l] = Cardinality(HeldBy(l)) /\ reserved[l] \in Nat /\ reserved[l] < LaneCapacity
      BY <2>1 DEF Counted, SlotType, SlotsCounted, HeldBy, Reserve, HasSlot
    <3>4. reserved'[l] = reserved[l] + 1
      BY <1>2, <2>1
    <3>5. Cardinality({u \in holding' : LaneOf[u] = l}) = Cardinality(HeldBy(l)) + 1
      BY <3>1, <3>2
    <3>6. reserved'[l] = Cardinality(HeldBy(l)) + 1 /\ reserved'[l] <= LaneCapacity
      BY <3>3, <3>4, LanesAssumption
    <3> QED BY <3>5, <3>6
  <2>2. CASE l # LaneOf[t]
    <3>1. {u \in holding' : LaneOf[u] = l} = {u \in holding : LaneOf[u] = l}
      BY <2>2 DEF Reserve
    <3> QED BY <1>2, <2>2, <3>1 DEF Counted, SlotsCounted
  <2> QED BY <2>1, <2>2
<1>5. SlotsCounted'
  BY <1>4 DEF SlotsCounted
<1> QED BY <1>3, <1>5 DEF Counted

(* However many tasks go, and whether they hold a slot or not, the counter *)
(* loses what they held.                                                   *)
LEMMA ReleaseKeeps ==
  ASSUME Counted, NEW gone, Release(gone)
  PROVE  Counted'
<1>1. ASSUME NEW l \in Lane
      PROVE  /\ reserved'[l] \in Nat
             /\ reserved'[l] = Cardinality({u \in holding' : LaneOf[u] = l})
             /\ reserved'[l] <= LaneCapacity
  <2> DEFINE kept == {u \in holding' : LaneOf[u] = l}
  <2>1. HeldIn(gone, l) \subseteq HeldBy(l) /\ kept = HeldBy(l) \ HeldIn(gone, l)
    BY DEF HeldIn, HeldBy, Release
  <2>2. IsFiniteSet(HeldBy(l)) /\ IsFiniteSet(HeldIn(gone, l)) /\ IsFiniteSet(kept)
    BY <2>1, FiniteHeld, FS_Subset DEF Counted
  <2>3. Cardinality(kept) = Cardinality(HeldBy(l)) - Cardinality(HeldIn(gone, l))
    <3>1. HeldBy(l) \cap HeldIn(gone, l) = HeldIn(gone, l)
      BY <2>1
    <3> QED BY <2>1, <2>2, <3>1, FS_Difference
  <2>4. Cardinality(kept) \in Nat /\ Cardinality(HeldIn(gone, l)) \in Nat
    BY <2>2, FS_CardinalityType
  <2>5. reserved[l] = Cardinality(HeldBy(l)) /\ reserved[l] \in Nat /\ reserved[l] <= LaneCapacity
    BY DEF Counted, SlotType, SlotsCounted, HeldBy
  <2>6. reserved'[l] = reserved[l] - Cardinality(HeldIn(gone, l))
    BY DEF Release
  <2> HIDE DEF kept
  <2>7. reserved'[l] = Cardinality(kept) /\ reserved'[l] \in Nat /\ reserved'[l] <= LaneCapacity
    BY <2>3, <2>4, <2>5, <2>6, LanesAssumption
  <2> QED BY <2>7 DEF kept
<1>2. reserved' \in [Lane -> Nat]
  BY <1>1 DEF Release
<1>3. holding' \subseteq Task
  BY DEF Counted, SlotType, Release
<1>4. SlotsCounted'
  BY <1>1 DEF SlotsCounted
<1> QED BY <1>2, <1>3, <1>4 DEF Counted, SlotType

LEMMA UnchangedKeeps == ASSUME Counted, UNCHANGED slots PROVE Counted'
  BY DEF Counted, SlotType, SlotsCounted, slots

LEMMA RunKeeps == ASSUME Counted, NEW t, RunOnce(t) \/ RunCycle(t) PROVE Counted'
  BY ReleaseKeeps, UnchangedKeeps DEF RunOnce, RunCycle

-----------------------------------------------------------------------------
(* Where a task is queued: in one place, and there once.                   *)
Queues ==
    /\ timers \subseteq Timed
    /\ due \in Seq(Timed)
    /\ inbox \in [Thread -> Seq(Task)]
    /\ lanes \in [Lane -> Seq(Task)]

EachOnce ==
    /\ Once(due)
    /\ \A h \in Thread : Once(inbox[h])
    /\ \A l \in Lane : Once(lanes[l])

Apart ==
    /\ timers \cap ToSet(due) = {}
    /\ \A h \in Thread : ToSet(inbox[h]) \cap (timers \cup ToSet(due)) = {}
    /\ \A l \in Lane : ToSet(lanes[l]) \cap (timers \cup ToSet(due)) = {}
    /\ \A h \in Thread, l \in Lane : ToSet(inbox[h]) \cap ToSet(lanes[l]) = {}
    /\ \A h, k \in Thread : h # k => ToSet(inbox[h]) \cap ToSet(inbox[k]) = {}

InTheirLane == \A l \in Lane : \A t \in ToSet(lanes[l]) : LaneOf[t] = l

Placed == Queues /\ EachOnce /\ Apart /\ InTheirLane

(* What is queued has a slot unless it was stopped; only timers can be.    *)
(* The slots are held by just the tasks that may still run.                *)
Marked ==
    /\ cancelled \subseteq Queued \cap Timed
    /\ holding = Queued \ cancelled
    /\ refs = holding \cap Timed
    /\ live = holding

IInv == Counted /\ Placed /\ Marked

LEMMA Unions ==
  ASSUME NEW A, NEW f, NEW x
  PROVE  x \in UNION {ToSet(f[a]) : a \in A} <=> \E a \in A : x \in ToSet(f[a])
  OBVIOUS

AnyWhere(x) == \/ x \in timers \/ x \in ToSet(due)
               \/ \E h \in Thread : x \in ToSet(inbox[h])
               \/ \E l \in Lane : x \in ToSet(lanes[l])

LEMMA QueuedIs == \A x : x \in Queued <=> AnyWhere(x)
<1> SUFFICES ASSUME NEW x PROVE x \in Queued <=> AnyWhere(x)
  OBVIOUS
<1> DEFINE I == UNION {ToSet(inbox[h]) : h \in Thread}
           L == UNION {ToSet(lanes[l]) : l \in Lane}
<1>1. x \in I <=> \E h \in Thread : x \in ToSet(inbox[h])
  BY Unions
<1>2. x \in L <=> \E l \in Lane : x \in ToSet(lanes[l])
  BY Unions
<1>3. Queued = timers \cup ToSet(due) \cup I \cup L
  BY DEF Queued
<1> HIDE DEF I, L
<1> QED BY <1>1, <1>2, <1>3 DEF AnyWhere

LEMMA QueuedThen == \A x : x \in Queued' <=> AnyWhere(x)'
<1> SUFFICES ASSUME NEW x PROVE x \in Queued' <=> AnyWhere(x)'
  OBVIOUS
<1> DEFINE I == UNION {ToSet(inbox'[h]) : h \in Thread}
           L == UNION {ToSet(lanes'[l]) : l \in Lane}
<1>1. x \in I <=> \E h \in Thread : x \in ToSet(inbox'[h])
  BY Unions
<1>2. x \in L <=> \E l \in Lane : x \in ToSet(lanes'[l])
  BY Unions
<1>3. Queued' = timers' \cup ToSet(due') \cup I \cup L
  BY DEF Queued
<1> HIDE DEF I, L
<1> QED BY <1>1, <1>2, <1>3 DEF AnyWhere

LEMMA QueuedTasks ==
  ASSUME Placed
  PROVE  /\ timers \subseteq Task /\ ToSet(due) \subseteq Timed
         /\ \A h \in Thread : inbox[h] \in Seq(Task) /\ ToSet(inbox[h]) \subseteq Task
         /\ \A l \in Lane : lanes[l] \in Seq(Task) /\ ToSet(lanes[l]) \subseteq Task
         /\ Queued \subseteq Task
<1>1. timers \subseteq Task /\ Timed \subseteq Task
  BY LanesAssumption DEF Placed, Queues
<1>2. ASSUME NEW T, NEW s \in Seq(T) PROVE ToSet(s) \subseteq T
  BY ToSetDef, LenProperties
<1>3. ToSet(due) \subseteq Timed
  BY <1>2 DEF Placed, Queues
<1>4. \A h \in Thread : inbox[h] \in Seq(Task) /\ ToSet(inbox[h]) \subseteq Task
  BY <1>2 DEF Placed, Queues
<1>5. \A l \in Lane : lanes[l] \in Seq(Task) /\ ToSet(lanes[l]) \subseteq Task
  BY <1>2 DEF Placed, Queues
<1> QED BY <1>1, <1>3, <1>4, <1>5, QueuedIs DEF AnyWhere

LEMMA InitPlaced == Init => Placed /\ Marked
<1> SUFFICES ASSUME Init PROVE Placed /\ Marked
  OBVIOUS
<1>1. <<>> \in Seq(Task) /\ <<>> \in Seq(Timed)
  OBVIOUS
<1>2. Queues
  BY <1>1 DEF Init, Queues
<1>3. EachOnce /\ Apart /\ InTheirLane
  BY ToSetEmpty DEF Init, EachOnce, Apart, InTheirLane
<1>4. Queued = {}
  BY ToSetEmpty, QueuedIs DEF Init, AnyWhere
<1> QED BY <1>2, <1>3, <1>4 DEF Init, Placed, Marked

LEMMA PostPlaces ==
  ASSUME Placed, NEW h \in Thread, NEW t \in Task, Post(h, t)
  PROVE  Placed' /\ Queued' = Queued \cup {t}
<1>1. /\ t \notin Queued
      /\ inbox' = [inbox EXCEPT ![h] = Append(inbox[h], t)]
      /\ UNCHANGED <<timers, due, lanes>>
  BY DEF Post
<1>2. /\ Append(inbox[h], t) \in Seq(Task)
      /\ ToSet(Append(inbox[h], t)) = ToSet(inbox[h]) \cup {t}
      /\ Once(Append(inbox[h], t))
  <2>1. inbox[h] \in Seq(Task) /\ Once(inbox[h]) /\ t \notin ToSet(inbox[h])
    BY <1>1, QueuedIs, QueuedTasks DEF AnyWhere, Placed, EachOnce
  <2> QED BY <2>1, ToSetAppend
<1>3. \A k \in Thread : inbox'[k] = IF k = h THEN Append(inbox[h], t) ELSE inbox[k]
  BY <1>1 DEF Placed, Queues
<1>4. \A k \in Thread : ToSet(inbox'[k]) = IF k = h THEN ToSet(inbox[h]) \cup {t} ELSE ToSet(inbox[k])
  BY <1>2, <1>3
<1>5. Queues'
  BY <1>1, <1>2 DEF Placed, Queues
<1>6. EachOnce'
  BY <1>1, <1>2, <1>3 DEF Placed, EachOnce
<1>7. t \notin timers \cup ToSet(due) /\ (\A k \in Thread : t \notin ToSet(inbox[k])) /\ (\A l \in Lane : t \notin ToSet(lanes[l]))
  BY <1>1, QueuedIs DEF AnyWhere
<1>8. Apart'
  <2>1. \A k \in Thread : ToSet(inbox'[k]) \cap (timers \cup ToSet(due)) = {}
    BY <1>4, <1>7 DEF Placed, Apart
  <2>2. \A k \in Thread, l \in Lane : ToSet(inbox'[k]) \cap ToSet(lanes[l]) = {}
    BY <1>4, <1>7 DEF Placed, Apart
  <2>3. \A i, k \in Thread : i # k => ToSet(inbox'[i]) \cap ToSet(inbox'[k]) = {}
    BY <1>4, <1>7 DEF Placed, Apart
  <2> QED BY <1>1, <2>1, <2>2, <2>3 DEF Placed, Apart
<1>9. InTheirLane'
  BY <1>1 DEF Placed, InTheirLane
<1>10. Queued' = Queued \cup {t}
  BY <1>1, <1>4, QueuedIs, QueuedThen DEF AnyWhere
<1> QED BY <1>5, <1>6, <1>8, <1>9, <1>10 DEF Placed

LEMMA DuePlaces ==
  ASSUME Placed, NEW t \in Task, FallsDue(t)
  PROVE  Placed' /\ Queued' = Queued
<1>1. /\ t \in timers /\ timers' = timers \ {t} /\ due' = Append(due, t)
      /\ UNCHANGED <<inbox, lanes>>
  BY DEF FallsDue
<1>2. /\ due' \in Seq(Timed)
      /\ ToSet(due') = ToSet(due) \cup {t}
      /\ Once(due')
  <2>1. due \in Seq(Timed) /\ Once(due) /\ t \notin ToSet(due) /\ t \in Timed
    BY <1>1 DEF Placed, Queues, EachOnce, Apart
  <2> QED BY <1>1, <2>1, ToSetAppend
<1>3. Queues' /\ EachOnce' /\ InTheirLane'
  BY <1>1, <1>2 DEF Placed, Queues, EachOnce, InTheirLane
<1>4. Apart'
  <2>1. timers' \cap ToSet(due') = {} /\ timers' \cup ToSet(due') = timers \cup ToSet(due)
    BY <1>1, <1>2 DEF Placed, Apart
  <2> QED BY <1>1, <2>1 DEF Placed, Apart
<1>5. Queued' = Queued
  BY <1>1, <1>2, QueuedIs, QueuedThen DEF AnyWhere
<1> QED BY <1>3, <1>4, <1>5 DEF Placed

(* A merge loses no task: a timer goes to the timers, another to its lane. *)
LEMMA MergePlaces ==
  ASSUME Placed, NEW h \in Thread, MergeThread(h)
  PROVE  Placed' /\ Queued' = Queued
<1> DEFINE new(l) == Plain(inbox[h], l)
<1>1. /\ inbox' = [inbox EXCEPT ![h] = <<>>]
      /\ lanes' = [l \in Lane |-> lanes[l] \o new(l)]
      /\ timers' = timers \cup (ToSet(inbox[h]) \cap Timed)
      /\ due' = due
  BY DEF MergeThread
<1>2. inbox[h] \in Seq(Task) /\ Once(inbox[h]) /\ ToSet(inbox[h]) \subseteq Task
  BY QueuedTasks DEF Placed, EachOnce
<1>3. \A l \in Lane : /\ new(l) \in Seq(Task) /\ Once(new(l))
                      /\ ToSet(new(l)) = ToSet(inbox[h]) \cap (Of(l) \ Timed)
  BY <1>2, KeepProperties DEF Plain
<1> HIDE DEF new
<1>4. \A l \in Lane : /\ lanes'[l] \in Seq(Task) /\ Once(lanes'[l])
                      /\ ToSet(lanes'[l]) = ToSet(lanes[l]) \cup (ToSet(inbox[h]) \cap (Of(l) \ Timed))
  <2> SUFFICES ASSUME NEW l \in Lane
               PROVE  /\ lanes'[l] \in Seq(Task) /\ Once(lanes'[l])
                      /\ ToSet(lanes'[l]) = ToSet(lanes[l]) \cup (ToSet(inbox[h]) \cap (Of(l) \ Timed))
    OBVIOUS
  <2>1. lanes'[l] = lanes[l] \o new(l)
    BY <1>1
  <2>2. lanes[l] \in Seq(Task) /\ Once(lanes[l])
    BY DEF Placed, Queues, EachOnce
  <2>3. ToSet(lanes[l]) \cap ToSet(new(l)) = {}
    BY <1>3 DEF Placed, Apart
  <2> QED BY <1>3, <2>1, <2>2, <2>3, ToSetConcat
<1>5. \A k \in Thread : inbox'[k] = IF k = h THEN <<>> ELSE inbox[k]
  BY <1>1 DEF Placed, Queues
<1>6. \A k \in Thread : ToSet(inbox'[k]) = IF k = h THEN {} ELSE ToSet(inbox[k])
  BY <1>5, ToSetEmpty
<1>7. Queues'
  BY <1>1, <1>4 DEF Placed, Queues
<1>8. EachOnce'
  BY <1>1, <1>4, <1>5, ToSetEmpty DEF Placed, EachOnce
<1>9. Apart'
  <2>1. \A k \in Thread : ToSet(inbox'[k]) \subseteq ToSet(inbox[k])
    BY <1>6
  <2>2. \A k \in Thread : ToSet(inbox'[k]) \cap ToSet(inbox[h]) = {}
    BY <1>6 DEF Placed, Apart
  <2>3. timers' \cap ToSet(due) = {} /\ \A k \in Thread : ToSet(inbox'[k]) \cap (timers' \cup ToSet(due)) = {}
    BY <1>1, <2>1, <2>2 DEF Placed, Apart
  <2>4. \A l \in Lane : ToSet(lanes'[l]) \cap (timers' \cup ToSet(due)) = {}
    BY <1>1, <1>4 DEF Placed, Apart
  <2>5. \A k \in Thread, l \in Lane : ToSet(inbox'[k]) \cap ToSet(lanes'[l]) = {}
    BY <1>4, <2>1, <2>2 DEF Placed, Apart
  <2>6. \A i, k \in Thread : i # k => ToSet(inbox'[i]) \cap ToSet(inbox'[k]) = {}
    BY <2>1 DEF Placed, Apart
  <2> QED BY <1>1, <2>3, <2>4, <2>5, <2>6 DEF Apart
<1>10. InTheirLane'
  BY <1>4 DEF Placed, InTheirLane, Of
<1>11. Queued' = Queued
  <2>1. \A x \in ToSet(inbox[h]) : x \in Timed \/ \E l \in Lane : x \in Of(l) \ Timed
    <3>1. \A x \in Task : LaneOf[x] \in Lane
      BY LanesAssumption
    <3> QED BY <1>2, <3>1 DEF Of
  <2>2. \A k \in Thread : ToSet(inbox'[k]) \subseteq ToSet(inbox[k])
    BY <1>6
  <2>3. ASSUME NEW x, AnyWhere(x) PROVE AnyWhere(x)'
    <3>1. CASE x \in ToSet(inbox[h])
      BY <1>1, <1>4, <2>1, <3>1 DEF AnyWhere
    <3>2. CASE x \notin ToSet(inbox[h])
      BY <1>1, <1>4, <1>6, <2>3, <3>2 DEF AnyWhere
    <3> QED BY <3>1, <3>2
  <2>4. ASSUME NEW x, AnyWhere(x)' PROVE AnyWhere(x)
    BY <1>1, <1>4, <2>2, <2>4 DEF AnyWhere
  <2> QED BY <2>3, <2>4, QueuedIs, QueuedThen
<1> QED BY <1>7, <1>8, <1>9, <1>10, <1>11 DEF Placed

LEMMA PromotePlaces ==
  ASSUME Placed, Promote
  PROVE  Placed' /\ Queued' = Queued
<1> DEFINE new(l) == Keep(due, Of(l))
<1>1. /\ lanes' = [l \in Lane |-> lanes[l] \o new(l)]
      /\ due' = <<>> /\ UNCHANGED <<inbox, timers>>
  BY DEF Promote
<1>2. due \in Seq(Task) /\ Once(due) /\ ToSet(due) \subseteq Task
  BY QueuedTasks, SeqMonotonic, LanesAssumption DEF Placed, Queues, EachOnce
<1>3. \A l \in Lane : /\ new(l) \in Seq(Task) /\ Once(new(l))
                      /\ ToSet(new(l)) = ToSet(due) \cap Of(l)
  BY <1>2, KeepProperties
<1> HIDE DEF new
<1>4. \A l \in Lane : /\ lanes'[l] \in Seq(Task) /\ Once(lanes'[l])
                      /\ ToSet(lanes'[l]) = ToSet(lanes[l]) \cup (ToSet(due) \cap Of(l))
  <2> SUFFICES ASSUME NEW l \in Lane
               PROVE  /\ lanes'[l] \in Seq(Task) /\ Once(lanes'[l])
                      /\ ToSet(lanes'[l]) = ToSet(lanes[l]) \cup (ToSet(due) \cap Of(l))
    OBVIOUS
  <2>1. lanes'[l] = lanes[l] \o new(l)
    BY <1>1
  <2>2. lanes[l] \in Seq(Task) /\ Once(lanes[l])
    BY DEF Placed, Queues, EachOnce
  <2>3. ToSet(lanes[l]) \cap ToSet(new(l)) = {}
    BY <1>3 DEF Placed, Apart
  <2> QED BY <1>3, <2>1, <2>2, <2>3, ToSetConcat
<1>5. ToSet(due') = {} /\ Once(due') /\ due' \in Seq(Timed)
  BY <1>1, ToSetEmpty
<1>6. Queues'
  BY <1>1, <1>4, <1>5 DEF Placed, Queues
<1>7. EachOnce'
  BY <1>1, <1>4, <1>5 DEF Placed, EachOnce
<1>8. Apart'
  BY <1>1, <1>4, <1>5 DEF Placed, Apart, Of
<1>9. InTheirLane'
  BY <1>4 DEF Placed, InTheirLane, Of
<1>10. Queued' = Queued
  <2>1. \A x \in ToSet(due) : LaneOf[x] \in Lane /\ x \in Of(LaneOf[x])
    BY <1>2, LanesAssumption DEF Of
  <2>2. \A x : (\E l \in Lane : x \in ToSet(lanes'[l])) <=>
                   (x \in ToSet(due) \/ \E l \in Lane : x \in ToSet(lanes[l]))
    BY <1>4, <2>1 DEF Of
  <2>3. \A x : AnyWhere(x)' <=> AnyWhere(x)
    BY <1>1, <1>5, <2>2 DEF AnyWhere
  <2> QED BY <2>3, QueuedIs, QueuedThen
<1> QED BY <1>6, <1>7, <1>8, <1>9, <1>10 DEF Placed

(* Tasks taken out of their lane are queued nowhere else.                  *)
LEMMA TakenPlaces ==
  ASSUME Placed, NEW l \in Lane, NEW gone, gone \subseteq ToSet(lanes[l]), NEW back, back \subseteq gone \cap Timed,
         NEW rest, rest \in Seq(Task), Once(rest), ToSet(rest) = ToSet(lanes[l]) \ gone,
         lanes' = [lanes EXCEPT ![l] = rest], timers' = timers \cup back, UNCHANGED <<inbox, due>>
  PROVE  Placed' /\ Queued' = (Queued \ gone) \cup back
<1>1. \A k \in Lane : lanes'[k] = IF k = l THEN rest ELSE lanes[k]
  BY DEF Placed, Queues
<1>2. \A k \in Lane : ToSet(lanes'[k]) = ToSet(lanes[k]) \ gone
  <2> SUFFICES ASSUME NEW k \in Lane PROVE ToSet(lanes'[k]) = ToSet(lanes[k]) \ gone
    OBVIOUS
  <2>1. CASE k = l
    BY <1>1, <2>1
  <2>2. CASE k # l
    <3>1. \A t \in ToSet(lanes[k]) : t \notin ToSet(lanes[l])
      BY <2>2 DEF Placed, InTheirLane
    <3> QED BY <1>1, <2>2, <3>1
  <2> QED BY <2>1, <2>2
<1>3. gone \cap (timers \cup ToSet(due)) = {} /\ \A h \in Thread : gone \cap ToSet(inbox[h]) = {}
  BY DEF Placed, Apart
<1>4. Queues'
  BY DEF Placed, Queues
<1>5. EachOnce'
  BY <1>1 DEF Placed, EachOnce
<1>6. Apart'
  BY <1>2, <1>3 DEF Placed, Apart
<1>7. InTheirLane'
  BY <1>2 DEF Placed, InTheirLane
<1>8. Queued' = (Queued \ gone) \cup back
  BY <1>2, <1>3, QueuedIs, QueuedThen DEF AnyWhere
<1> QED BY <1>4, <1>5, <1>6, <1>7, <1>8 DEF Placed

-----------------------------------------------------------------------------
(* The task that a lane serves next.                                       *)
LEMMA FairIndexIsFirst ==
  ASSUME Placed, NEW l \in Lane, lanes[l] # <<>>
  PROVE  /\ FairIndex(l) \in NextRound(l)
         /\ \A j \in NextRound(l) : \/ Token(l, FairIndex(l)) < Token(l, j)
                                    \/ Token(l, FairIndex(l)) = Token(l, j) /\ FairIndex(l) <= j
<1> DEFINE D == DOMAIN lanes[l]
           N == NextRound(l)
<1>1. lanes[l] \in Seq(Task) /\ D = 1 .. Len(lanes[l]) /\ Len(lanes[l]) \in Nat /\ Len(lanes[l]) # 0
  BY LenProperties, EmptySeq DEF Placed, Queues
<1>2. N \subseteq D /\ N # {} /\ D \subseteq Nat
  <2>1. 1 \in D /\ D \subseteq Nat
    BY <1>1
  <2>2. N = IF {i \in D : Token(l, i) > lastProducer[l]} # {}
            THEN {i \in D : Token(l, i) > lastProducer[l]} ELSE D
    BY DEF NextRound
  <2> HIDE DEF D, N
  <2> QED BY <2>1, <2>2
<1>3. \A i \in D : Token(l, i) \in Nat
  <2>1. \A i \in D : lanes[l][i] \in Task
    BY <1>1, LenProperties
  <2> QED BY <2>1, LanesAssumption DEF Token
<1> HIDE DEF D, N
<1>4. PICK k \in {Token(l, i) : i \in N} : \A m \in {Token(l, i) : i \in N} : k <= m
  <2>1. {Token(l, i) : i \in N} \in SUBSET Nat /\ {Token(l, i) : i \in N} # {}
    BY <1>2, <1>3
  <2> QED BY <2>1, LeastNat
<1>5. PICK i \in {j \in N : Token(l, j) = k} : \A j \in {j \in N : Token(l, j) = k} : i <= j
  <2>1. {j \in N : Token(l, j) = k} \in SUBSET Nat /\ {j \in N : Token(l, j) = k} # {}
    BY <1>2, <1>4
  <2> QED BY <2>1, LeastNat
<1>6. \A j \in N : Token(l, i) < Token(l, j) \/ (Token(l, i) = Token(l, j) /\ i <= j)
  <2> SUFFICES ASSUME NEW j \in N
               PROVE  Token(l, i) < Token(l, j) \/ (Token(l, i) = Token(l, j) /\ i <= j)
    OBVIOUS
  <2>1. Token(l, i) = k /\ k <= Token(l, j) /\ Token(l, j) \in Nat /\ k \in Nat
    BY <1>2, <1>3, <1>4, <1>5
  <2>2. CASE Token(l, j) = k
    BY <1>5, <2>1, <2>2
  <2>3. CASE Token(l, j) # k
    BY <2>1, <2>3
  <2> QED BY <2>2, <2>3
<1>7. \E x \in NextRound(l) : \A j \in NextRound(l) :
          Token(l, x) < Token(l, j) \/ (Token(l, x) = Token(l, j) /\ x <= j)
  BY <1>5, <1>6 DEF N
<1> QED BY <1>7 DEF FairIndex

LEMMA NextIndexIsFirst ==
  ASSUME Placed, NEW l \in Lane, lanes[l] # <<>>
  PROVE  /\ NextIndex(l) \in 1 .. Len(lanes[l])
         /\ \A j \in 1 .. Len(lanes[l]) : j < NextIndex(l) => Token(l, j) # Token(l, NextIndex(l))
<1>1. lanes[l] \in Seq(Task) /\ DOMAIN lanes[l] = 1 .. Len(lanes[l]) /\ Len(lanes[l]) \in Nat /\ Len(lanes[l]) # 0
  BY LenProperties, EmptySeq DEF Placed, Queues
<1>2. CASE l \in Fair
  <2> DEFINE i == FairIndex(l)
  <2>1. /\ i \in NextRound(l)
        /\ \A j \in NextRound(l) : Token(l, i) < Token(l, j) \/ (Token(l, i) = Token(l, j) /\ i <= j)
    BY FairIndexIsFirst
  <2>2. NextIndex(l) = i
    BY <1>2 DEF NextIndex
  <2> HIDE DEF i
  <2>3. i \in 1 .. Len(lanes[l])
    BY <1>1, <2>1 DEF NextRound
  <2>4. ASSUME NEW j \in 1 .. Len(lanes[l]), j < i, Token(l, j) = Token(l, i)
        PROVE  FALSE
    <3>1. j \in NextRound(l)
      BY <1>1, <2>1, <2>4 DEF NextRound
    <3>2. Token(l, i) \in Nat
      <4>1. lanes[l][i] \in Task
        BY <1>1, <2>3, LenProperties
      <4> QED BY <4>1, LanesAssumption DEF Token
    <3> QED BY <2>1, <2>3, <2>4, <3>1, <3>2
  <2> QED BY <2>2, <2>3, <2>4
<1>3. CASE l \notin Fair
  BY <1>1, <1>3 DEF NextIndex
<1> QED BY <1>2, <1>3

(* What serving a lane does to the queues.                                 *)
LEMMA ServePlaces ==
  ASSUME Placed, NEW l \in Lane, Serve(l), NEW t, t = lanes[l][NextIndex(l)]
  PROVE  /\ t \in ToSet(lanes[l]) /\ t \in Queued /\ t \in Task
         /\ timers' \in {timers, timers \cup ({t} \cap Timed)}
         /\ Placed'
         /\ Queued' = (Queued \ {t}) \cup (timers' \ timers)
<1> DEFINE i == NextIndex(l)
<1>1. lanes[l] \in Seq(Task) /\ Once(lanes[l]) /\ i \in 1 .. Len(lanes[l])
  BY NextIndexIsFirst DEF Serve, HasBudget, Placed, Queues, EachOnce
<1>2. /\ lanes' = [lanes EXCEPT ![l] = RemoveAt(lanes[l], i)]
      /\ RunOnce(t) \/ RunCycle(t)
      /\ UNCHANGED <<inbox, due>>
  BY DEF Serve
<1> HIDE DEF i
<1>3. t \in ToSet(lanes[l]) /\ t \in Task
  BY <1>1, ToSetDef, LenProperties DEF i
<1>4. /\ RemoveAt(lanes[l], i) \in Seq(Task)
      /\ ToSet(RemoveAt(lanes[l], i)) = ToSet(lanes[l]) \ {t}
      /\ Once(RemoveAt(lanes[l], i))
  BY <1>1, ToSetRemoveAt DEF i
<1>5. timers' = timers \/ (t \in Timed /\ timers' = timers \cup {t})
  BY <1>2, LanesAssumption DEF RunOnce, RunCycle
<1>6. t \notin timers
  BY <1>3 DEF Placed, Apart
<1>7. t \in Queued
  BY <1>3, QueuedIs DEF AnyWhere
<1> DEFINE back == timers' \ timers
<1>8. back \subseteq {t} \cap Timed /\ timers' = timers \cup back
  BY <1>5
<1> HIDE DEF back
<1>9. Placed' /\ Queued' = (Queued \ {t}) \cup back
  <2> DEFINE rest == RemoveAt(lanes[l], i)
             gone == {t}
  <2>1. rest \in Seq(Task) /\ Once(rest) /\ ToSet(rest) = ToSet(lanes[l]) \ gone
    BY <1>4
  <2>2. gone \subseteq ToSet(lanes[l]) /\ back \subseteq gone \cap Timed
    BY <1>3, <1>8
  <2>3. lanes' = [lanes EXCEPT ![l] = rest]
    BY <1>2
  <2>4. Placed' /\ Queued' = (Queued \ gone) \cup back
    <3> HIDE DEF rest, gone
    <3> QED BY <1>2, <1>8, <2>1, <2>2, <2>3, TakenPlaces
  <2> QED BY <2>4
<1> QED BY <1>3, <1>5, <1>7, <1>9 DEF back

Batch(l, n) == ToSet(SubSeq(lanes[l], 1, n))

LEMMA BarrierPlaces ==
  ASSUME Placed, NEW l \in Lane, NEW n \in 1 .. LaneBudget, ServeBarrier(l, n)
  PROVE  /\ Batch(l, n) \subseteq ToSet(lanes[l]) /\ Batch(l, n) \subseteq Queued
         /\ Batch(l, n) \cap Timed = {}
         /\ Placed'
         /\ Queued' = Queued \ Batch(l, n)
         /\ ToSet(lanes'[l]) = ToSet(lanes[l]) \ Batch(l, n)
<1> DEFINE batch == Batch(l, n)
<1> DEFINE rest == SubSeq(lanes[l], n + 1, Len(lanes[l]))
<1>1. lanes[l] \in Seq(Task) /\ Once(lanes[l]) /\ n \in 0 .. Len(lanes[l]) /\ l \in Parallel
  BY LenProperties DEF ServeBarrier, Placed, Queues, EachOnce
<1>2. rest \in Seq(Task) /\ Once(rest) /\ ToSet(rest) = ToSet(lanes[l]) \ batch
  BY <1>1, Cut, ToSetRest DEF Batch
<1>3. batch \subseteq ToSet(lanes[l])
  <2>1. batch = {lanes[l][i] : i \in 1 .. n} /\ ToSet(lanes[l]) = {lanes[l][i] : i \in 1 .. Len(lanes[l])}
    <3>1. ToSet(lanes[l]) = {lanes[l][i] : i \in 1 .. Len(lanes[l])}
      BY <1>1, ToSetDef
    <3> QED BY <1>1, <3>1, Cut DEF Batch
  <2>2. \A i \in 1 .. n : i \in 1 .. Len(lanes[l])
    BY <1>1, LenProperties
  <2> QED BY <2>1, <2>2
<1>4. batch \cap Timed = {}
  BY <1>1, <1>3, LanesAssumption DEF Placed, InTheirLane
<1>5. batch \subseteq Queued
  BY <1>3, QueuedIs DEF AnyWhere
<1>6. /\ lanes' = [lanes EXCEPT ![l] = rest]
      /\ timers' = timers \cup {} /\ UNCHANGED <<inbox, due>>
  BY DEF ServeBarrier
<1>7. lanes'[l] = rest
  BY <1>6 DEF Placed, Queues
<1> DEFINE back == {}
<1>8. Placed' /\ Queued' = (Queued \ batch) \cup back
  <2>1. back \subseteq batch \cap Timed /\ timers' = timers \cup back
    BY <1>6
  <2>2. lanes' = [lanes EXCEPT ![l] = rest] /\ UNCHANGED <<inbox, due>>
    BY <1>6
  <2>3. rest \in Seq(Task) /\ Once(rest) /\ ToSet(rest) = ToSet(lanes[l]) \ batch
    BY <1>2
  <2>4. batch \subseteq ToSet(lanes[l])
    BY <1>3
  <2> HIDE DEF rest, back, batch
  <2> QED BY <2>1, <2>2, <2>3, <2>4, TakenPlaces
<1> QED BY <1>2, <1>3, <1>4, <1>5, <1>7, <1>8

-----------------------------------------------------------------------------
(* What a task has and is marked with as it is admitted, moved, stopped    *)
(* and run.                                                                *)
LEMMA InitIInv == Init => IInv
  BY InitCounted, InitPlaced DEF IInv

LEMMA MovedKeeps ==
  ASSUME IInv, Placed', Queued' = Queued, UNCHANGED <<slots, marks, live>>
  PROVE  IInv'
<1>1. Counted'
  BY UnchangedKeeps DEF IInv
<1> QED BY <1>1 DEF IInv, Marked, slots, marks

LEMMA PostKeeps == ASSUME IInv, NEW h \in Thread, NEW t \in Task, Post(h, t) PROVE IInv'
<1>1. Counted'
  BY ReserveKeeps DEF IInv, Post
<1>2. Placed' /\ Queued' = Queued \cup {t}
  BY PostPlaces DEF IInv
<1>3. /\ t \notin Queued \cup holding
      /\ holding' = holding \cup {t} /\ refs' = refs \cup ({t} \cap Timed) /\ cancelled' = cancelled
      /\ live' = live \cup {t}
  BY DEF Post, Reserve
<1>4. Marked'
  BY <1>2, <1>3 DEF IInv, Marked
<1> QED BY <1>1, <1>2, <1>4 DEF IInv

LEMMA SamePlaces ==
  ASSUME Placed, UNCHANGED <<timers, due, inbox, lanes>>
  PROVE  Placed' /\ Queued' = Queued
  BY DEF Placed, Queues, EachOnce, Apart, InTheirLane, Queued

LEMMA StopKeeps == ASSUME IInv, NEW t \in Task, Stop(t) PROVE IInv'
<1>1. Counted'
  BY ReleaseKeeps DEF IInv, Stop
<1>2. Placed' /\ Queued' = Queued
  BY SamePlaces DEF IInv, Stop
<1>3. /\ t \in refs /\ holding' = holding \ {t} /\ refs' = refs \ {t}
      /\ cancelled' = cancelled \cup {t} /\ live' = live \ {t}
  BY DEF Stop, Release
<1>4. Marked'
  BY <1>2, <1>3 DEF IInv, Marked
<1> QED BY <1>1, <1>2, <1>4 DEF IInv

(* A task that runs is gone, and so are its slot and its marks; a cycle    *)
(* that goes on keeps them.                                                *)
LEMMA ServeKeeps == ASSUME IInv, NEW l \in Lane, Serve(l) PROVE IInv'
<1> DEFINE t == lanes[l][NextIndex(l)]
<1>1. RunOnce(t) \/ RunCycle(t)
  BY DEF Serve
<1>2. /\ t \in ToSet(lanes[l]) /\ t \in Queued
      /\ Placed'
      /\ Queued' = (Queued \ {t}) \cup (timers' \ timers)
  BY ServePlaces DEF IInv
<1>3. Counted'
  BY <1>1, RunKeeps DEF IInv
<1>4. t \notin timers
  BY <1>2 DEF IInv, Placed, Apart
<1> HIDE DEF t
<1>5. CASE timers' = timers
  <2>1. Queued' = Queued \ {t}
    BY <1>2, <1>5
  <2>2. /\ holding' = holding \ {t} /\ refs' = refs \ {t} /\ cancelled' = cancelled \ {t}
        /\ live' = live \ {t} \/ live' = live \ ({t} \ cancelled)
    BY <1>1, <1>4, <1>5 DEF RunOnce, RunCycle, Release
  <2>3. live' = holding'
    BY <2>2 DEF IInv, Marked
  <2>4. Marked'
    BY <2>1, <2>2, <2>3 DEF IInv, Marked
  <2> QED BY <1>2, <1>3, <2>4 DEF IInv
<1>6. CASE timers' # timers
  <2>1. /\ t \notin cancelled /\ timers' = timers \cup {t}
        /\ holding' = holding /\ refs' = refs /\ cancelled' = cancelled \ {t}
        /\ live' = live
    BY <1>1, <1>6 DEF RunOnce, RunCycle, slots
  <2>2. Queued' = Queued
    BY <1>2, <1>4, <2>1
  <2>3. Marked'
    BY <2>1, <2>2 DEF IInv, Marked
  <2> QED BY <1>2, <1>3, <2>3 DEF IInv
<1> QED BY <1>5, <1>6

LEMMA BarrierKeeps ==
  ASSUME IInv, NEW l \in Lane, NEW n \in 1 .. LaneBudget, ServeBarrier(l, n)
  PROVE  IInv'
<1> DEFINE batch == Batch(l, n)
<1>1. /\ batch \subseteq Queued /\ batch \cap Timed = {}
      /\ Placed' /\ Queued' = Queued \ batch
  BY BarrierPlaces DEF IInv
<1>2. Counted'
  BY ReleaseKeeps DEF IInv, ServeBarrier
<1>3. /\ holding' = holding \ batch /\ refs' = refs /\ cancelled' = cancelled
      /\ live' = live \ batch
  BY DEF ServeBarrier, Release, Batch, marks
<1> HIDE DEF batch
<1>4. Marked'
  BY <1>1, <1>3 DEF IInv, Marked
<1> QED BY <1>1, <1>2, <1>4 DEF IInv

LEMMA NextKeeps == IInv /\ [Next]_vars => IInv'
<1> SUFFICES ASSUME IInv, [Next]_vars PROVE IInv'
  OBVIOUS
<1>1. ASSUME NEW h \in Thread, NEW t \in Task, Post(h, t)
      PROVE  IInv'
  BY <1>1, PostKeeps
<1>2. ASSUME NEW t \in Task, Stop(t)
      PROVE  IInv'
  BY <1>2, StopKeeps
<1>3. ASSUME NEW t \in Task, FallsDue(t)
      PROVE  IInv'
  <2>1. UNCHANGED <<slots, marks, live>>
    BY <1>3 DEF FallsDue
  <2> QED BY <1>3, <2>1, DuePlaces, MovedKeeps DEF IInv
<1>4. ASSUME NEW h \in Thread, MergeThread(h)
      PROVE  IInv'
  <2>1. UNCHANGED <<slots, marks, live>>
    BY <1>4 DEF MergeThread
  <2> QED BY <1>4, <2>1, MergePlaces, MovedKeeps DEF IInv
<1>5. CASE Promote
  <2>1. UNCHANGED <<slots, marks, live>>
    BY <1>5 DEF Promote
  <2> QED BY <1>5, <2>1, PromotePlaces, MovedKeeps DEF IInv
<1>6. ASSUME NEW l \in Lane, Serve(l)
      PROVE  IInv'
  BY <1>6, ServeKeeps
<1>7. ASSUME NEW l \in Lane, NEW n \in 1 .. LaneBudget, ServeBarrier(l, n)
      PROVE  IInv'
  BY <1>7, BarrierKeeps
<1>8. CASE Shutdown \/ BeginPass \/ EndPass \/ UNCHANGED vars
  <2>1. UNCHANGED <<slots, marks, live>> /\ UNCHANGED <<timers, due, inbox, lanes>>
    BY <1>8 DEF Shutdown, BeginPass, EndPass, vars, slots, marks
  <2> QED BY <2>1, SamePlaces, MovedKeeps DEF IInv
<1> QED BY <1>1, <1>2, <1>3, <1>4, <1>5, <1>6, <1>7, <1>8 DEF Next, Pass

(* Admission, stopping, running once, in a cycle or in a batch: whatever   *)
(* the interleaving, a lane's counter is the number of tasks that hold one *)
(* of its slots and never exceeds its capacity; a slot is held by just the *)
(* tasks that are queued somewhere and were not stopped, and those of them *)
(* that are timers can be stopped.                                         *)
THEOREM SlotsAreExact == Spec => []SlotsExact
<1>1. IInv => SlotsExact
  BY DEF IInv, Counted, Marked, SlotsExact
<1> QED BY <1>1, InitIInv, NextKeeps, PTL DEF Spec

(* No task is queued in two places or twice in one, and a lane holds only  *)
(* tasks of its own.                                                       *)
THEOREM QueuedOnce == Spec => [](EachOnce /\ Apart /\ InTheirLane)
<1>1. IInv => EachOnce /\ Apart /\ InTheirLane
  BY DEF IInv, Placed
<1> QED BY <1>1, InitIInv, NextKeeps, PTL DEF Spec

-----------------------------------------------------------------------------
(* What runs is queued and not marked as cancelled, and therefore live.    *)
LEMMA StepRunsLive ==
  ASSUME IInv, [Next]_vars
  PROVE  [ran' \subseteq live]_vars
<1>1. ASSUME NEW l \in Lane, Serve(l)
      PROVE  ran' \subseteq live
  <2> DEFINE t == lanes[l][NextIndex(l)]
  <2>1. t \in Queued
    BY <1>1, ServePlaces DEF IInv
  <2>2. RunOnce(t) \/ RunCycle(t)
    BY <1>1 DEF Serve
  <2> HIDE DEF t
  <2>3. ran' = {t} \ cancelled
    BY <2>2 DEF RunOnce, RunCycle
  <2> QED BY <2>1, <2>3 DEF IInv, Marked
<1>2. ASSUME NEW l \in Lane, NEW n \in 1 .. LaneBudget, ServeBarrier(l, n)
      PROVE  ran' \subseteq live
  <2>1. ran' = Batch(l, n)
    BY <1>2 DEF ServeBarrier, Batch
  <2>2. Batch(l, n) \subseteq Queued /\ Batch(l, n) \cap Timed = {}
    BY <1>2, BarrierPlaces DEF IInv
  <2> QED BY <2>1, <2>2 DEF IInv, Marked
<1>3. CASE ran' = {}
  BY <1>3
<1>4. CASE UNCHANGED vars
  BY <1>4
<1>5. \/ \E l \in Lane : Serve(l)
      \/ \E l \in Lane, n \in 1 .. LaneBudget : ServeBarrier(l, n)
      \/ ran' = {} \/ UNCHANGED vars
  BY DEF Next, Pass, Post, Stop, FallsDue, MergeThread, Shutdown, BeginPass, Promote, EndPass
<1> QED BY <1>1, <1>2, <1>3, <1>4, <1>5

(* Stopped while it waited, was due or already stood in a lane, a timer    *)
(* does not run, however long ago it was stopped; nothing runs that was    *)
(* not accepted, nor twice for one acceptance; and what was accepted and   *)
(* not stopped stays queued until it runs.  The marks cannot be lost,      *)
(* because they say of everything queued whether it is still live.         *)
THEOREM StoppedTasksNeverRun == Spec => StoppedNeverRuns
<1>1. IInv => live \subseteq Queued
  BY DEF IInv, Marked
<1>2. IInv /\ [Next]_vars => [ran' \subseteq live]_vars
  BY StepRunsLive
<1> QED BY <1>1, <1>2, InitIInv, NextKeeps, PTL DEF Spec, StoppedNeverRuns

NoneOvertaken ==
    \A l \in Lane : \A t \in ran' \cap ToSet(lanes[l]) :
        \A u \in Before(t, l) : ProducerOf[u] = ProducerOf[t] => u \notin ToSet(lanes'[l])

(* The task served is the first of its producer in the lane; of a batch    *)
(* everything before a task is in the batch too.                           *)
LEMMA StepKeepsOrder ==
  ASSUME IInv, [Next]_vars
  PROVE  [NoneOvertaken]_vars
<1>1. ASSUME NEW l \in Lane, Serve(l), NEW k \in Lane, NEW t \in ran' \cap ToSet(lanes[k]),
             NEW u \in Before(t, k), ProducerOf[u] = ProducerOf[t]
      PROVE  FALSE
  <2> DEFINE i == NextIndex(l)
  <2>1. t = lanes[l][i] /\ t \in ToSet(lanes[l])
    <3>1. RunOnce(lanes[l][i]) \/ RunCycle(lanes[l][i])
      BY <1>1 DEF Serve
    <3>2. lanes[l][i] \in ToSet(lanes[l])
      BY <1>1, ServePlaces DEF IInv
    <3> HIDE DEF i
    <3>3. ran' \subseteq {lanes[l][i]}
      BY <3>1 DEF RunOnce, RunCycle
    <3> QED BY <3>2, <3>3
  <2>2. k = l
    BY <2>1 DEF IInv, Placed, InTheirLane
  <2>3. /\ lanes[l] # <<>> /\ lanes[l] \in Seq(Task) /\ Once(lanes[l])
        /\ DOMAIN lanes[l] = 1 .. Len(lanes[l])
    BY <1>1, LenProperties DEF Serve, HasBudget, IInv, Placed, Queues, EachOnce
  <2>4. /\ i \in 1 .. Len(lanes[l])
        /\ \A j \in 1 .. Len(lanes[l]) : j < i => Token(l, j) # Token(l, i)
    BY <2>3, NextIndexIsFirst DEF IInv
  <2> HIDE DEF i
  <2>5. PICK j \in 1 .. Len(lanes[l]) : u = lanes[l][j] /\ \E m \in 1 .. Len(lanes[l]) : j < m /\ lanes[l][m] = t
    BY <2>2, <2>3 DEF Before
  <2>6. j < i
    BY <2>1, <2>3, <2>4, <2>5 DEF Once
  <2> QED BY <1>1, <2>1, <2>4, <2>5, <2>6 DEF Token
<1>2. ASSUME NEW l \in Lane, NEW n \in 1 .. LaneBudget, ServeBarrier(l, n),
             NEW k \in Lane, NEW t \in ran' \cap ToSet(lanes[k]), NEW u \in Before(t, k)
      PROVE  u \notin ToSet(lanes'[k])
  <2>1. /\ t \in Batch(l, n) /\ Batch(l, n) \subseteq ToSet(lanes[l])
        /\ ToSet(lanes'[l]) = ToSet(lanes[l]) \ Batch(l, n)
    BY <1>2, BarrierPlaces DEF IInv, ServeBarrier, Batch
  <2>2. k = l
    BY <2>1 DEF IInv, Placed, InTheirLane
  <2>3. /\ lanes[l] \in Seq(Task) /\ Once(lanes[l]) /\ n \in 0 .. Len(lanes[l])
        /\ DOMAIN lanes[l] = 1 .. Len(lanes[l]) /\ Len(lanes[l]) \in Nat
    BY <1>2, LenProperties DEF ServeBarrier, IInv, Placed, Queues, EachOnce
  <2>4. Batch(l, n) = {lanes[l][i] : i \in 1 .. n}
    BY <2>3, Cut DEF Batch
  <2>5. PICK j \in 1 .. Len(lanes[l]), m \in 1 .. Len(lanes[l]) :
            u = lanes[l][j] /\ j < m /\ lanes[l][m] = t
    BY <2>2, <2>3 DEF Before
  <2>6. PICK i \in 1 .. n : t = lanes[l][i]
    BY <2>1, <2>4
  <2>7. m = i
    BY <2>3, <2>5, <2>6 DEF Once
  <2>8. j \in 1 .. n
    BY <2>3, <2>5, <2>6, <2>7
  <2> QED BY <2>1, <2>2, <2>4, <2>5, <2>8
<1>3. CASE \E l \in Lane : Serve(l)
  BY <1>1, <1>3 DEF NoneOvertaken
<1>4. CASE \E l \in Lane, n \in 1 .. LaneBudget : ServeBarrier(l, n)
  BY <1>2, <1>4 DEF NoneOvertaken
<1>5. CASE ran' = {}
  BY <1>5 DEF NoneOvertaken
<1>6. CASE UNCHANGED vars
  BY <1>6
<1>7. \/ \E l \in Lane : Serve(l)
      \/ \E l \in Lane, n \in 1 .. LaneBudget : ServeBarrier(l, n)
      \/ ran' = {} \/ UNCHANGED vars
  BY DEF Next, Pass, Post, Stop, FallsDue, MergeThread, Shutdown, BeginPass, Promote, EndPass
<1> QED BY <1>3, <1>4, <1>5, <1>6, <1>7

(* When a task runs, no task of its producer that reached the lane before  *)
(* it is still in the lane: fairness among the producers and batches leave *)
(* each of them its order.                                                 *)
THEOREM ProducersKeepTheirOrder == Spec => ProducerOrder
<1>1. IInv /\ [Next]_vars => [NoneOvertaken]_vars
  BY StepKeepsOrder
<1> QED BY <1>1, InitIInv, NextKeeps, PTL DEF Spec, ProducerOrder, NoneOvertaken

-----------------------------------------------------------------------------
(* What is accepted runs, once.                                            *)
LeavesByRunning ==
    /\ holding \ holding' \subseteq ran' \cup cancelled'
    /\ ran' \subseteq holding
    /\ ran' \cap holding' \subseteq Cycle

LEMMA StepLeaves ==
  ASSUME IInv, [Next]_vars
  PROVE  [LeavesByRunning]_vars
<1>1. ASSUME NEW l \in Lane, Serve(l)
      PROVE  LeavesByRunning
  <2> DEFINE t == lanes[l][NextIndex(l)]
  <2>1. t \in Queued
    BY <1>1, ServePlaces DEF IInv
  <2>2. RunOnce(t) \/ RunCycle(t)
    BY <1>1 DEF Serve
  <2> HIDE DEF t
  <2>3. ran' = {t} \ cancelled /\ holding' \in {holding, holding \ {t}}
    BY <2>2 DEF RunOnce, RunCycle, Release, slots
  <2>4. t \in holding' => t \in Cycle
    BY <2>2 DEF RunOnce, RunCycle, Release
  <2>5. t \in holding <=> t \notin cancelled
    BY <2>1 DEF IInv, Marked
  <2> QED BY <2>3, <2>4, <2>5 DEF LeavesByRunning
<1>2. ASSUME NEW l \in Lane, NEW n \in 1 .. LaneBudget, ServeBarrier(l, n)
      PROVE  LeavesByRunning
  <2>1. ran' = Batch(l, n) /\ holding' = holding \ Batch(l, n)
    BY <1>2 DEF ServeBarrier, Batch, Release
  <2>2. Batch(l, n) \subseteq Queued /\ Batch(l, n) \cap Timed = {}
    BY <1>2, BarrierPlaces DEF IInv
  <2>3. Batch(l, n) \subseteq holding
    BY <2>2 DEF IInv, Marked
  <2> QED BY <2>1, <2>3 DEF LeavesByRunning
<1>3. ASSUME NEW t \in Task, Stop(t)
      PROVE  LeavesByRunning
  BY <1>3 DEF Stop, Release, LeavesByRunning
<1>4. CASE ran' = {} /\ holding \subseteq holding'
  BY <1>4 DEF LeavesByRunning
<1>5. CASE UNCHANGED vars
  BY <1>5
<1>6. \/ \E l \in Lane : Serve(l)
      \/ \E l \in Lane, n \in 1 .. LaneBudget : ServeBarrier(l, n)
      \/ \E t \in Task : Stop(t)
      \/ ran' = {} /\ holding \subseteq holding'
      \/ UNCHANGED vars
  BY DEF Next, Pass, Post, Reserve, FallsDue, MergeThread, Shutdown, BeginPass, Promote, EndPass, slots
<1> QED BY <1>1, <1>2, <1>3, <1>4, <1>5, <1>6

(* addEvent, mergeEvents, promotion and the passes lose no task: one that  *)
(* was accepted gives its slot back as it runs or as it is stopped, and in *)
(* no other step; only what still has a slot runs, and unless it is a      *)
(* cycle it has none afterwards, so that it runs once.                     *)
THEOREM AcceptedRunsOnce == Spec => [][LeavesByRunning]_vars
<1>1. IInv /\ [Next]_vars => [LeavesByRunning]_vars
  BY StepLeaves
<1> QED BY <1>1, InitIInv, NextKeeps, PTL DEF Spec

-----------------------------------------------------------------------------
(* How a lane is served.                                                   *)
PassType ==
    /\ lastProducer \in [Lane -> Nat]
    /\ executed \in [Lane -> 0 .. LaneBudget]

PassInv == IInv /\ PassType

LEMMA InitPass == Init => PassInv
<1> SUFFICES ASSUME Init PROVE PassType
  BY InitIInv DEF PassInv
<1>1. 0 \in 0 .. LaneBudget
  BY LanesAssumption
<1> QED BY <1>1 DEF Init, PassType

LEMMA NextPass == PassInv /\ [Next]_vars => PassInv'
<1> SUFFICES ASSUME PassInv, [Next]_vars PROVE PassType'
  BY NextKeeps DEF PassInv
<1>0. LaneBudget \in Nat /\ ProducerOf \in [Task -> Nat]
  BY LanesAssumption
<1>1. ASSUME NEW l \in Lane, Serve(l)
      PROVE  PassType'
  <2> DEFINE t == lanes[l][NextIndex(l)]
  <2>1. ProducerOf[t] \in Nat
    BY <1>0, <1>1, ServePlaces DEF PassInv, IInv
  <2>2. lastProducer' = [lastProducer EXCEPT ![l] = ProducerOf[t]]
    BY <1>1 DEF Serve
  <2> HIDE DEF t
  <2>3. executed[l] \in 0 .. LaneBudget /\ executed[l] < LaneBudget
    BY <1>1 DEF Serve, HasBudget, PassInv, PassType
  <2>4. executed[l] + 1 \in 0 .. LaneBudget /\ LaneBudget \in 0 .. LaneBudget
    BY <1>0, <2>3
  <2>5. \/ executed' = [executed EXCEPT ![l] = executed[l] + 1]
        \/ executed' = [executed EXCEPT ![l] = LaneBudget]
    BY <1>1 DEF Serve
  <2> QED BY <2>1, <2>2, <2>4, <2>5 DEF PassInv, PassType
<1>2. ASSUME NEW l \in Lane, NEW n \in 1 .. LaneBudget, ServeBarrier(l, n)
      PROVE  PassType'
  <2>1. executed[l] \in 0 .. LaneBudget /\ n <= LaneBudget - executed[l]
    BY <1>2 DEF ServeBarrier, PassInv, PassType
  <2>2. executed[l] + n \in 0 .. LaneBudget
    BY <1>0, <2>1
  <2>3. executed' = [executed EXCEPT ![l] = executed[l] + n] /\ lastProducer' = lastProducer
    BY <1>2 DEF ServeBarrier
  <2> QED BY <2>2, <2>3 DEF PassInv, PassType
<1>3. CASE Promote
  <2>1. 0 \in 0 .. LaneBudget
    BY <1>0
  <2> QED BY <1>3, <2>1 DEF Promote, PassInv, PassType
<1>4. CASE UNCHANGED <<lastProducer, executed>>
  BY <1>4 DEF PassInv, PassType
<1>5. \/ \E l \in Lane : Serve(l)
      \/ \E l \in Lane, n \in 1 .. LaneBudget : ServeBarrier(l, n)
      \/ Promote
      \/ UNCHANGED <<lastProducer, executed>>
  BY DEF Next, Pass, Post, Stop, FallsDue, MergeThread, Shutdown, BeginPass, EndPass, vars
<1> QED BY <1>1, <1>2, <1>3, <1>4, <1>5

(* What stands ahead of an entry, in a queue.                              *)
Ahead(s, t) == {s[i] : i \in {j \in 1 .. Len(s) : \E k \in 1 .. Len(s) : j < k /\ s[k] = t}}

LEMMA BeforeIsAhead ==
  ASSUME Placed, NEW l \in Lane, NEW t
  PROVE  Before(t, l) = Ahead(lanes[l], t)
<1>1. lanes[l] \in Seq(Task) /\ DOMAIN lanes[l] = 1 .. Len(lanes[l])
  BY LenProperties DEF Placed, Queues
<1> QED BY <1>1 DEF Before, Ahead

LEMMA AheadConcat ==
  ASSUME NEW T, NEW s \in Seq(T), NEW u \in Seq(T), NEW t \in ToSet(s), t \notin ToSet(u)
  PROVE  Ahead(s \o u, t) \subseteq Ahead(s, t)
<1>1. /\ Len(s \o u) = Len(s) + Len(u) /\ Len(s) \in Nat /\ Len(u) \in Nat
      /\ \A i \in 1 .. Len(s) + Len(u) : (s \o u)[i] = IF i <= Len(s) THEN s[i] ELSE u[i - Len(s)]
  BY ConcatProperties, LenProperties
<1>2. ToSet(u) = {u[i] : i \in 1 .. Len(u)}
  BY ToSetDef
<1>3. ASSUME NEW j \in 1 .. Len(s) + Len(u), NEW k \in 1 .. Len(s) + Len(u), j < k, (s \o u)[k] = t
      PROVE  (s \o u)[j] \in Ahead(s, t)
  <2>1. k <= Len(s)
    <3> SUFFICES ASSUME ~(k <= Len(s)) PROVE FALSE
      OBVIOUS
    <3>1. k - Len(s) \in 1 .. Len(u) /\ u[k - Len(s)] = t
      BY <1>1, <1>3
    <3> QED BY <1>2, <3>1
  <2>2. j \in 1 .. Len(s) /\ k \in 1 .. Len(s) /\ (s \o u)[j] = s[j] /\ s[k] = t
    BY <1>1, <1>3, <2>1
  <2> QED BY <1>3, <2>2 DEF Ahead
<1> QED BY <1>1, <1>3 DEF Ahead

(* A queue that holds some entries of another in the same order.           *)
LEMMA AheadThinned ==
  ASSUME NEW s, NEW r, Len(s) \in Nat, Len(r) \in Nat, NEW f \in [1 .. Len(r) -> 1 .. Len(s)],
         \A i, j \in 1 .. Len(r) : i < j => f[i] < f[j],
         \A i \in 1 .. Len(r) : r[i] = s[f[i]],
         NEW t
  PROVE  Ahead(r, t) \subseteq Ahead(s, t)
<1> SUFFICES ASSUME NEW j \in 1 .. Len(r), NEW k \in 1 .. Len(r), j < k, r[k] = t
             PROVE  r[j] \in Ahead(s, t)
  BY DEF Ahead
<1>1. f[j] \in 1 .. Len(s) /\ f[k] \in 1 .. Len(s) /\ f[j] < f[k] /\ s[f[k]] = t /\ r[j] = s[f[j]]
  OBVIOUS
<1> QED BY <1>1 DEF Ahead

LEMMA AheadRest ==
  ASSUME NEW T, NEW s \in Seq(T), NEW n \in 0 .. Len(s), NEW t
  PROVE  Ahead(SubSeq(s, n + 1, Len(s)), t) \subseteq Ahead(s, t)
<1> DEFINE r == SubSeq(s, n + 1, Len(s))
<1>1. Len(s) \in Nat /\ n \in Nat /\ n <= Len(s) /\ \A i \in 1 .. Len(s) : s[i] \in T
  BY LenProperties
<1>2. n + 1 \in Int /\ Len(s) \in Int /\ \A i \in n + 1 .. Len(s) : s[i] \in T
  BY <1>1
<1>3. /\ Len(r) = IF n + 1 <= Len(s) THEN Len(s) - (n + 1) + 1 ELSE 0
      /\ \A i \in 1 .. Len(s) - (n + 1) + 1 : r[i] = s[n + 1 + i - 1]
  BY <1>2, SubSeqProperties
<1> HIDE DEF r
<1>4. Len(r) = Len(s) - n /\ Len(r) \in Nat /\ \A i \in 1 .. Len(r) : r[i] = s[n + i]
  BY <1>1, <1>3
<1> DEFINE f == [i \in 1 .. Len(r) |-> n + i]
<1>5. f \in [1 .. Len(r) -> 1 .. Len(s)]
  BY <1>1, <1>4
<1>6. /\ \A i, j \in 1 .. Len(r) : i < j => f[i] < f[j]
      /\ \A i \in 1 .. Len(r) : r[i] = s[f[i]]
  BY <1>1, <1>4
<1> HIDE DEF f
<1>7. Ahead(r, t) \subseteq Ahead(s, t)
  BY <1>1, <1>4, <1>5, <1>6, AheadThinned
<1> QED BY <1>7 DEF r

LEMMA RemoveAtIs ==
  ASSUME NEW T, NEW s \in Seq(T), NEW n \in 1 .. Len(s)
  PROVE  /\ Len(RemoveAt(s, n)) = Len(s) - 1 /\ Len(s) \in Nat
         /\ \A i \in 1 .. Len(s) - 1 : RemoveAt(s, n)[i] = IF i < n THEN s[i] ELSE s[i + 1]
<1> DEFINE a == SubSeq(s, 1, n - 1)
           b == SubSeq(s, n + 1, Len(s))
<1>1. Len(s) \in Nat /\ n \in Nat /\ 1 <= n /\ n <= Len(s) /\ \A i \in 1 .. Len(s) : s[i] \in T
  BY LenProperties
<1>2. /\ 1 \in Int /\ n - 1 \in Int /\ n + 1 \in Int /\ Len(s) \in Int
      /\ \A i \in 1 .. n - 1 : s[i] \in T
      /\ \A i \in n + 1 .. Len(s) : s[i] \in T
  BY <1>1
<1>3. /\ a \in Seq(T)
      /\ Len(a) = IF 1 <= n - 1 THEN n - 1 - 1 + 1 ELSE 0
      /\ \A i \in 1 .. n - 1 - 1 + 1 : a[i] = s[1 + i - 1]
  BY <1>2, SubSeqProperties
<1>4. /\ b \in Seq(T)
      /\ Len(b) = IF n + 1 <= Len(s) THEN Len(s) - (n + 1) + 1 ELSE 0
      /\ \A i \in 1 .. Len(s) - (n + 1) + 1 : b[i] = s[n + 1 + i - 1]
  BY <1>2, SubSeqProperties
<1>5. RemoveAt(s, n) = a \o b
  BY DEF RemoveAt
<1> HIDE DEF a, b
<1>6. Len(a) = n - 1 /\ \A i \in 1 .. n - 1 : a[i] = s[i]
  BY <1>1, <1>3
<1>7. Len(b) = Len(s) - n /\ \A i \in 1 .. Len(s) - n : b[i] = s[n + i]
  BY <1>1, <1>4
<1>8. /\ Len(a \o b) = Len(a) + Len(b)
      /\ \A i \in 1 .. Len(a) + Len(b) : (a \o b)[i] = IF i <= Len(a) THEN a[i] ELSE b[i - Len(a)]
  BY <1>3, <1>4, ConcatProperties
<1>9. ASSUME NEW i \in 1 .. Len(s) - 1 PROVE (a \o b)[i] = IF i < n THEN s[i] ELSE s[i + 1]
  <2>1. CASE i < n
    <3>1. i \in 1 .. n - 1 /\ i \in 1 .. Len(a) + Len(b) /\ i <= Len(a)
      BY <1>1, <1>6, <1>7, <2>1
    <3> QED BY <1>6, <1>8, <2>1, <3>1
  <2>2. CASE ~(i < n)
    <3>1. /\ i - (n - 1) \in 1 .. Len(s) - n /\ i \in 1 .. Len(a) + Len(b) /\ ~(i <= Len(a))
          /\ n + (i - (n - 1)) = i + 1
      BY <1>1, <1>6, <1>7, <2>2
    <3>2. (a \o b)[i] = b[i - (n - 1)]
      BY <1>6, <1>8, <3>1
    <3>3. b[i - (n - 1)] = s[n + (i - (n - 1))]
      BY <1>7, <3>1
    <3> QED BY <2>2, <3>1, <3>2, <3>3
  <2> QED BY <2>1, <2>2
<1>10. Len(a \o b) = Len(s) - 1
  BY <1>1, <1>6, <1>7, <1>8
<1> QED BY <1>1, <1>5, <1>9, <1>10

LEMMA AheadRemoveAt ==
  ASSUME NEW T, NEW s \in Seq(T), NEW n \in 1 .. Len(s), NEW t
  PROVE  Ahead(RemoveAt(s, n), t) \subseteq Ahead(s, t)
<1> DEFINE r == RemoveAt(s, n)
<1>1. /\ Len(r) = Len(s) - 1 /\ Len(s) \in Nat
      /\ \A i \in 1 .. Len(s) - 1 : r[i] = IF i < n THEN s[i] ELSE s[i + 1]
  BY RemoveAtIs
<1> HIDE DEF r
<1>2. Len(r) \in Nat /\ n \in Nat /\ 1 <= n /\ n <= Len(s)
  BY <1>1
<1> DEFINE f == [i \in 1 .. Len(r) |-> IF i < n THEN i ELSE i + 1]
<1>3. f \in [1 .. Len(r) -> 1 .. Len(s)]
  BY <1>1, <1>2
<1>4. /\ \A i, j \in 1 .. Len(r) : i < j => f[i] < f[j]
      /\ \A i \in 1 .. Len(r) : r[i] = s[f[i]]
  BY <1>1, <1>2
<1> HIDE DEF f
<1>5. Ahead(r, t) \subseteq Ahead(s, t)
  BY <1>1, <1>2, <1>3, <1>4, AheadThinned
<1> QED BY <1>5 DEF r

-----------------------------------------------------------------------------
(* Going around from one producer to the next, is another passed over?     *)
Skips(from, to, other) ==
    IF from < to THEN from < other /\ other < to ELSE from < other \/ other < to

Left(l) == ToSet(lanes[l]) \ ToSet(lanes'[l])

InTurnIn(l) ==
    \A t \in ToSet(lanes[l]) \cap ToSet(lanes'[l]) :
        /\ Before(t, l)' \subseteq Before(t, l)
        /\ IF l \in Fair \ Parallel
           THEN \A u \in Left(l) : ~Skips(lastProducer[l], ProducerOf[u], ProducerOf[t])
           ELSE Left(l) \subseteq Before(t, l)

InTurn == \A l \in Lane : InTurnIn(l)

LEMMA FairSkipsNobody ==
  ASSUME PassInv, NEW l \in Lane, lanes[l] # <<>>, l \in Fair, NEW j \in 1 .. Len(lanes[l])
  PROVE  ~Skips(lastProducer[l], Token(l, NextIndex(l)), Token(l, j))
<1> DEFINE i == FairIndex(l)
           p == lastProducer[l]
           later == {k \in DOMAIN lanes[l] : Token(l, k) > p}
<1>1. NextIndex(l) = i
  BY DEF NextIndex
<1>2. lanes[l] \in Seq(Task) /\ DOMAIN lanes[l] = 1 .. Len(lanes[l]) /\ p \in Nat
  BY LenProperties DEF PassInv, PassType, IInv, Placed, Queues
<1>3. \A k \in 1 .. Len(lanes[l]) : Token(l, k) \in Nat
  <2>1. \A k \in 1 .. Len(lanes[l]) : lanes[l][k] \in Task
    BY <1>2, LenProperties
  <2> QED BY <2>1, LanesAssumption DEF Token
<1>4. /\ i \in NextRound(l)
      /\ \A k \in NextRound(l) : Token(l, i) < Token(l, k) \/ (Token(l, i) = Token(l, k) /\ i <= k)
  BY FairIndexIsFirst DEF PassInv, IInv
<1>5. NextRound(l) = IF later # {} THEN later ELSE DOMAIN lanes[l]
  BY DEF NextRound
<1> HIDE DEF i
<1>6. i \in 1 .. Len(lanes[l])
  BY <1>2, <1>4, <1>5
<1>7. Token(l, i) \in Nat /\ Token(l, j) \in Nat
  BY <1>3, <1>6
<1>8. CASE p < Token(l, i)
  <2> SUFFICES ASSUME p < Token(l, j), Token(l, j) < Token(l, i) PROVE FALSE
    BY <1>1, <1>8 DEF Skips
  <2>1. j \in NextRound(l)
    BY <1>2, <1>5, <1>7
  <2>2. Token(l, i) <= Token(l, j)
    BY <1>4, <1>7, <2>1
  <2> QED BY <1>7, <2>2
<1>9. CASE ~(p < Token(l, i))
  <2>1. i \notin later
    BY <1>2, <1>7, <1>9
  <2>2. later = {}
    BY <1>4, <1>5, <2>1
  <2>3. ~(Token(l, j) > p) /\ j \in NextRound(l)
    BY <1>2, <1>5, <2>2
  <2>4. Token(l, i) <= Token(l, j)
    BY <1>4, <1>7, <2>3
  <2> HIDE DEF p
  <2>5. ~Skips(p, Token(l, i), Token(l, j))
    BY <1>2, <1>7, <1>9, <2>3, <2>4 DEF Skips
  <2> QED BY <1>1, <2>5 DEF p
<1> QED BY <1>8, <1>9

LEMMA StillInTurn == ASSUME NEW l, lanes'[l] = lanes[l] PROVE InTurnIn(l)
<1>1. Left(l) = {}
  BY DEF Left
<1>2. \A t : Before(t, l)' = Before(t, l)
  BY DEF Before
<1> QED BY <1>1, <1>2 DEF InTurnIn

LEMMA JoinInTurn ==
  ASSUME Placed, Placed', NEW l \in Lane, NEW u \in Seq(Task), ToSet(u) \cap ToSet(lanes[l]) = {},
         lanes'[l] = lanes[l] \o u
  PROVE  InTurnIn(l)
<1>1. lanes[l] \in Seq(Task)
  BY DEF Placed, Queues
<1>2. Left(l) = {}
  BY <1>1, ToSetConcat DEF Left
<1>3. ASSUME NEW t \in ToSet(lanes[l]) PROVE Before(t, l)' \subseteq Before(t, l)
  <2>1. Ahead(lanes[l] \o u, t) \subseteq Ahead(lanes[l], t)
    BY <1>1, AheadConcat
  <2>2. Before(t, l) = Ahead(lanes[l], t)
    BY BeforeIsAhead
  <2>3. Before(t, l)' = Ahead(lanes[l] \o u, t)
    <3>1. lanes'[l] \in Seq(Task) /\ DOMAIN (lanes'[l]) = 1 .. Len(lanes'[l])
      BY LenProperties DEF Placed, Queues
    <3> QED BY <3>1 DEF Before, Ahead
  <2> QED BY <2>1, <2>2, <2>3
<1> QED BY <1>2, <1>3 DEF InTurnIn

LEMMA ServeInTurn ==
  ASSUME PassInv, PassInv', NEW l \in Lane, Serve(l)
  PROVE  InTurnIn(l)
<1> DEFINE i == NextIndex(l)
           s == lanes[l]
<1>1. s \in Seq(Task) /\ Once(s) /\ s # <<>> /\ l \notin Parallel /\ Len(s) \in Nat
  BY LenProperties DEF Serve, HasBudget, PassInv, IInv, Placed, Queues, EachOnce
<1>2. i \in 1 .. Len(s) /\ ToSet(s) = {s[k] : k \in 1 .. Len(s)}
  BY <1>1, NextIndexIsFirst, ToSetDef DEF PassInv, IInv
<1>3. lanes'[l] = RemoveAt(s, i)
  BY DEF Serve, PassInv, IInv, Placed, Queues
<1> HIDE DEF i
<1>4. ToSet(lanes'[l]) = ToSet(s) \ {s[i]}
  BY <1>1, <1>2, <1>3, ToSetRemoveAt
<1>5. Left(l) = {s[i]}
  BY <1>2, <1>4 DEF Left
<1>6. ASSUME NEW t \in ToSet(s) PROVE Before(t, l)' \subseteq Before(t, l)
  <2>1. Ahead(RemoveAt(s, i), t) \subseteq Ahead(s, t)
    BY <1>1, <1>2, AheadRemoveAt
  <2>2. Before(t, l) = Ahead(s, t)
    BY BeforeIsAhead DEF PassInv, IInv
  <2>3. Before(t, l)' = Ahead(RemoveAt(s, i), t)
    <3>1. lanes'[l] \in Seq(Task) /\ DOMAIN (lanes'[l]) = 1 .. Len(lanes'[l])
      BY LenProperties DEF PassInv, IInv, Placed, Queues
    <3> QED BY <1>3, <3>1 DEF Before, Ahead
  <2> QED BY <2>1, <2>2, <2>3
<1>7. ASSUME NEW t \in ToSet(s), t # s[i], l \in Fair
      PROVE  ~Skips(lastProducer[l], ProducerOf[s[i]], ProducerOf[t])
  <2>1. PICK j \in 1 .. Len(s) : t = s[j]
    BY <1>2
  <2>2. ~Skips(lastProducer[l], Token(l, i), Token(l, j))
    BY <1>1, <1>7, FairSkipsNobody DEF i
  <2> QED BY <2>1, <2>2 DEF Token
<1>8. ASSUME NEW t \in ToSet(s), t # s[i], l \notin Fair
      PROVE  s[i] \in Before(t, l)
  <2>1. PICK j \in 1 .. Len(s) : t = s[j]
    BY <1>2
  <2>2. i = 1 /\ i < j
    BY <1>1, <1>8, <2>1 DEF i, NextIndex
  <2>3. s[i] \in Ahead(s, t)
    BY <1>2, <2>1, <2>2 DEF Ahead
  <2> QED BY <2>3, BeforeIsAhead DEF PassInv, IInv
<1> QED BY <1>1, <1>4, <1>5, <1>6, <1>7, <1>8 DEF InTurnIn

LEMMA BarrierInTurn ==
  ASSUME PassInv, PassInv', NEW l \in Lane, NEW n \in 1 .. LaneBudget, ServeBarrier(l, n)
  PROVE  InTurnIn(l)
<1> DEFINE s == lanes[l]
<1>1. /\ s \in Seq(Task) /\ Once(s) /\ l \in Parallel /\ Len(s) \in Nat /\ n \in 0 .. Len(s)
      /\ n \in Nat
  BY LenProperties DEF ServeBarrier, PassInv, IInv, Placed, Queues, EachOnce
<1>2. lanes'[l] = SubSeq(s, n + 1, Len(s))
  BY DEF ServeBarrier, PassInv, IInv, Placed, Queues
<1>3. Batch(l, n) \subseteq ToSet(s) /\ ToSet(lanes'[l]) = ToSet(s) \ Batch(l, n)
  BY BarrierPlaces DEF PassInv, IInv
<1>4. Batch(l, n) = {s[k] : k \in 1 .. n} /\ ToSet(s) = {s[k] : k \in 1 .. Len(s)}
  <2>1. ToSet(s) = {s[k] : k \in 1 .. Len(s)}
    BY <1>1, ToSetDef
  <2> QED BY <1>1, <2>1, Cut DEF Batch
<1>5. Left(l) = Batch(l, n)
  BY <1>3 DEF Left
<1>6. ASSUME NEW t \in ToSet(s) PROVE Before(t, l)' \subseteq Before(t, l)
  <2>1. Ahead(SubSeq(s, n + 1, Len(s)), t) \subseteq Ahead(s, t)
    BY <1>1, AheadRest
  <2>2. Before(t, l) = Ahead(s, t)
    BY BeforeIsAhead DEF PassInv, IInv
  <2>3. Before(t, l)' = Ahead(SubSeq(s, n + 1, Len(s)), t)
    <3>1. lanes'[l] \in Seq(Task) /\ DOMAIN (lanes'[l]) = 1 .. Len(lanes'[l])
      BY LenProperties DEF PassInv, IInv, Placed, Queues
    <3> QED BY <1>2, <3>1 DEF Before, Ahead
  <2> QED BY <2>1, <2>2, <2>3
<1>7. ASSUME NEW t \in ToSet(s), t \notin Batch(l, n)
      PROVE  Batch(l, n) \subseteq Before(t, l)
  <2>1. PICK j \in 1 .. Len(s) : t = s[j]
    BY <1>4
  <2>2. ~(j <= n)
    BY <1>1, <1>4, <1>7, <2>1
  <2>3. \A k \in 1 .. n : k \in 1 .. Len(s) /\ k < j
    BY <1>1, <2>2
  <2>4. Batch(l, n) \subseteq Ahead(s, t)
    BY <1>4, <2>1, <2>3 DEF Ahead
  <2> QED BY <2>4, BeforeIsAhead DEF PassInv, IInv
<1> QED BY <1>1, <1>3, <1>5, <1>6, <1>7 DEF InTurnIn

LEMMA StepInTurn ==
  ASSUME PassInv, PassInv', [Next]_vars
  PROVE  InTurn
<1> SUFFICES ASSUME NEW l \in Lane PROVE InTurnIn(l)
  BY DEF InTurn
<1>0. Placed /\ Placed' /\ lanes \in [Lane -> Seq(Task)]
  BY DEF PassInv, IInv, Placed, Queues
<1>1. ASSUME NEW k \in Lane, Serve(k)
      PROVE  InTurnIn(l)
  <2>1. k # l => lanes'[l] = lanes[l]
    BY <1>0, <1>1 DEF Serve
  <2> QED BY <1>1, <2>1, ServeInTurn, StillInTurn
<1>2. ASSUME NEW k \in Lane, NEW n \in 1 .. LaneBudget, ServeBarrier(k, n)
      PROVE  InTurnIn(l)
  <2>1. k # l => lanes'[l] = lanes[l]
    BY <1>0, <1>2 DEF ServeBarrier
  <2> QED BY <1>2, <2>1, BarrierInTurn, StillInTurn
<1>3. ASSUME NEW h \in Thread, MergeThread(h)
      PROVE  InTurnIn(l)
  <2> DEFINE u == Plain(inbox[h], l)
  <2>1. u \in Seq(Task) /\ ToSet(u) \subseteq ToSet(inbox[h])
    BY <1>0, QueuedTasks, KeepProperties DEF Plain
  <2>2. ToSet(u) \cap ToSet(lanes[l]) = {}
    BY <1>0, <2>1 DEF Placed, Apart
  <2>3. lanes'[l] = lanes[l] \o u
    BY <1>3 DEF MergeThread
  <2> HIDE DEF u
  <2> QED BY <1>0, <2>1, <2>2, <2>3, JoinInTurn
<1>4. CASE Promote
  <2> DEFINE u == Keep(due, Of(l))
  <2>1. due \in Seq(Task)
    BY <1>0, SeqMonotonic, LanesAssumption DEF Placed, Queues
  <2>2. u \in Seq(Task) /\ ToSet(u) \subseteq ToSet(due)
    BY <2>1, KeepProperties
  <2>3. ToSet(u) \cap ToSet(lanes[l]) = {}
    BY <1>0, <2>2 DEF Placed, Apart
  <2>4. lanes'[l] = lanes[l] \o u
    BY <1>4 DEF Promote
  <2> HIDE DEF u
  <2> QED BY <1>0, <2>2, <2>3, <2>4, JoinInTurn
<1>5. CASE lanes' = lanes
  BY <1>5, StillInTurn
<1>6. \/ \E k \in Lane : Serve(k)
      \/ \E k \in Lane, n \in 1 .. LaneBudget : ServeBarrier(k, n)
      \/ \E h \in Thread : MergeThread(h)
      \/ Promote \/ lanes' = lanes
  BY DEF Next, Pass, Post, Stop, FallsDue, Shutdown, BeginPass, EndPass, vars
<1> QED BY <1>1, <1>2, <1>3, <1>4, <1>5, <1>6

(* Nothing that comes later gets ahead of a task that waits in a lane.     *)
(* Where producers are not told apart, whatever leaves the lane stood      *)
(* before everything that stays; in a lane with producer fairness, the     *)
(* round from the producer served last to the one served now passes over   *)
(* no producer that has a task waiting.  This is why a busy producer       *)
(* cannot hold up another one.                                             *)
THEOREM LanesAreServedInTurn == Spec => [][InTurn]_vars
<1>1. PassInv /\ PassInv' /\ [Next]_vars => [InTurn]_vars
  BY StepInTurn
<1> QED BY <1>1, InitPass, NextPass, PTL DEF Spec

-----------------------------------------------------------------------------
(* The length of a pass: what is left of the budgets of the lanes.         *)
BudgetLeft == {b \in Lane \X (1 .. LaneBudget) : executed[b[1]] < b[2]}
PassLeft == Cardinality(BudgetLeft)

PassShortens ==
    phase = "execute" =>
        /\ PassLeft' <= PassLeft
        /\ (\E l \in Lane : Left(l) # {}) => PassLeft' < PassLeft

LEMMA BudgetFinite ==
  ASSUME IsFiniteSet(Lane)
  PROVE  /\ IsFiniteSet(Lane \X (1 .. LaneBudget))
         /\ IsFiniteSet(BudgetLeft) /\ PassLeft \in Nat
         /\ PassLeft <= Cardinality(Lane) * LaneBudget
<1>1. LaneBudget \in Nat /\ 1 \in Int /\ LaneBudget \in Int
  BY LanesAssumption
<1>2. IsFiniteSet(1 .. LaneBudget) /\ Cardinality(1 .. LaneBudget) = LaneBudget
  <2>1. Cardinality(1 .. LaneBudget) = IF 1 > LaneBudget THEN 0 ELSE LaneBudget - 1 + 1
    BY <1>1, FS_Interval
  <2>2. IsFiniteSet(1 .. LaneBudget)
    BY <1>1, FS_Interval
  <2> QED BY <1>1, <2>1, <2>2
<1>3. /\ IsFiniteSet(Lane \X (1 .. LaneBudget))
      /\ Cardinality(Lane \X (1 .. LaneBudget)) = Cardinality(Lane) * Cardinality(1 .. LaneBudget)
  BY <1>2, FS_Product
<1>4. BudgetLeft \in SUBSET (Lane \X (1 .. LaneBudget))
  BY DEF BudgetLeft
<1>5. IsFiniteSet(BudgetLeft) /\ Cardinality(BudgetLeft) <= Cardinality(Lane \X (1 .. LaneBudget))
  BY <1>3, <1>4, FS_Subset
<1> QED BY <1>2, <1>3, <1>5, FS_CardinalityType DEF PassLeft

(* A lane that is served has less of its budget left, and no other more.   *)
LEMMA BudgetFalls ==
  ASSUME PassInv, IsFiniteSet(Lane), NEW l \in Lane, executed[l] < LaneBudget,
         NEW m \in 0 .. LaneBudget, executed[l] < m, executed' = [executed EXCEPT ![l] = m]
  PROVE  PassLeft' < PassLeft
<1>1. executed[l] \in 0 .. LaneBudget /\ LaneBudget \in Nat
  BY LanesAssumption DEF PassInv, PassType
<1>2. \A k \in Lane : executed'[k] = IF k = l THEN m ELSE executed[k]
  BY DEF PassInv, PassType
<1>3. BudgetLeft' = {b \in Lane \X (1 .. LaneBudget) : executed'[b[1]] < b[2]}
  BY DEF BudgetLeft
<1>4. BudgetLeft' \subseteq BudgetLeft
  <2> SUFFICES ASSUME NEW k \in Lane, NEW q \in 1 .. LaneBudget, executed'[k] < q
               PROVE  executed[k] < q
    BY <1>3 DEF BudgetLeft
  <2>1. CASE k = l
    BY <1>1, <1>2, <2>1
  <2>2. CASE k # l
    BY <1>2, <2>2
  <2> QED BY <2>1, <2>2
<1>5. <<l, m>> \in BudgetLeft /\ <<l, m>> \notin BudgetLeft'
  <2>1. m \in 1 .. LaneBudget /\ executed'[l] = m
    BY <1>1, <1>2
  <2> QED BY <1>3, <2>1 DEF BudgetLeft
<1>6. IsFiniteSet(BudgetLeft) /\ PassLeft \in Nat
  BY BudgetFinite
<1> DEFINE later == BudgetLeft'
<1>7. later \in SUBSET BudgetLeft /\ BudgetLeft # later /\ PassLeft' = Cardinality(later)
  BY <1>4, <1>5 DEF PassLeft
<1> HIDE DEF later
<1>8. /\ IsFiniteSet(later) /\ Cardinality(later) <= Cardinality(BudgetLeft)
      /\ Cardinality(later) # Cardinality(BudgetLeft)
  BY <1>6, <1>7, FS_Subset
<1>9. Cardinality(later) \in Nat
  BY <1>8, FS_CardinalityType
<1>10. Cardinality(later) < Cardinality(BudgetLeft)
  BY <1>6, <1>8, <1>9 DEF PassLeft
<1> QED BY <1>7, <1>10 DEF PassLeft

LEMMA StepShortens ==
  ASSUME PassInv, PassInv', IsFiniteSet(Lane), [Next]_vars
  PROVE  PassShortens
<1> SUFFICES ASSUME phase = "execute"
             PROVE  /\ PassLeft' <= PassLeft
                    /\ (\E l \in Lane : Left(l) # {}) => PassLeft' < PassLeft
  BY DEF PassShortens
<1>0. PassLeft \in Nat /\ LaneBudget \in Nat
  BY BudgetFinite, LanesAssumption
<1>a. PassLeft' \in Nat
  <2> DEFINE later == {b \in Lane \X (1 .. LaneBudget) : executed'[b[1]] < b[2]}
  <2>1. later \in SUBSET (Lane \X (1 .. LaneBudget)) /\ PassLeft' = Cardinality(later)
    BY DEF PassLeft, BudgetLeft
  <2> HIDE DEF later
  <2>2. IsFiniteSet(later)
    BY <2>1, BudgetFinite, FS_Subset
  <2> QED BY <2>1, <2>2, FS_CardinalityType
<1>1. ASSUME NEW l \in Lane, Serve(l)
      PROVE  PassLeft' < PassLeft
  <2>1. executed[l] \in 0 .. LaneBudget /\ executed[l] < LaneBudget
    BY <1>1 DEF Serve, HasBudget, PassInv, PassType
  <2>2. PICK m \in {executed[l] + 1, LaneBudget} : executed' = [executed EXCEPT ![l] = m]
    BY <1>1 DEF Serve
  <2>3. m \in 0 .. LaneBudget /\ executed[l] < m
    BY <1>0, <2>1, <2>2
  <2> QED BY <2>1, <2>2, <2>3, BudgetFalls
<1>2. ASSUME NEW l \in Lane, NEW n \in 1 .. LaneBudget, ServeBarrier(l, n)
      PROVE  PassLeft' < PassLeft
  <2>1. executed[l] \in 0 .. LaneBudget /\ executed[l] < LaneBudget /\ n <= LaneBudget - executed[l]
    BY <1>2 DEF ServeBarrier, HasBudget, PassInv, PassType
  <2> DEFINE m == executed[l] + n
  <2>2. m \in 0 .. LaneBudget /\ executed[l] < m
    BY <1>0, <2>1
  <2>3. executed' = [executed EXCEPT ![l] = m]
    BY <1>2 DEF ServeBarrier
  <2> HIDE DEF m
  <2> QED BY <2>1, <2>2, <2>3, BudgetFalls
<1>3. CASE executed' = executed /\ \A l \in Lane : Left(l) = {}
  <2>1. PassLeft' = PassLeft
    BY <1>3 DEF PassLeft, BudgetLeft
  <2> QED BY <1>0, <1>3, <2>1
<1>4. CASE \E l \in Lane : Serve(l)
  BY <1>0, <1>a, <1>1, <1>4
<1>5. CASE \E l \in Lane, n \in 1 .. LaneBudget : ServeBarrier(l, n)
  BY <1>0, <1>a, <1>2, <1>5
<1>6. ASSUME NEW h \in Thread, MergeThread(h)
      PROVE  \A l \in Lane : Left(l) = {}
  <2> SUFFICES ASSUME NEW l \in Lane PROVE Left(l) = {}
    OBVIOUS
  <2> DEFINE u == Plain(inbox[h], l)
  <2>1. inbox[h] \in Seq(Task) /\ lanes[l] \in Seq(Task)
    BY DEF PassInv, IInv, Placed, Queues
  <2>2. u \in Seq(Task)
    BY <2>1, KeepProperties DEF Plain
  <2>3. lanes'[l] = lanes[l] \o u
    BY <1>6 DEF MergeThread
  <2> HIDE DEF u
  <2> QED BY <2>1, <2>2, <2>3, ToSetConcat DEF Left
<1>7. \/ \E l \in Lane : Serve(l)
      \/ \E l \in Lane, n \in 1 .. LaneBudget : ServeBarrier(l, n)
      \/ executed' = executed /\ \E h \in Thread : MergeThread(h)
      \/ executed' = executed /\ lanes' = lanes
  BY DEF Next, Pass, Post, Stop, FallsDue, MergeThread, Shutdown, BeginPass, Promote, EndPass, vars
<1>8. lanes' = lanes => \A l \in Lane : Left(l) = {}
  BY DEF Left
<1> QED BY <1>3, <1>4, <1>5, <1>6, <1>7, <1>8

(* A pass over the lanes ends, whatever the threads publish meanwhile and  *)
(* the tasks it runs add: what is left of the budgets never grows while    *)
(* the pass lasts, is less after every task or batch that leaves a lane,   *)
(* and allows laneTaskBudget tasks of each lane at the most.               *)
THEOREM PassesEnd ==
  ASSUME IsFiniteSet(Lane)
  PROVE  Spec => /\ [](PassLeft \in 0 .. Cardinality(Lane) * LaneBudget)
                 /\ [][PassShortens]_vars
<1>1. PassLeft \in 0 .. Cardinality(Lane) * LaneBudget
  <2>1. Cardinality(Lane) \in Nat /\ LaneBudget \in Nat
    BY FS_CardinalityType, LanesAssumption
  <2>2. Cardinality(Lane) * LaneBudget \in Nat
    BY <2>1
  <2> QED BY <2>2, BudgetFinite
<1>2. PassInv /\ PassInv' /\ [Next]_vars => [PassShortens]_vars
  BY StepShortens
<1> QED BY <1>1, <1>2, InitPass, NextPass, PTL DEF Spec

-----------------------------------------------------------------------------
(* The wake-up.                                                            *)

(* SleepsOverNothing is not inductive: it holds because of what            *)
(* checkPendingTasks has already looked at after it lowered the flag,      *)
(* which LookedAround states.                                              *)
Looking == {"lookAround", "test", "drowsy", "asleep"}

(* While the flag that was lowered is still down, the last look is right   *)
(* about everything it has passed: whatever is there now came since, and   *)
(* who brought it has yet to raise the flag.                               *)
LookedAround ==
    stage \in Looking /\ ~pending =>
        /\ ~laneReady
        /\ completions => worker \in {"completed", "raising"}
        /\ \A h \in inboxes :
             \/ stage = "lookAround" /\ h \in todo
             \/ step[h] \in {"published", "flagged", "raising"}

WakeupInv == WakeupTypeOK /\ FlagCoversInbox /\ LookedAround

LEMMA WakeupStarts == ASSUME WakeupInit PROVE WakeupInv
<1>0. Slices \in Nat \ {0}
  BY WakeupAssumption
<1>1. WakeupTypeOK
  <2>1. budget \in [Kinds -> 0 .. Slices]
    BY <1>0 DEF WakeupInit
  <2>2. step \in [Publisher -> {"idle", "published", "flagged", "raising", "signalling"}]
    BY DEF WakeupInit
  <2> QED BY <2>1, <2>2 DEF WakeupInit, WakeupTypeOK, Stages
<1>2. FlagCoversInbox /\ LookedAround
  BY DEF WakeupInit, FlagCoversInbox, LookedAround, Looking
<1> QED BY <1>1, <1>2 DEF WakeupInv

-----------------------------------------------------------------------------
(* The threads that publish, and the worker of the compute service.        *)
LEMMA PublishSound == ASSUME WakeupInv, NEW h \in Publisher, Publish(h) PROVE WakeupInv'
<1> USE DEF WakeupInv, Publish, Locked, flags, compute, loop
<1>1. WakeupTypeOK'
  BY DEF WakeupTypeOK
<1>2. FlagCoversInbox'
  BY DEF WakeupTypeOK, FlagCoversInbox
<1>3. LookedAround'
  BY DEF WakeupTypeOK, LookedAround
<1> QED BY <1>1, <1>2, <1>3

LEMMA GoesOnSound == ASSUME WakeupInv, NEW h \in Publisher, GoesOn(h) PROVE WakeupInv'
<1> USE DEF WakeupInv, flags, compute, queues, loop
<1>1. CASE RaiseUnmerged(h)
  <2>1. WakeupTypeOK'
    BY <1>1 DEF RaiseUnmerged, WakeupTypeOK
  <2>2. FlagCoversInbox' /\ LookedAround'
    BY <1>1 DEF RaiseUnmerged, WakeupTypeOK, FlagCoversInbox, LookedAround
  <2> QED BY <2>1, <2>2
<1>2. CASE Notify(h)
  <2>1. WakeupTypeOK'
    BY <1>2 DEF Notify, AfterLoad, WakeupTypeOK
  <2>2. FlagCoversInbox' /\ LookedAround'
    BY <1>2 DEF Notify, AfterLoad, WakeupTypeOK, FlagCoversInbox, LookedAround
  <2> QED BY <2>1, <2>2
<1>3. CASE Raise(h)
  <2>1. WakeupTypeOK'
    BY <1>3 DEF Raise, WakeupTypeOK
  <2>2. FlagCoversInbox' /\ LookedAround'
    BY <1>3 DEF Raise, WakeupTypeOK, FlagCoversInbox, LookedAround
  <2> QED BY <2>1, <2>2
<1>4. CASE Signal(h)
  <2>1. WakeupTypeOK'
    BY <1>4 DEF Signal, Signalled, WakeupTypeOK, Stages
  <2>2. FlagCoversInbox'
    BY <1>4 DEF Signal, Signalled, WakeupTypeOK, FlagCoversInbox,
                MergeStages
  <2>3. LookedAround'
    BY <1>4 DEF Signal, Signalled, WakeupTypeOK, LookedAround, Looking
  <2> QED BY <2>1, <2>2, <2>3
<1> QED BY <1>1, <1>2, <1>3, <1>4 DEF GoesOn

LEMMA WorkerSound ==
  ASSUME WakeupInv, WorkerCompletes \/ WorkerNotifies \/ WorkerRaises \/ WorkerSignals
  PROVE  WakeupInv'
<1> USE DEF WakeupInv, flags, compute, queues, loop
<1>1. WakeupTypeOK'
  BY DEF WakeupTypeOK, WorkerCompletes, WorkerNotifies, AfterLoad, WorkerRaises,
         WorkerSignals, Signalled, Stages
<1>2. FlagCoversInbox'
  BY DEF WakeupTypeOK, FlagCoversInbox, MergeStages, WorkerCompletes,
         WorkerNotifies, WorkerRaises, WorkerSignals, Signalled
<1>3. LookedAround'
  BY DEF WakeupTypeOK, LookedAround, Looking, WorkerCompletes, WorkerNotifies,
         AfterLoad, WorkerRaises, WorkerSignals, Signalled
<1> QED BY <1>1, <1>2, <1>3

LEMMA OthersSound == ASSUME WakeupInv, TimerFallsDue \/ RaiseShutdown PROVE WakeupInv'
<1> USE DEF WakeupInv, flags, compute, queues, loop
<1>1. WakeupTypeOK'
  BY DEF WakeupTypeOK, TimerFallsDue, RaiseShutdown, Signalled, Stages
<1>2. FlagCoversInbox'
  BY DEF WakeupTypeOK, FlagCoversInbox, MergeStages, TimerFallsDue,
         RaiseShutdown, Signalled
<1>3. LookedAround'
  BY DEF WakeupTypeOK, LookedAround, Looking, TimerFallsDue, RaiseShutdown,
         Signalled
<1> QED BY <1>1, <1>2, <1>3

-----------------------------------------------------------------------------
(* The dispatcher thread.  It merges outside of Looking, so only the cover *)
(* of the inboxes is at stake.                                             *)
LEMMA MergeFlagSound ==
  ASSUME WakeupInv,
         NEW from \in {"begin", "again", "end"}, NEW merging \in MergeStages,
         NEW after \in {"promote", "execute", "promoteEnd"},
         MergeFlag(from, merging, after)
  PROVE  WakeupInv'
<1> USE DEF WakeupInv, MergeFlag, compute, queues
<1>1. WakeupTypeOK'
  BY DEF WakeupTypeOK, Stages, MergeStages
<1>2. FlagCoversInbox'
  BY DEF WakeupTypeOK, FlagCoversInbox, MergeStages
<1>3. LookedAround'
  BY DEF LookedAround, Looking, MergeStages
<1> QED BY <1>1, <1>2, <1>3

LEMMA MergeThreadSound ==
  ASSUME WakeupInv, NEW h \in Publisher, NEW merging \in MergeStages,
         NEW after \in {"promote", "execute", "promoteEnd"},
         MergeInbox(h, merging, after)
  PROVE  WakeupInv'
<1> USE DEF WakeupInv, MergeInbox, flags, compute
<1>1. WakeupTypeOK'
  BY DEF WakeupTypeOK, Stages, MergeStages
<1>2. FlagCoversInbox'
  BY DEF WakeupTypeOK, FlagCoversInbox, MergeStages
<1>3. LookedAround'
  BY DEF LookedAround, Looking, MergeStages
<1> QED BY <1>1, <1>2, <1>3

LEMMA MergeEventsSound == ASSUME WakeupInv, MergeEvents PROVE WakeupInv'
  BY MergeFlagSound, MergeThreadSound DEF MergeEvents, MergeQueue,
                                          MergeStages

LEMMA RunSound ==
  ASSUME WakeupInv,
         \/ PromoteScheduledEvents \/ SliceOfTasks
         \/ SliceOfCompletions \/ PassEnds
  PROVE  WakeupInv'
<1>0. Slices \in Nat \ {0}
  BY WakeupAssumption
<1> USE DEF WakeupInv, PromoteScheduledEvents, SliceOfTasks,
            SliceOfCompletions, PassEnds,
            flags, compute, queues
<1>1. /\ UNCHANGED <<flags, step, inboxes, todo>>
      /\ stage \notin MergeStages /\ stage' \notin MergeStages
  BY DEF MergeStages
<1>2. stage' \notin Looking /\ stage' \in Stages
  BY DEF Looking, Stages
<1>3. laneReady' \in BOOLEAN /\ completions' \in BOOLEAN /\ timerDue' \in BOOLEAN /\ UNCHANGED worker
  BY DEF WakeupTypeOK
<1>4. budget' \in [Kinds -> 0 .. Slices]
  <2>1. ASSUME NEW k \in Kinds, Ready(k)
        PROVE  budget[k] - 1 \in 0 .. Slices
    BY <2>1, <1>0 DEF WakeupTypeOK, Ready
  <2>2. 0 \in 0 .. Slices /\ Slices \in 0 .. Slices
    BY <1>0
  <2> QED BY <2>1, <2>2 DEF WakeupTypeOK, Kinds
<1>5. WakeupTypeOK'
  BY <1>1, <1>2, <1>3, <1>4 DEF WakeupTypeOK
<1>6. FlagCoversInbox'
  BY <1>1 DEF FlagCoversInbox
<1>7. LookedAround'
  BY <1>2 DEF LookedAround
<1> QED BY <1>5, <1>6, <1>7

LEMMA CheckSound ==
  ASSUME WakeupInv, LowerPending \/ Look \/ RaisePending
  PROVE  WakeupInv'
<1> USE DEF WakeupInv, LowerPending, Look, RaisePending, flags,
            compute, queues
<1>1. WakeupTypeOK'
  BY DEF WakeupTypeOK, Stages
<1>2. FlagCoversInbox'
  BY DEF FlagCoversInbox, MergeStages
<1>3. LookedAround'
  BY DEF WakeupTypeOK, LookedAround, Looking
<1> QED BY <1>1, <1>2, <1>3

LEMMA LookAtSound == ASSUME WakeupInv, NEW h \in Publisher, LookAt(h) PROVE WakeupInv'
<1> USE DEF WakeupInv, LookAt, flags, compute, queues
<1>1. stage' \in {"raise", "test", "lookAround"}
  OBVIOUS
<1>2. WakeupTypeOK'
  BY <1>1 DEF WakeupTypeOK, Stages
<1>3. FlagCoversInbox'
  BY <1>1 DEF FlagCoversInbox, MergeStages
<1>4. LookedAround'
  BY <1>1 DEF WakeupTypeOK, LookedAround, Looking
<1> QED BY <1>2, <1>3, <1>4

LEMMA SleepSound ==
  ASSUME WakeupInv, Test \/ FallAsleep \/ TimeOut
  PROVE  WakeupInv'
<1> USE DEF WakeupInv, Test, FallAsleep, TimeOut, flags,
            compute, queues
<1>1. WakeupTypeOK'
  BY DEF WakeupTypeOK, Stages
<1>2. FlagCoversInbox'
  BY DEF FlagCoversInbox, MergeStages
<1>3. LookedAround'
  BY DEF LookedAround, Looking
<1> QED BY <1>1, <1>2, <1>3

LEMMA WakeupStep ==
  ASSUME WakeupInv, [WakeupNext]_wakeupVars
  PROVE  WakeupInv'
<1>1. CASE \E h \in Publisher : Publish(h) \/ GoesOn(h)
  BY <1>1, PublishSound, GoesOnSound
<1>2. CASE WorkerCompletes \/ WorkerNotifies \/ WorkerRaises \/ WorkerSignals
  BY <1>2, WorkerSound
<1>3. CASE TimerFallsDue \/ RaiseShutdown
  BY <1>3, OthersSound
<1>4. CASE Loop
  BY <1>4, MergeEventsSound, RunSound, CheckSound, LookAtSound, SleepSound DEF Loop
<1>5. CASE UNCHANGED wakeupVars
  BY <1>5 DEF WakeupInv, WakeupTypeOK, FlagCoversInbox, LookedAround, wakeupVars,
              flags, compute, queues, loop
<1> QED BY <1>1, <1>2, <1>3, <1>4, <1>5 DEF WakeupNext

LEMMA WakeupInvariant == WakeupSpec => []WakeupInv
<1>1. WakeupInit => WakeupInv
  BY WakeupStarts
<1>2. WakeupInv /\ [WakeupNext]_wakeupVars => WakeupInv'
  BY WakeupStep
<1> QED BY <1>1, <1>2, PTL DEF WakeupSpec

(* The state keeps its shape for any set of publishing threads.            *)
THEOREM WakeupTypeCorrect == WakeupSpec => []WakeupTypeOK
<1>1. WakeupInv => WakeupTypeOK
  BY DEF WakeupInv
<1> QED BY <1>1, WakeupInvariant, PTL

(* notifyThreadTaskPublished before notify, and mergeEvents lowering its   *)
(* flag before it empties the queues: no published task is overlooked.     *)
THEOREM MergeOverlooksNothing == WakeupSpec => []FlagCoversInbox
<1>1. WakeupInv => FlagCoversInbox
  BY DEF WakeupInv
<1> QED BY <1>1, WakeupInvariant, PTL

(* checkPendingTasks lowers its flag before it looks: the dispatcher does  *)
(* not fall asleep over a task or a completion nobody will tell it of.     *)
THEOREM NobodySleepsOverWork == WakeupSpec => []SleepsOverNothing
<1>1. WakeupInv => SleepsOverNothing
  BY DEF WakeupInv, LookedAround, Looking, SleepsOverNothing
<1> QED BY <1>1, WakeupInvariant, PTL
-----------------------------------------------------------------------------
(* The length of a pass of the loop: the steps the dispatcher thread takes *)
(* at most before it tests its flags, by its stage, the n threads left to  *)
(* merge or to look at, and the k slices left of the budgets.  A slice is  *)
(* followed by a merge of all queues.                                      *)
Threads == Cardinality(Publisher)

Rounds(k) == k * (Threads + 2)

LoopSteps(s, n, k) ==
    CASE s = "gone" -> 0
      [] s = "test" -> 1
      [] s \in {"asleep", "raise"} -> 2
      [] s = "drowsy" -> 3
      [] s = "lookAround" -> 3 + n
      [] s = "look" -> Threads + 4
      [] s = "clear" -> Threads + 5
      [] s = "promoteEnd" -> Threads + 6
      [] s = "mergeEnd" -> Threads + 6 + n
      [] s = "end" -> 2 * Threads + 7
      [] s = "execute" -> 2 * Threads + 8 + Rounds(k)
      [] s = "mergeAgain" -> 2 * Threads + 8 + Rounds(k) + n
      [] s = "again" -> 3 * Threads + 9 + Rounds(k)
      [] s = "promote" -> 2 * Threads + 9 + Rounds(k)
      [] s = "merge" -> 2 * Threads + 9 + Rounds(k) + n
      [] s = "begin" -> 3 * Threads + 10 + Rounds(k)

SlicesLeft == budget["tasks"] + budget["completions"]

LoopLeft == LoopSteps(stage, Cardinality(todo), SlicesLeft)

LoopAdvances ==
    /\ Loop => LoopLeft' < LoopLeft \/ (stage \in {"test", "asleep"} /\ ~closing)
    /\ ~Loop => LoopLeft' <= LoopLeft

LEMMA RoundsFacts ==
  ASSUME IsFiniteSet(Publisher)
  PROVE  /\ Threads \in Nat
         /\ \A k \in Nat : Rounds(k) \in Nat
         /\ \A j, k \in Nat : j < k => Rounds(j) + Threads + 2 <= Rounds(k)
         /\ \A j, k \in Nat : j <= k => Rounds(j) <= Rounds(k)
<1>1. Threads \in Nat
  BY FS_CardinalityType DEF Threads
<1>2. PICK w \in Nat : w = Threads + 2
  BY <1>1
<1>3. \A k : Rounds(k) = k * w
  BY <1>2 DEF Rounds
<1>4. ASSUME NEW k \in Nat PROVE Rounds(k) \in Nat
  BY <1>3
<1>5. ASSUME NEW j \in Nat, NEW k \in Nat, j <= k PROVE Rounds(j) <= Rounds(k)
  <2>1. PICK d \in Nat : k = j + d
    <3>1. k - j \in Nat /\ k = j + (k - j)
      BY <1>5
    <3> QED BY <3>1
  <2>2. k * w = j * w + d * w /\ d * w \in Nat /\ j * w \in Nat
    BY <2>1
  <2> QED BY <1>3, <2>2
<1>6. ASSUME NEW j \in Nat, NEW k \in Nat, j < k PROVE Rounds(j) + Threads + 2 <= Rounds(k)
  <2>1. j + 1 \in Nat /\ j + 1 <= k
    BY <1>6
  <2>2. Rounds(j + 1) <= Rounds(k)
    BY <1>5, <2>1
  <2>3. Rounds(j + 1) = Rounds(j) + w
    <3>1. (j + 1) * w = j * w + w
      OBVIOUS
    <3> QED BY <1>3, <3>1
  <2> QED BY <1>1, <1>2, <1>4, <2>1, <2>2, <2>3
<1> QED BY <1>1, <1>4, <1>5, <1>6

(* Stages, threads and slices are the only things that count.              *)
LEMMA SlicesLeftType ==
  ASSUME WakeupTypeOK
  PROVE  SlicesLeft \in Nat /\ SlicesLeft <= 2 * Slices /\ budget["tasks"] \in Nat /\ budget["completions"] \in Nat
<1>1. budget["tasks"] \in 0 .. Slices /\ budget["completions"] \in 0 .. Slices /\ Slices \in Nat
  BY WakeupAssumption DEF WakeupTypeOK, Kinds
<1> QED BY <1>1 DEF SlicesLeft

LEMMA TodoFacts ==
  ASSUME IsFiniteSet(Publisher), NEW S \in SUBSET Publisher
  PROVE  Cardinality(S) \in Nat /\ Cardinality(S) <= Threads /\ \A h \in S : Cardinality(S \ {h}) = Cardinality(S) - 1
<1>1. IsFiniteSet(S) /\ Cardinality(S) <= Threads
  BY FS_Subset DEF Threads
<1> QED BY <1>1, FS_CardinalityType, FS_RemoveElement

LEMMA LoopLeftThen ==
  ASSUME NEW n, NEW k, Cardinality(todo') = n, SlicesLeft' = k
  PROVE  LoopLeft' = LoopSteps(stage', n, k)
  BY DEF LoopLeft

LEMMA LoopLeftBounded ==
  ASSUME IsFiniteSet(Publisher), WakeupTypeOK
  PROVE  LoopLeft \in 0 .. 3 * Threads + 10 + Rounds(2 * Slices)
<1>1. PICK n \in Nat : n = Cardinality(todo) /\ n <= Threads
  BY TodoFacts DEF WakeupTypeOK
<1>2. PICK k \in Nat : k = SlicesLeft /\ k <= 2 * Slices
  BY SlicesLeftType
<1>3. Slices \in Nat
  BY WakeupAssumption
<1>4. Threads \in Nat /\ Rounds(k) \in Nat /\ Rounds(2 * Slices) \in Nat /\ Rounds(k) <= Rounds(2 * Slices)
  BY <1>2, <1>3, RoundsFacts
<1>5. LoopLeft = LoopSteps(stage, n, k) /\ stage \in Stages
  BY <1>1, <1>2 DEF LoopLeft, WakeupTypeOK
<1>6. CASE stage \in {"gone", "test", "asleep", "raise", "drowsy", "lookAround", "look", "clear", "promoteEnd",
                        "mergeEnd", "end"}
  <2>1. LoopLeft \in Nat /\ LoopLeft <= 3 * Threads + 10
    BY <1>1, <1>4, <1>5, <1>6 DEF LoopSteps
  <2> QED BY <1>4, <2>1
<1>7. CASE stage \in {"execute", "mergeAgain", "again", "promote", "merge", "begin"}
  <2>1. PICK c \in Nat : c <= 3 * Threads + 10 /\ LoopLeft = c + Rounds(k)
    <3>1. LoopLeft \in {2 * Threads + 8 + Rounds(k), 2 * Threads + 8 + Rounds(k) + n, 3 * Threads + 9 + Rounds(k),
                        2 * Threads + 9 + Rounds(k), 2 * Threads + 9 + Rounds(k) + n, 3 * Threads + 10 + Rounds(k)}
      BY <1>5, <1>7 DEF LoopSteps
    <3>2. LoopLeft - Rounds(k) \in Nat /\ LoopLeft - Rounds(k) <= 3 * Threads + 10
      BY <1>1, <1>4, <3>1
    <3>3. LoopLeft = (LoopLeft - Rounds(k)) + Rounds(k)
      BY <1>1, <1>4, <3>1
    <3> QED BY <3>2, <3>3
  <2> QED BY <1>4, <2>1
<1> QED BY <1>5, <1>6, <1>7 DEF Stages, MergeStages

(* The loop's own steps.                                                   *)
LEMMA MergeAdvances ==
  ASSUME IsFiniteSet(Publisher), WakeupTypeOK, MergeEvents
  PROVE  LoopLeft' < LoopLeft
<1>1. PICK n \in Nat : n = Cardinality(todo) /\ \A h \in todo : Cardinality(todo \ {h}) = n - 1
  BY TodoFacts DEF WakeupTypeOK
<1>2. PICK k \in Nat : k = SlicesLeft /\ Rounds(k) \in Nat /\ Threads \in Nat
  BY SlicesLeftType, RoundsFacts
<1>3. LoopLeft = LoopSteps(stage, n, k)
  BY <1>1, <1>2 DEF LoopLeft
<1>4. SlicesLeft' = k
  BY <1>2 DEF MergeEvents, MergeFlag, MergeQueue, MergeInbox, SlicesLeft
<1>5. ASSUME NEW from, NEW merging, NEW then, MergeFlag(from, merging, then),
             <<from, merging, then>> \in {<<"begin", "merge", "promote">>, <<"again", "mergeAgain", "execute">>,
                                          <<"end", "mergeEnd", "promoteEnd">>}
      PROVE  LoopLeft' < LoopLeft
  <2>1. \/ stage' = merging /\ Cardinality(todo') = Threads
        \/ stage' = then /\ Cardinality(todo') = 0
    BY <1>5, FS_EmptySet DEF MergeFlag, Threads
  <2>2. LoopLeft' = LoopSteps(merging, Threads, k) \/ LoopLeft' = LoopSteps(then, 0, k)
    BY <1>4, <2>1, LoopLeftThen
  <2>3. stage = from
    BY <1>5 DEF MergeFlag
  <2> QED BY <1>2, <1>3, <1>5, <2>2, <2>3 DEF LoopSteps
<1>6. ASSUME NEW h, NEW merging, NEW then, MergeInbox(h, merging, then),
             <<merging, then>> \in {<<"merge", "promote">>, <<"mergeAgain", "execute">>, <<"mergeEnd", "promoteEnd">>}
      PROVE  LoopLeft' < LoopLeft
  <2>1. Cardinality(todo') = n - 1 /\ h \in todo
    BY <1>1, <1>6 DEF MergeInbox
  <2>2. n - 1 \in Nat
    <3>1. todo \ {h} \in SUBSET Publisher
      BY DEF WakeupTypeOK
    <3>2. Cardinality(todo \ {h}) \in Nat
      BY <3>1, TodoFacts
    <3> QED BY <1>1, <2>1, <3>2
  <2>3. LoopLeft' = LoopSteps(merging, n - 1, k) \/ LoopLeft' = LoopSteps(then, n - 1, k)
    BY <1>4, <1>6, <2>1, LoopLeftThen DEF MergeInbox
  <2>4. stage = merging
    BY <1>6 DEF MergeInbox
  <2> QED BY <1>1, <1>2, <1>3, <1>6, <2>2, <2>3, <2>4 DEF LoopSteps
<1> QED BY <1>5, <1>6 DEF MergeEvents, MergeQueue

(* A slice uses up some of its budget, and a merge follows.                *)
LEMMA SliceAdvances ==
  ASSUME IsFiniteSet(Publisher), WakeupTypeOK, SliceOfTasks \/ SliceOfCompletions
  PROVE  LoopLeft' < LoopLeft
<1>1. budget["tasks"] \in Nat /\ budget["completions"] \in Nat /\ SlicesLeft \in Nat
  BY SlicesLeftType
<1>2. PICK j \in Nat : j = SlicesLeft' /\ j < SlicesLeft
  <2>1. CASE SliceOfTasks
    <3>1. PICK left \in {0, budget["tasks"] - 1} : budget' = [budget EXCEPT !["tasks"] = left]
      BY <2>1 DEF SliceOfTasks
    <3>2. budget'["tasks"] = left /\ budget'["completions"] = budget["completions"] /\ budget["tasks"] > 0
      BY <2>1, <3>1 DEF SliceOfTasks, Ready, WakeupTypeOK, Kinds
    <3>3. left \in Nat /\ left < budget["tasks"]
      BY <1>1, <3>1, <3>2
    <3>4. left + budget["completions"] = SlicesLeft'
      BY <3>2 DEF SlicesLeft
    <3> QED BY <1>1, <3>3, <3>4 DEF SlicesLeft
  <2>2. CASE SliceOfCompletions
    <3>1. /\ budget'["tasks"] = budget["tasks"] /\ budget'["completions"] = budget["completions"] - 1
          /\ budget["completions"] > 0
      BY <2>2 DEF SliceOfCompletions, Ready, WakeupTypeOK, Kinds
    <3>2. budget["tasks"] + (budget["completions"] - 1) = SlicesLeft'
      BY <3>1 DEF SlicesLeft
    <3> QED BY <1>1, <3>1, <3>2 DEF SlicesLeft
  <2> QED BY <2>1, <2>2
<1>3. PICK n : n = Cardinality(todo) /\ n = Cardinality(todo')
  BY DEF SliceOfTasks, SliceOfCompletions
<1>4. stage = "execute" /\ stage' = "again"
  BY DEF SliceOfTasks, SliceOfCompletions
<1>5. LoopLeft' = 3 * Threads + 9 + Rounds(j)
  BY <1>2, <1>3, <1>4, LoopLeftThen DEF LoopSteps
<1>6. LoopLeft = 2 * Threads + 8 + Rounds(SlicesLeft)
  BY <1>4 DEF LoopLeft, LoopSteps
<1>7. /\ Threads \in Nat /\ Rounds(j) \in Nat /\ Rounds(SlicesLeft) \in Nat
      /\ Rounds(j) + Threads + 2 <= Rounds(SlicesLeft)
  BY <1>1, <1>2, RoundsFacts
<1> QED BY <1>5, <1>6, <1>7

LEMMA RestAdvances ==
  ASSUME IsFiniteSet(Publisher), WakeupTypeOK,
         PromoteScheduledEvents \/ PassEnds \/ LowerPending \/ Look \/ RaisePending \/ FallAsleep
           \/ (closing /\ (Test \/ TimeOut))
  PROVE  LoopLeft' < LoopLeft
<1>1. PICK n \in Nat : n = Cardinality(todo)
  BY TodoFacts DEF WakeupTypeOK
<1>2. PICK k \in Nat : k = SlicesLeft /\ Rounds(k) \in Nat /\ Threads \in Nat
  BY SlicesLeftType, RoundsFacts
<1>3. LoopLeft = LoopSteps(stage, n, k)
  BY <1>1, <1>2 DEF LoopLeft
<1>4. CASE PassEnds
  <2>1. PICK j : j = SlicesLeft'
    OBVIOUS
  <2>2. LoopLeft' = LoopSteps("end", n, j) /\ stage = "execute"
    BY <1>1, <1>4, <2>1, LoopLeftThen DEF PassEnds
  <2> QED BY <1>2, <1>3, <2>2 DEF LoopSteps
<1>5. CASE Look
  <2>1. LoopLeft' = LoopSteps("raise", Threads, k) \/ LoopLeft' = LoopSteps("lookAround", Threads, k)
    BY <1>2, <1>5, LoopLeftThen DEF Look, Threads, SlicesLeft
  <2>2. stage = "look"
    BY <1>5 DEF Look
  <2> QED BY <1>2, <1>3, <2>1, <2>2 DEF LoopSteps
<1>6. CASE PromoteScheduledEvents \/ LowerPending \/ RaisePending \/ FallAsleep \/ (closing /\ (Test \/ TimeOut))
  <2>1. LoopLeft' = LoopSteps(stage', n, k)
    BY <1>1, <1>2, <1>6, LoopLeftThen
       DEF PromoteScheduledEvents, LowerPending, RaisePending, FallAsleep, Test, TimeOut, SlicesLeft
  <2>2. <<stage, stage'>> \in {<<"promote", "execute">>, <<"promoteEnd", "clear">>, <<"clear", "look">>,
                               <<"raise", "test">>, <<"drowsy", "asleep">>, <<"test", "gone">>, <<"asleep", "gone">>}
    BY <1>6 DEF PromoteScheduledEvents, LowerPending, RaisePending, FallAsleep, Test, TimeOut
  <2> QED BY <1>1, <1>2, <1>3, <2>1, <2>2 DEF LoopSteps
<1> QED BY <1>4, <1>5, <1>6

LEMMA LookAtAdvances ==
  ASSUME IsFiniteSet(Publisher), WakeupTypeOK, NEW h \in Publisher, LookAt(h)
  PROVE  LoopLeft' < LoopLeft
<1>1. PICK n \in Nat : n = Cardinality(todo) /\ Cardinality(todo \ {h}) = n - 1
  BY TodoFacts DEF WakeupTypeOK, LookAt
<1>2. n - 1 \in Nat
  <2>1. todo \ {h} \in SUBSET Publisher
    BY DEF WakeupTypeOK
  <2> QED BY <1>1, <2>1, TodoFacts
<1>3. PICK k : k = SlicesLeft /\ k = SlicesLeft'
  BY DEF LookAt, SlicesLeft
<1>4. LoopLeft = 3 + n
  BY <1>1 DEF LoopLeft, LoopSteps, LookAt
<1>5. LoopLeft' = LoopSteps(stage', n - 1, k)
  BY <1>1, <1>3, LoopLeftThen DEF LookAt
<1>6. stage' \in {"raise", "test", "lookAround"}
  BY DEF LookAt
<1> QED BY <1>1, <1>2, <1>4, <1>5, <1>6 DEF LoopSteps

(* The others leave the loop where it is, or wake it.                      *)
LEMMA OthersAdvanceNothing ==
  ASSUME IsFiniteSet(Publisher), WakeupTypeOK, [WakeupNext]_wakeupVars, ~Loop
  PROVE  LoopLeft' <= LoopLeft
<1>1. UNCHANGED <<todo, budget>> /\ (UNCHANGED stage \/ (stage = "asleep" /\ stage' = "test"))
  BY DEF WakeupNext, Publish, GoesOn, RaiseUnmerged, Notify, Raise, Signal, Signalled, WorkerCompletes,
         WorkerNotifies, WorkerRaises, WorkerSignals, TimerFallsDue, RaiseShutdown, loop, wakeupVars
<1>2. PICK n, k : n = Cardinality(todo) /\ k = SlicesLeft
  OBVIOUS
<1>3. LoopLeft' = LoopSteps(stage', n, k) /\ LoopLeft = LoopSteps(stage, n, k)
  BY <1>1, <1>2, LoopLeftThen DEF LoopLeft, SlicesLeft
<1>4. CASE UNCHANGED stage
  <2>1. LoopLeft' = LoopLeft /\ LoopLeft \in Nat
    <3>1. LoopLeft \in 0 .. 3 * Threads + 10 + Rounds(2 * Slices)
      BY LoopLeftBounded
    <3>2. LoopLeft' = LoopLeft
      BY <1>3, <1>4
    <3> QED BY <3>1, <3>2
  <2> QED BY <2>1
<1>5. CASE stage = "asleep" /\ stage' = "test"
  BY <1>3, <1>5 DEF LoopSteps
<1> QED BY <1>1, <1>4, <1>5

LEMMA LoopStepAdvances ==
  ASSUME IsFiniteSet(Publisher), WakeupInv, [WakeupNext]_wakeupVars
  PROVE  LoopAdvances
<1> USE DEF WakeupInv
<1>1. ASSUME Loop PROVE LoopLeft' < LoopLeft \/ (stage \in {"test", "asleep"} /\ ~closing)
  <2>1. (Test \/ TimeOut) => stage \in {"test", "asleep"}
    BY DEF Test, TimeOut
  <2> QED BY <1>1, <2>1, MergeAdvances, SliceAdvances, RestAdvances, LookAtAdvances DEF Loop
<1> QED BY <1>1, OthersAdvanceNothing DEF LoopAdvances

(* Every step the dispatcher thread takes brings it nearer to the test of  *)
(* its flags, which is never further away than the bound, and no step of   *)
(* anybody else delays it: a pass ends however many threads publish and    *)
(* notify meanwhile.  From there it turns back only if it has not found    *)
(* the server shutting down.  This is what is safety in ShutdownIsSeen.    *)
THEOREM LoopComesRound ==
  ASSUME IsFiniteSet(Publisher)
  PROVE  WakeupSpec => /\ [](LoopLeft \in 0 .. 3 * Threads + 10 + Rounds(2 * Slices))
                       /\ [][LoopAdvances]_wakeupVars
<1>1. WakeupInv => LoopLeft \in 0 .. 3 * Threads + 10 + Rounds(2 * Slices)
  BY LoopLeftBounded DEF WakeupInv
<1>2. WakeupInv /\ [WakeupNext]_wakeupVars => [LoopAdvances]_wakeupVars
  BY LoopStepAdvances
<1> QED BY <1>1, <1>2, WakeupInvariant, PTL DEF WakeupSpec

=============================================================================
