------------------------ MODULE MonsterComputeProofs ------------------------
(***************************************************************************)
(* The invariants of MonsterCompute, for any finite set of workers, any    *)
(* capacity and any limit of a drain: the counters are exact, no assert    *)
(* can fail, background requests keep no visible one out, and the service  *)
(* implements WorkLedger.                                                  *)
(***************************************************************************)
EXTENDS MonsterCompute, FiniteSetTheorems, TLAPS

-----------------------------------------------------------------------------
(* Counting threads and completions.                                       *)
ActiveIn(a, p) == Cardinality({h \in Thread : a[h] = p})
BusyIn(a) == {h \in Thread : a[h] # Idle}
BatchIn(b, i, p) == Cardinality({j \in i .. Len(b) : b[j] = p})

\* b is a after thread h has changed to q.
Turned(a, b, h, q) == b = [a EXCEPT ![h] = q]

LEMMA ThreadsFinite == IsFiniteSet(Thread)
<1>1. IsFiniteSet({Caller})
  BY FS_Singleton
<1> QED BY <1>1, FS_Union, ComputeAssumption DEF Thread

LEMMA OneMore ==
  ASSUME NEW S, IsFiniteSet(S), NEW x, x \notin S, NEW T, T = S \cup {x}
  PROVE  Cardinality(T) = Cardinality(S) + 1 /\ Cardinality(S) \in Nat
  BY FS_AddElement, FS_CardinalityType

LEMMA ActiveType ==
  ASSUME NEW a, NEW p
  PROVE  ActiveIn(a, p) \in Nat /\ Cardinality(BusyIn(a)) \in Nat
<1>1. IsFiniteSet({h \in Thread : a[h] = p}) /\ IsFiniteSet(BusyIn(a))
  BY ThreadsFinite, FS_Subset DEF BusyIn
<1> QED BY <1>1, FS_CardinalityType DEF ActiveIn

(* A thread that was idle takes up a request of priority p.                *)
LEMMA OneMoreActive ==
  ASSUME NEW a \in [Thread -> Priority \cup {Idle}], NEW h \in Thread, a[h] = Idle,
         NEW p \in Priority, NEW b, Turned(a, b, h, p)
  PROVE  /\ \A q \in Priority : ActiveIn(b, q) = ActiveIn(a, q) + (IF q = p THEN 1 ELSE 0)
         /\ Cardinality(BusyIn(b)) = Cardinality(BusyIn(a)) + 1
<1> USE DEF Turned
<1>0. Idle \notin Priority /\ \A q : IsFiniteSet({g \in Thread : a[g] = q}) /\ IsFiniteSet(BusyIn(a))
  BY ThreadsFinite, FS_Subset, ComputeAssumption DEF BusyIn
<1>1. \A q \in Priority : ActiveIn(b, q) = ActiveIn(a, q) + (IF q = p THEN 1 ELSE 0)
  <2> TAKE q \in Priority
  <2>1. CASE q = p
    <3>1. {g \in Thread : b[g] = q} = {g \in Thread : a[g] = q} \cup {h} /\ h \notin {g \in Thread : a[g] = q}
      BY <1>0, <2>1
    <3> QED BY <1>0, <2>1, <3>1, OneMore DEF ActiveIn
  <2>2. CASE q # p
    <3>1. {g \in Thread : b[g] = q} = {g \in Thread : a[g] = q}
      BY <1>0, <2>2
    <3>2. ActiveIn(b, q) = ActiveIn(a, q)
      BY <3>1 DEF ActiveIn
    <3> QED BY <2>2, <3>2, ActiveType
  <2> QED BY <2>1, <2>2
<1>2. BusyIn(b) = BusyIn(a) \cup {h} /\ h \notin BusyIn(a)
  BY <1>0 DEF BusyIn
<1> QED BY <1>0, <1>1, <1>2, OneMore

(* A thread ends its request: the same change read backwards.              *)
LEMMA OneLessActive ==
  ASSUME NEW a \in [Thread -> Priority \cup {Idle}], NEW h \in Thread, a[h] # Idle,
         NEW b, Turned(a, b, h, Idle)
  PROVE  /\ \A q \in Priority : ActiveIn(a, q) = ActiveIn(b, q) + (IF q = a[h] THEN 1 ELSE 0)
         /\ Cardinality(BusyIn(a)) = Cardinality(BusyIn(b)) + 1
<1>1. b \in [Thread -> Priority \cup {Idle}] /\ b[h] = Idle /\ a[h] \in Priority /\ Turned(b, a, h, a[h])
  BY DEF Turned
<1> QED BY <1>1, OneMoreActive

LEMMA BatchFinite ==
  ASSUME NEW b, NEW i \in Nat, Len(b) \in Nat, NEW p
  PROVE  IsFiniteSet({j \in i .. Len(b) : b[j] = p}) /\ BatchIn(b, i, p) \in Nat
<1>1. IsFiniteSet(i .. Len(b))
  <2>1. i \in Int /\ Len(b) \in Int
    OBVIOUS
  <2> QED BY <2>1, FS_Interval
<1>2. IsFiniteSet({j \in i .. Len(b) : b[j] = p})
  BY <1>1, FS_Subset
<1> QED BY <1>2, FS_CardinalityType DEF BatchIn

(* A completion is appended to the batch.                                  *)
LEMMA OneMoreTaken ==
  ASSUME NEW b \in Seq(Priority), NEW p \in Priority
  PROVE  \A q \in Priority : BatchIn(Append(b, p), 1, q) = BatchIn(b, 1, q) + (IF q = p THEN 1 ELSE 0)
<1> DEFINE c == Append(b, p)
<1>1. Len(c) = Len(b) + 1 /\ Len(b) \in Nat /\ c[Len(b) + 1] = p /\ \A j \in 1 .. Len(b) : c[j] = b[j]
  OBVIOUS
<1> HIDE DEF c
<1> SUFFICES ASSUME NEW q \in Priority PROVE BatchIn(c, 1, q) = BatchIn(b, 1, q) + (IF q = p THEN 1 ELSE 0)
  BY DEF c
<1>2. IsFiniteSet({j \in 1 .. Len(b) : b[j] = q}) /\ BatchIn(b, 1, q) \in Nat
  BY <1>1, BatchFinite
<1>3. CASE q = p
  <2>1. {j \in 1 .. Len(c) : c[j] = q} = {j \in 1 .. Len(b) : b[j] = q} \cup {Len(b) + 1}
    BY <1>1, <1>3
  <2>2. Len(b) + 1 \notin {j \in 1 .. Len(b) : b[j] = q}
    BY <1>1
  <2> QED BY <1>2, <1>3, <2>1, <2>2, OneMore DEF BatchIn
<1>4. CASE q # p
  <2>1. {j \in 1 .. Len(c) : c[j] = q} = {j \in 1 .. Len(b) : b[j] = q}
    BY <1>1, <1>4
  <2>2. BatchIn(c, 1, q) = BatchIn(b, 1, q)
    BY <2>1 DEF BatchIn
  <2> QED BY <1>2, <1>4, <2>2
<1> QED BY <1>3, <1>4

(* The first completion of the batch has run.                              *)
LEMMA OneLessTaken ==
  ASSUME NEW b \in Seq(Priority), NEW i \in 1 .. Len(b)
  PROVE  \A q \in Priority : BatchIn(b, i, q) = BatchIn(b, i + 1, q) + (IF q = b[i] THEN 1 ELSE 0)
<1>0. Len(b) \in Nat /\ i \in Nat /\ i + 1 \in Nat
  OBVIOUS
<1> TAKE q \in Priority
<1>1. IsFiniteSet({j \in i + 1 .. Len(b) : b[j] = q}) /\ BatchIn(b, i + 1, q) \in Nat
  BY <1>0, BatchFinite
<1>2. CASE q = b[i]
  <2>1. {j \in i .. Len(b) : b[j] = q} = {j \in i + 1 .. Len(b) : b[j] = q} \cup {i}
    BY <1>0, <1>2
  <2>2. i \notin {j \in i + 1 .. Len(b) : b[j] = q}
    BY <1>0
  <2> QED BY <1>1, <1>2, <2>1, <2>2, OneMore DEF BatchIn
<1>3. CASE q # b[i]
  <2>1. {j \in i .. Len(b) : b[j] = q} = {j \in i + 1 .. Len(b) : b[j] = q}
    BY <1>0, <1>3
  <2>2. BatchIn(b, i, q) = BatchIn(b, i + 1, q)
    BY <2>1 DEF BatchIn
  <2> QED BY <1>1, <1>3, <2>2
<1> QED BY <1>2, <1>3

LEMMA NothingTaken ==
  ASSUME NEW b \in Seq(Priority), NEW i \in Nat, i > Len(b), NEW q
  PROVE  BatchIn(b, i, q) = 0
<1>1. {j \in i .. Len(b) : b[j] = q} = {}
  OBVIOUS
<1> QED BY <1>1, FS_EmptySet DEF BatchIn

-----------------------------------------------------------------------------
(* The inductive invariant.  To the counters it adds their bounds and what *)
(* is known of the drain and of shutdown between two of their sections.    *)
ExactOf(p) ==
    outstandingOf[p] = requests[p] + ActiveIn(active, p) + completions[p] + BatchIn(pending, at, p)

OutstandingSum == outstanding = outstandingOf["visible"] + outstandingOf["background"]
BusyCount == activeRequests = Cardinality(BusyIn(active))
ActiveSum == activeRequests = ActiveIn(active, "visible") + ActiveIn(active, "background")
InFlight == completionsInFlight = IF taking > 0 THEN 0 ELSE Len(pending) + 1 - at

Exact == (\A p \in Priority : ExactOf(p)) /\ OutstandingSum /\ BusyCount /\ ActiveSum /\ InFlight

Bounded ==
    /\ outstanding <= Capacity
    /\ outstandingOf["background"] <= Capacity - VisibleReserve

Between ==
    /\ taking > 0 => at = 1
    /\ taking <= completions["visible"] + completions["background"]
    /\ taking = 0 /\ pending # <<>> => at <= Len(pending)
    /\ stopper # "none" <=> state = "stopping"
    /\ state # "running" => \A p \in Priority : requests[p] = 0
    /\ state = "stopped" => alive = {}

IInv == TypeOK /\ Exact /\ Bounded /\ Between

LEMMA ReserveType == VisibleReserve \in 0 .. Capacity /\ Capacity \in Nat
  BY ComputeAssumption DEF VisibleReserve

LEMMA CountTypes ==
  ASSUME TypeOK
  PROVE  /\ \A p \in Priority : ActiveIn(active, p) \in Nat /\ BatchIn(pending, at, p) \in Nat
         /\ Len(pending) \in Nat /\ at \in Nat
<1>1. Len(pending) \in Nat /\ at \in Nat
  BY DEF TypeOK
<1> QED BY <1>1, ActiveType, BatchFinite

LEMMA NumberTypes ==
  ASSUME TypeOK
  PROVE  /\ \A p \in Priority : /\ ActiveIn(active, p) \in Nat /\ BatchIn(pending, at, p) \in Nat
                               /\ requests[p] \in Nat /\ completions[p] \in Nat /\ outstandingOf[p] \in Nat
         /\ outstanding \in Nat /\ activeRequests \in Nat /\ completionsInFlight \in Nat /\ taking \in Nat
         /\ "visible" \in Priority /\ "background" \in Priority
  BY CountTypes DEF TypeOK, Priority

LEMMA SelectedThere ==
  ASSUME NEW size \in [Priority -> Nat], NEW run \in 0 .. 3, size["visible"] + size["background"] > 0
  PROVE  size[Selected(size, run)] > 0 /\ Selected(size, run) \in Priority /\ StreakAfter(size, run) \in 0 .. 3
  BY DEF Selected, StreakAfter, Priority

LEMMA InitSound == Init => IInv
<1> SUFFICES ASSUME Init PROVE IInv
  OBVIOUS
<1>1. TypeOK
  <2>1. pending \in Seq(Priority) /\ at \in 1 .. Len(pending) + 1
    BY DEF Init
  <2>2. requests \in [Priority -> Nat] /\ completions \in [Priority -> Nat] /\ outstandingOf \in [Priority -> Nat]
    BY DEF Init
  <2>3. active \in [Thread -> Priority \cup {Idle}]
    BY DEF Init
  <2>4. streak \in 0 .. 3 /\ completionStreak \in 0 .. 3 /\ 0 \in Nat
    BY DEF Init
  <2> QED BY <2>1, <2>2, <2>3, <2>4 DEF Init, TypeOK
<1>2. \A p \in Priority : ActiveIn(active, p) = 0
  <2> TAKE p \in Priority
  <2>1. {h \in Thread : active[h] = p} = {}
    BY ComputeAssumption DEF Init
  <2> QED BY <2>1, FS_EmptySet DEF ActiveIn
<1>3. Cardinality(BusyIn(active)) = 0
  <2>1. BusyIn(active) = {}
    BY DEF Init, BusyIn
  <2> QED BY <2>1, FS_EmptySet
<1>4. pending \in Seq(Priority) /\ Len(pending) = 0 /\ at = 1
  BY DEF Init
<1>5. \A p \in Priority : BatchIn(pending, at, p) = 0
  <2>1. at \in Nat /\ at > Len(pending)
    BY <1>4
  <2> QED BY <1>4, <2>1, NothingTaken
<1>6. Exact
  BY <1>2, <1>3, <1>4, <1>5 DEF Exact, ExactOf, OutstandingSum, BusyCount, ActiveSum, InFlight, Init, Priority
<1>7. Bounded /\ Between
  BY ReserveType DEF Bounded, Between, Init, Priority
<1> QED BY <1>1, <1>6, <1>7 DEF IInv

-----------------------------------------------------------------------------
LEMMA StartKeeps == ASSUME IInv, NEW few \in BOOLEAN, Start(few) PROVE IInv'
<1> USE DEF IInv, Start, counters, drain
<1>1. TypeOK'
  <2>1. streak' \in 0 .. 3 /\ completionStreak' \in 0 .. 3
    OBVIOUS
  <2>2. alive' \subseteq Worker /\ waiting' \subseteq alive'
    BY DEF TypeOK, Between
  <2> QED BY <2>1, <2>2 DEF TypeOK
<1>2. Exact'
  BY DEF Exact, ExactOf, OutstandingSum, BusyCount, ActiveSum, InFlight
<1>3. Bounded' /\ Between'
  BY DEF Bounded, Between, MutexFree
<1> QED BY <1>1, <1>2, <1>3

LEMMA SubmitKeeps == ASSUME IInv, NEW p \in Priority, Submit(p) PROVE IInv'
<1> USE DEF IInv
<1>1. active[Caller] = Idle /\ Caller \in Thread /\ active \in [Thread -> Priority \cup {Idle}]
  BY DEF Submit, DispatcherFree, Thread, TypeOK
<1>2. outstandingOf' = [outstandingOf EXCEPT ![p] = @ + 1] /\ outstanding' = outstanding + 1
  BY DEF Submit
<1>3. UNCHANGED <<service, streak, completions, completionStreak, completionsInFlight, alive, waiting, drain>>
  BY DEF Submit
<1>4. TypeOK'
  <2>1. outstandingOf' \in [Priority -> Nat] /\ outstanding' \in Nat
    BY <1>2 DEF TypeOK
  <2>2. CASE active' = [active EXCEPT ![Caller] = p] /\ activeRequests' = activeRequests + 1 /\ UNCHANGED <<requests, notifying>>
    BY <1>1, <1>3, <2>1, <2>2 DEF TypeOK, service, drain
  <2>3. CASE requests' = [requests EXCEPT ![p] = @ + 1] /\ notifying' = TRUE /\ UNCHANGED <<active, activeRequests>>
    BY <1>1, <1>3, <2>1, <2>3 DEF TypeOK, service, drain
  <2> QED BY <2>2, <2>3 DEF Submit
<1>5. \A q \in Priority : outstandingOf'[q] = outstandingOf[q] + (IF q = p THEN 1 ELSE 0)
  BY <1>2 DEF TypeOK
<1>8. OutstandingSum'
  <2>1. outstandingOf'["visible"] + outstandingOf'["background"] = outstandingOf["visible"] + outstandingOf["background"] + 1
    BY <1>5, NumberTypes DEF Priority
  <2> QED BY <1>2, <2>1 DEF Exact, OutstandingSum
<1>9. InFlight'
  BY <1>3 DEF Exact, InFlight, drain
<1>10. Exact'
  <2>1. CASE active' = [active EXCEPT ![Caller] = p] /\ activeRequests' = activeRequests + 1 /\ UNCHANGED <<requests, notifying>>
    <3>1. Turned(active, active', Caller, p)
      BY <2>1 DEF Turned
    <3>2. \A q \in Priority : ActiveIn(active', q) = ActiveIn(active, q) + (IF q = p THEN 1 ELSE 0)
      BY <1>1, <3>1, OneMoreActive
    <3>3. Cardinality(BusyIn(active')) = Cardinality(BusyIn(active)) + 1
      BY <1>1, <3>1, OneMoreActive
    <3>4. activeRequests' = activeRequests + 1 /\ UNCHANGED requests
      BY <2>1
    <3>5. \A q \in Priority : ExactOf(q)'
      BY <1>3, <1>5, <3>2, <3>4, NumberTypes DEF Exact, ExactOf, drain
    <3>6. BusyCount'
      BY <3>3, <3>4 DEF Exact, BusyCount
    <3>7. ActiveSum'
      BY <3>2, <3>4, NumberTypes DEF Exact, ActiveSum, Priority
    <3> QED BY <1>8, <1>9, <3>5, <3>6, <3>7 DEF Exact
  <2>2. CASE requests' = [requests EXCEPT ![p] = @ + 1] /\ notifying' = TRUE /\ UNCHANGED <<active, activeRequests>>
    <3>1. \A q \in Priority : requests'[q] = requests[q] + (IF q = p THEN 1 ELSE 0)
      BY <2>2 DEF TypeOK
    <3>2. \A q \in Priority : ExactOf(q)'
      BY <1>3, <1>5, <2>2, <3>1, NumberTypes DEF Exact, ExactOf, drain
    <3>3. BusyCount' /\ ActiveSum'
      BY <2>2 DEF Exact, BusyCount, ActiveSum
    <3> QED BY <1>8, <1>9, <3>2, <3>3 DEF Exact
  <2> QED BY <2>1, <2>2 DEF Submit
<1>6. Bounded'
  BY <1>2, ReserveType DEF Submit, HasRoom, Bounded, TypeOK, Priority
<1>7. Between'
  BY <1>3 DEF Submit, Accepting, Between, service, drain
<1> QED BY <1>4, <1>6, <1>7, <1>10

(* Steps that change no counter and nothing that they count.               *)
LEMMA UncountedKeeps ==
  ASSUME IInv, UNCHANGED <<requests, active, completions, counters, drain>>, UNCHANGED <<state, stopper>>,
         alive' \subseteq alive, TypeOK'
  PROVE  IInv'
<1>1. Exact'
  BY DEF IInv, Exact, ExactOf, OutstandingSum, BusyCount, ActiveSum, InFlight, counters, drain
<1>2. Bounded' /\ Between'
  BY DEF IInv, Bounded, Between, counters, drain
<1> QED BY <1>1, <1>2 DEF IInv

LEMMA NotifyOneKeeps == IInv /\ NotifyOne => IInv'
<1> SUFFICES ASSUME IInv, NotifyOne PROVE IInv'
  OBVIOUS
<1>1. TypeOK'
  BY DEF IInv, TypeOK, NotifyOne, service, queues, counters, drain
<1> QED BY <1>1, UncountedKeeps DEF NotifyOne, service, queues

LEMMA WorkerRestsKeeps == ASSUME IInv, NEW w \in Worker, WorkerExits(w) \/ WorkerSleeps(w) PROVE IInv'
<1>1. TypeOK'
  BY DEF IInv, TypeOK, WorkerExits, WorkerSleeps, Awake, service, queues, counters, drain
<1> QED BY <1>1, UncountedKeeps DEF WorkerExits, WorkerSleeps, service, queues

LEMMA WorkerTakesKeeps == ASSUME IInv, NEW w \in Worker, NEW p \in Priority, WorkerTakes(w, p) PROVE IInv'
<1>1. active[w] = Idle /\ w \in Thread /\ active \in [Thread -> Priority \cup {Idle}]
  BY DEF IInv, WorkerTakes, Awake, Thread, TypeOK
<1>2. requests[p] > 0 /\ streak' \in 0 .. 3
  BY SelectedThere DEF IInv, TypeOK, WorkerTakes, Both
<1>3. /\ requests' = [requests EXCEPT ![p] = @ - 1] /\ active' = [active EXCEPT ![w] = p]
      /\ activeRequests' = activeRequests + 1 /\ state = "running"
      /\ UNCHANGED <<service, completions, completionStreak, outstanding, outstandingOf, completionsInFlight, threads, drain>>
  BY DEF WorkerTakes
<1>4. TypeOK'
  <2>1. requests' \in [Priority -> Nat]
    BY <1>2, <1>3 DEF IInv, TypeOK
  <2>2. active' \in [Thread -> Priority \cup {Idle}]
    BY <1>1, <1>3
  <2> QED BY <1>2, <1>3, <2>1, <2>2 DEF IInv, TypeOK, service, threads, drain
<1>5. Exact'
  <2>0. activeRequests' = activeRequests + 1 /\ UNCHANGED <<completions, outstanding, outstandingOf, completionsInFlight, drain>>
    BY <1>3
  <2>1. Turned(active, active', w, p)
    BY <1>3 DEF Turned
  <2>2. \A q \in Priority : ActiveIn(active', q) = ActiveIn(active, q) + (IF q = p THEN 1 ELSE 0)
    BY <1>1, <2>1, OneMoreActive
  <2>3. Cardinality(BusyIn(active')) = Cardinality(BusyIn(active)) + 1
    BY <1>1, <2>1, OneMoreActive
  <2>4. \A q \in Priority : requests[q] = requests'[q] + (IF q = p THEN 1 ELSE 0) /\ requests'[q] \in Nat
    BY <1>2, <1>3 DEF IInv, TypeOK
  <2>5. \A q \in Priority : ExactOf(q)'
    <3> TAKE q \in Priority
    <3>1. outstandingOf[q] = requests[q] + ActiveIn(active, q) + completions[q] + BatchIn(pending, at, q)
      BY DEF IInv, Exact, ExactOf
    <3>2. outstandingOf[q] = requests'[q] + ActiveIn(active', q) + completions[q] + BatchIn(pending, at, q)
      BY <2>2, <2>4, <3>1, NumberTypes DEF IInv
    <3> QED BY <2>0, <3>2 DEF ExactOf, drain
  <2>6. BusyCount'
    BY <2>0, <2>3 DEF IInv, Exact, BusyCount
  <2>7. ActiveSum'
    BY <2>0, <2>2, NumberTypes DEF IInv, Exact, ActiveSum, Priority
  <2>8. OutstandingSum' /\ InFlight'
    BY <2>0 DEF IInv, Exact, OutstandingSum, InFlight, drain
  <2> QED BY <2>5, <2>6, <2>7, <2>8 DEF Exact
<1>6. Bounded' /\ Between'
  BY <1>3 DEF IInv, Bounded, Between, service, drain
<1> QED BY <1>4, <1>5, <1>6 DEF IInv

LEMMA CompleteKeeps == ASSUME IInv, NEW h \in Thread, Complete(h) PROVE IInv'
<1>1. active[h] # Idle /\ active[h] \in Priority /\ active \in [Thread -> Priority \cup {Idle}]
  BY DEF IInv, Complete, TypeOK
<1>2. /\ completions' = [completions EXCEPT ![active[h]] = @ + 1] /\ active' = [active EXCEPT ![h] = Idle]
      /\ UNCHANGED <<service, streak, completionStreak, threads>>
  BY DEF Complete
<1>3. /\ activeRequests' = activeRequests - 1 /\ taking = 0
      /\ UNCHANGED <<requests, outstanding, outstandingOf, completionsInFlight, drain>>
  BY DEF Complete, MutexFree
<1>4. Turned(active, active', h, Idle)
  BY <1>2 DEF Turned
<1>5. \A q \in Priority : ActiveIn(active, q) = ActiveIn(active', q) + (IF q = active[h] THEN 1 ELSE 0)
  BY <1>1, <1>4, OneLessActive
<1>6. Cardinality(BusyIn(active)) = Cardinality(BusyIn(active')) + 1
  BY <1>1, <1>4, OneLessActive
<1>7. Cardinality(BusyIn(active')) \in Nat
  BY ActiveType
<1>8. \A q \in Priority : ActiveIn(active', q) \in Nat
  BY ActiveType
<1>9. BusyCount' /\ activeRequests' \in Nat
  BY <1>3, <1>6, <1>7 DEF IInv, Exact, BusyCount
<1>10. TypeOK'
  <2>1. completions' \in [Priority -> Nat]
    BY <1>1, <1>2 DEF IInv, TypeOK
  <2>2. active' \in [Thread -> Priority \cup {Idle}]
    BY <1>1, <1>2
  <2> QED BY <1>2, <1>3, <1>9, <2>1, <2>2 DEF IInv, TypeOK, service, threads, drain
<1>11. \A q \in Priority : completions'[q] = completions[q] + (IF q = active[h] THEN 1 ELSE 0)
  BY <1>1, <1>2 DEF IInv, TypeOK
<1>12. Exact'
  <2>1. \A q \in Priority : ExactOf(q)'
    BY <1>3, <1>5, <1>8, <1>11, NumberTypes DEF IInv, Exact, ExactOf, drain
  <2>2. ActiveSum'
    BY <1>1, <1>3, <1>5, <1>8, NumberTypes DEF IInv, Exact, ActiveSum, Priority
  <2>3. OutstandingSum' /\ InFlight'
    BY <1>3 DEF IInv, Exact, OutstandingSum, InFlight, drain
  <2> QED BY <1>9, <2>1, <2>2, <2>3 DEF Exact
<1>13. Bounded' /\ Between'
  <2>1. taking' <= completions'["visible"] + completions'["background"]
    BY <1>3, <1>11, NumberTypes DEF IInv, drain
  <2> QED BY <1>2, <1>3, <2>1 DEF IInv, Bounded, Between, service, drain, threads
<1> QED BY <1>10, <1>12, <1>13 DEF IInv

-----------------------------------------------------------------------------
LEMMA DrainBeginKeeps == ASSUME IInv, NEW limit \in Nat \ {0}, DrainBegin(limit) PROVE IInv'
<1>1. /\ UNCHANGED <<service, queues, active, counters, threads, pending, at>>
      /\ pending = <<>> /\ taking = 0 /\ Both(completions) > 0
      /\ taking' = IF limit < Both(completions) THEN limit ELSE Both(completions)
  BY DEF DrainBegin, MutexFree
<1>2. taking' \in Nat /\ taking' > 0 /\ taking' <= completions["visible"] + completions["background"]
  BY <1>1, NumberTypes DEF IInv, Both
<1>3. Len(pending) = 0 /\ at = 1
  BY <1>1 DEF IInv, TypeOK
<1>4. TypeOK'
  BY <1>1, <1>2 DEF IInv, TypeOK, service, queues, counters, threads
<1>5. InFlight'
  BY <1>1, <1>2, <1>3 DEF IInv, Exact, InFlight, counters
<1>6. Exact'
  BY <1>1, <1>5 DEF IInv, Exact, ExactOf, OutstandingSum, BusyCount, ActiveSum, queues, counters
<1>7. Bounded' /\ Between'
  BY <1>1, <1>2, <1>3 DEF IInv, Bounded, Between, service, queues, counters, threads
<1> QED BY <1>4, <1>6, <1>7 DEF IInv

LEMMA DrainTakeKeeps == ASSUME IInv, NEW p \in Priority, DrainTake(p) PROVE IInv'
<1>1. /\ taking > 0 /\ p = Selected(completions, completionStreak)
      /\ completions' = [completions EXCEPT ![p] = @ - 1]
      /\ completionStreak' = StreakAfter(completions, completionStreak)
      /\ pending' = Append(pending, p) /\ taking' = taking - 1
      /\ completionsInFlight' = completionsInFlight + (IF taking = 1 THEN Len(pending) + 1 ELSE 0)
  BY DEF DrainTake
<1>2. UNCHANGED <<service, requests, streak, active, outstanding, outstandingOf, activeRequests, threads, at>>
  BY DEF DrainTake
<1>3. completions["visible"] + completions["background"] > 0 /\ taking <= completions["visible"] + completions["background"]
  <2>1. taking > 0 /\ taking \in Nat /\ completions["visible"] \in Nat /\ completions["background"] \in Nat
    BY <1>1, NumberTypes DEF IInv
  <2>2. taking <= completions["visible"] + completions["background"]
    BY DEF IInv, Between
  <2> QED BY <2>1, <2>2
<1>4. completions[p] > 0 /\ completionStreak' \in 0 .. 3
  BY <1>1, <1>3, SelectedThere DEF IInv, TypeOK
<1>5. \A q \in Priority : completions[q] = completions'[q] + (IF q = p THEN 1 ELSE 0) /\ completions'[q] \in Nat
  BY <1>1, <1>4 DEF IInv, TypeOK
<1>6. at = 1 /\ completionsInFlight = 0
  BY <1>1 DEF IInv, Exact, InFlight, Between
<1>7. Len(pending') = Len(pending) + 1 /\ Len(pending) \in Nat /\ pending' \in Seq(Priority) /\ pending' # <<>>
  <2>1. pending \in Seq(Priority) /\ pending' = Append(pending, p)
    BY <1>1 DEF IInv, TypeOK
  <2> QED BY <2>1
<1>8. \A q \in Priority : BatchIn(pending', 1, q) = BatchIn(pending, 1, q) + (IF q = p THEN 1 ELSE 0)
  BY <1>1, OneMoreTaken DEF IInv, TypeOK
<1>9. InFlight' /\ completionsInFlight' \in Nat
  <2>1. taking \in Nat /\ taking > 0 /\ taking' = taking - 1
    BY <1>1, NumberTypes DEF IInv
  <2>2. completionsInFlight' = (IF taking = 1 THEN Len(pending) + 1 ELSE 0)
    <3>1. completionsInFlight' = completionsInFlight + (IF taking = 1 THEN Len(pending) + 1 ELSE 0)
      BY <1>1
    <3> QED BY <1>6, <1>7, <3>1
  <2>3. Len(pending') + 1 - at' = Len(pending) + 1
    <3>1. at' = 1
      BY <1>2, <1>6
    <3> QED BY <1>7, <3>1
  <2> QED BY <1>7, <2>1, <2>2, <2>3 DEF InFlight
<1>10. TypeOK'
  <2>1. completions' \in [Priority -> Nat]
    BY <1>1, <1>4 DEF IInv, TypeOK
  <2>2. taking' \in Nat
    <3>1. taking \in Nat /\ taking > 0 /\ taking' = taking - 1
      BY <1>1, NumberTypes DEF IInv
    <3> QED BY <3>1
  <2>3. at' \in 1 .. Len(pending') + 1
    <3>1. at' = 1
      BY <1>2, <1>6
    <3> QED BY <1>7, <3>1
  <2> QED BY <1>2, <1>4, <1>7, <1>9, <2>1, <2>2, <2>3 DEF IInv, TypeOK, service, threads
<1>11. \A q \in Priority : ExactOf(q)'
  <2> TAKE q \in Priority
  <2>1. outstandingOf[q] = requests[q] + ActiveIn(active, q) + completions[q] + BatchIn(pending, 1, q)
    BY <1>6 DEF IInv, Exact, ExactOf
  <2>2. BatchIn(pending, 1, q) \in Nat
    BY <1>6, NumberTypes DEF IInv
  <2>3. outstandingOf[q] = requests[q] + ActiveIn(active, q) + completions'[q] + BatchIn(pending', 1, q)
    BY <1>5, <1>8, <2>1, <2>2, NumberTypes DEF IInv
  <2>4. at' = 1
    BY <1>2, <1>6
  <2> QED BY <1>2, <2>3, <2>4 DEF ExactOf
<1>12. Exact'
  BY <1>2, <1>9, <1>11 DEF IInv, Exact, OutstandingSum, BusyCount, ActiveSum
<1>13. Between'
  <2>1. taking' <= completions'["visible"] + completions'["background"]
    <3>1. completions["visible"] + completions["background"] = completions'["visible"] + completions'["background"] + 1
      BY <1>5 DEF Priority
    <3>2. completions'["visible"] \in Nat /\ completions'["background"] \in Nat
      BY <1>5 DEF Priority
    <3>3. taking' = taking - 1 /\ taking \in Nat
      BY <1>1, NumberTypes DEF IInv
    <3> QED BY <1>3, <3>1, <3>2, <3>3
  <2>2. at' = 1 /\ at' <= Len(pending')
    BY <1>2, <1>6, <1>7
  <2> QED BY <1>2, <2>1, <2>2 DEF IInv, Between, service, threads
<1>14. Bounded'
  BY <1>2 DEF IInv, Bounded
<1> QED BY <1>10, <1>12, <1>13, <1>14 DEF IInv

(* What Deliver takes off the counters is there.                           *)
LEMMA BatchCounted ==
  ASSUME IInv, taking = 0, at <= Len(pending)
  PROVE  /\ pending[at] \in Priority /\ at \in 1 .. Len(pending)
         /\ outstandingOf[pending[at]] > 0 /\ outstanding > 0 /\ completionsInFlight > 0
<1>1. pending \in Seq(Priority) /\ at \in 1 .. Len(pending) /\ Len(pending) \in Nat
  BY DEF IInv, TypeOK
<1>2. pending[at] \in Priority
  BY <1>1
<1>3. BatchIn(pending, at + 1, pending[at]) \in Nat
  <2>1. at + 1 \in Nat
    BY <1>1
  <2> QED BY <1>1, <2>1, BatchFinite
<1>4. BatchIn(pending, at, pending[at]) = BatchIn(pending, at + 1, pending[at]) + 1
  BY <1>1, <1>2, OneLessTaken
<1>5. BatchIn(pending, at, pending[at]) > 0
  BY <1>3, <1>4
<1>6. outstandingOf[pending[at]] > 0
  <2>1. ExactOf(pending[at])
    BY <1>2 DEF IInv, Exact
  <2> DEFINE q == pending[at]
  <2>2. /\ outstandingOf[q] = requests[q] + ActiveIn(active, q) + completions[q] + BatchIn(pending, at, q)
        /\ BatchIn(pending, at, q) > 0 /\ q \in Priority
    BY <1>2, <1>5, <2>1 DEF ExactOf
  <2> HIDE DEF q
  <2>3. outstandingOf[q] > 0
    <3>1. /\ requests[q] \in Nat /\ ActiveIn(active, q) \in Nat /\ completions[q] \in Nat
          /\ BatchIn(pending, at, q) \in Nat
      BY <2>2, NumberTypes DEF IInv
    <3> QED BY <2>2, <3>1
  <2> QED BY <2>3 DEF q
<1>7. outstanding > 0
  <2>1. outstandingOf["visible"] \in Nat /\ outstandingOf["background"] \in Nat /\ pending[at] \in {"visible", "background"}
    BY <1>2, NumberTypes DEF IInv, Priority
  <2> QED BY <1>6, <2>1 DEF IInv, Exact, OutstandingSum
<1>8. completionsInFlight > 0
  BY <1>1 DEF IInv, Exact, InFlight
<1> QED BY <1>1, <1>2, <1>6, <1>7, <1>8

LEMMA DeliverKeeps == IInv /\ Deliver => IInv'
<1> SUFFICES ASSUME IInv, Deliver PROVE IInv'
  OBVIOUS
<1>1. taking = 0 /\ at <= Len(pending)
  BY DEF Deliver, MutexFree
<1> DEFINE p == pending[at]
<1>2. p \in Priority /\ at \in 1 .. Len(pending) /\ outstandingOf[p] > 0 /\ outstanding > 0 /\ completionsInFlight > 0
  BY <1>1, BatchCounted
<1>3. /\ outstanding' = outstanding - 1 /\ outstandingOf' = [outstandingOf EXCEPT ![p] = @ - 1]
      /\ completionsInFlight' = completionsInFlight - 1
      /\ UNCHANGED <<service, queues, active, activeRequests, threads, taking>>
      /\ IF at = Len(pending) THEN pending' = <<>> /\ at' = 1 ELSE pending' = pending /\ at' = at + 1
  BY DEF Deliver
<1>0. p = pending[at]
  OBVIOUS
<1> HIDE DEF p
<1>4. \A q \in Priority : outstandingOf[q] = outstandingOf'[q] + (IF q = p THEN 1 ELSE 0) /\ outstandingOf'[q] \in Nat
  <2>1. outstandingOf \in [Priority -> Nat] /\ outstandingOf[p] > 0 /\ p \in Priority
    BY <1>2 DEF IInv, TypeOK
  <2>2. outstandingOf' = [outstandingOf EXCEPT ![p] = @ - 1]
    BY <1>3
  <2> QED BY <2>1, <2>2
<1>5. \A q \in Priority : BatchIn(pending, at, q) = BatchIn(pending, at + 1, q) + (IF q = p THEN 1 ELSE 0)
  BY <1>0, <1>2, OneLessTaken DEF IInv, TypeOK
<1>6. pending \in Seq(Priority) /\ Len(pending) \in Nat /\ at \in Nat
  BY DEF IInv, TypeOK
<1>7. /\ \A q \in Priority : BatchIn(pending', at', q) = BatchIn(pending, at + 1, q)
      /\ pending' \in Seq(Priority) /\ at' \in 1 .. Len(pending') + 1
      /\ Len(pending') + 1 - at' = Len(pending) - at
      /\ pending' # <<>> => at' <= Len(pending')
  <2>1. CASE at = Len(pending)
    <3>1. pending' = <<>> /\ at' = 1 /\ pending' \in Seq(Priority) /\ Len(pending') = 0
      BY <1>3, <2>1
    <3>2. \A q \in Priority : BatchIn(pending', at', q) = 0
      <4>1. at' \in Nat /\ at' > Len(pending')
        BY <3>1
      <4> QED BY <3>1, <4>1, NothingTaken
    <3>3. \A q \in Priority : BatchIn(pending, at + 1, q) = 0
      <4>1. at + 1 \in Nat /\ at + 1 > Len(pending)
        BY <1>6, <2>1
      <4> QED BY <1>6, <4>1, NothingTaken
    <3>4. Len(pending') + 1 - at' = Len(pending) - at
      BY <1>6, <2>1, <3>1
    <3> QED BY <3>1, <3>2, <3>3, <3>4
  <2>2. CASE at # Len(pending)
    <3>1. pending' = pending /\ at' = at + 1
      BY <1>3, <2>2
    <3> QED BY <1>2, <1>6, <2>2, <3>1
  <2> QED BY <2>1, <2>2
<1>8. TypeOK'
  <2>1. outstandingOf' \in [Priority -> Nat]
    <3>1. outstandingOf \in [Priority -> Nat] /\ outstandingOf' = [outstandingOf EXCEPT ![p] = @ - 1]
      BY <1>3 DEF IInv, TypeOK
    <3> QED BY <1>4, <3>1
  <2>2. outstanding' \in Nat /\ completionsInFlight' \in Nat
    <3>1. outstanding \in Nat /\ completionsInFlight \in Nat
      BY DEF IInv, TypeOK
    <3>2. outstanding > 0 /\ completionsInFlight > 0
      BY <1>2
    <3>3. outstanding' = outstanding - 1 /\ completionsInFlight' = completionsInFlight - 1
      BY <1>3
    <3> QED BY <3>1, <3>2, <3>3
  <2> QED BY <1>3, <1>7, <2>1, <2>2 DEF IInv, TypeOK, service, queues, threads
<1>9. \A q \in Priority : ExactOf(q)'
  <2> TAKE q \in Priority
  <2>1. outstandingOf[q] = requests[q] + ActiveIn(active, q) + completions[q] + BatchIn(pending, at, q)
    BY DEF IInv, Exact, ExactOf
  <2>2. BatchIn(pending, at + 1, q) = BatchIn(pending', at', q)
    BY <1>7
  <2>3. BatchIn(pending', at', q) \in Nat
    <3>1. at' \in Nat /\ Len(pending') \in Nat
      BY <1>7
    <3> QED BY <3>1, BatchFinite
  <2>4. outstandingOf'[q] = requests[q] + ActiveIn(active, q) + completions[q] + BatchIn(pending', at', q)
    BY <1>4, <1>5, <2>1, <2>2, <2>3, NumberTypes DEF IInv
  <2>5. UNCHANGED <<requests, active, completions>>
    BY <1>3 DEF queues
  <2> QED BY <2>4, <2>5 DEF ExactOf
<1>10. OutstandingSum'
  <2>1. outstandingOf["visible"] + outstandingOf["background"] = outstandingOf'["visible"] + outstandingOf'["background"] + 1
    BY <1>2, <1>4 DEF Priority
  <2>2. outstandingOf'["visible"] \in Nat /\ outstandingOf'["background"] \in Nat
    BY <1>4 DEF Priority
  <2> QED BY <1>3, <2>1, <2>2 DEF IInv, Exact, OutstandingSum
<1>11. InFlight'
  BY <1>1, <1>3, <1>6, <1>7 DEF IInv, Exact, InFlight
<1>12. Exact'
  BY <1>3, <1>9, <1>10, <1>11 DEF IInv, Exact, BusyCount, ActiveSum
<1>13. Bounded'
  <2>1. outstandingOf'["background"] <= outstandingOf["background"]
    BY <1>4, NumberTypes DEF IInv
  <2>2. outstandingOf'["background"] \in Nat
    BY <1>4, NumberTypes DEF IInv
  <2>3. outstanding' <= Capacity
    <3>1. outstanding <= Capacity /\ outstanding \in Nat /\ Capacity \in Nat
      BY NumberTypes, ReserveType DEF IInv, Bounded
    <3>2. outstanding' = outstanding - 1
      BY <1>3
    <3> QED BY <3>1, <3>2
  <2>4. outstandingOf'["background"] <= Capacity - VisibleReserve
    <3>1. outstandingOf["background"] <= Capacity - VisibleReserve
      BY DEF IInv, Bounded
    <3>2. /\ outstandingOf["background"] \in Nat /\ Capacity - VisibleReserve \in Int
      BY NumberTypes, ReserveType DEF IInv
    <3> QED BY <2>1, <2>2, <3>1, <3>2
  <2> QED BY <2>3, <2>4 DEF Bounded
<1>14. Between'
  <2>1. taking' = 0 /\ UNCHANGED <<completions, stopper, state, requests, alive>>
    BY <1>1, <1>3 DEF service, queues, threads
  <2>2. pending' # <<>> => at' <= Len(pending')
    BY <1>7
  <2> QED BY <1>1, <2>1, <2>2 DEF IInv, Between
<1> QED BY <1>8, <1>12, <1>13, <1>14 DEF IInv

-----------------------------------------------------------------------------
LEMMA StopBeginKeeps == IInv /\ StopBegin => IInv'
<1> SUFFICES ASSUME IInv, StopBegin PROVE IInv'
  OBVIOUS
<1>1. /\ taking = 0 /\ state' = "stopping" /\ stopper' = "waking"
      /\ outstanding' = outstanding - (requests["visible"] + requests["background"])
      /\ outstandingOf' = [p \in Priority |-> outstandingOf[p] - requests[p]]
      /\ requests' = [p \in Priority |-> 0]
      /\ UNCHANGED <<inlineMode, streak, completions, completionStreak, active,
                     activeRequests, completionsInFlight, threads, drain>>
  BY DEF StopBegin, MutexFree, Both
<1>2. \A q \in Priority : /\ requests'[q] = 0 /\ outstandingOf'[q] = outstandingOf[q] - requests[q]
                          /\ outstandingOf'[q] \in Nat
                          /\ outstandingOf'[q] = ActiveIn(active, q) + completions[q] + BatchIn(pending, at, q)
  <2> TAKE q \in Priority
  <2>1. outstandingOf[q] = requests[q] + ActiveIn(active, q) + completions[q] + BatchIn(pending, at, q)
    BY DEF IInv, Exact, ExactOf
  <2>2. requests'[q] = 0 /\ outstandingOf'[q] = outstandingOf[q] - requests[q]
    BY <1>1
  <2> QED BY <2>1, <2>2, NumberTypes DEF IInv
<1>3. /\ "visible" \in Priority /\ "background" \in Priority
      /\ requests["visible"] \in Nat /\ requests["background"] \in Nat
      /\ outstandingOf["visible"] \in Nat /\ outstandingOf["background"] \in Nat
      /\ outstandingOf'["visible"] \in Nat /\ outstandingOf'["background"] \in Nat
  BY <1>2, NumberTypes DEF IInv
<1>4. OutstandingSum' /\ outstanding' \in Nat
  <2>1. outstanding = outstandingOf["visible"] + outstandingOf["background"]
    BY DEF IInv, Exact, OutstandingSum
  <2>2. outstandingOf'["visible"] = outstandingOf["visible"] - requests["visible"]
        /\ outstandingOf'["background"] = outstandingOf["background"] - requests["background"]
    BY <1>2, <1>3
  <2>3. outstanding' = outstandingOf'["visible"] + outstandingOf'["background"]
    BY <1>1, <1>3, <2>1, <2>2
  <2> QED BY <1>3, <2>3 DEF OutstandingSum
<1>5. TypeOK'
  <2>1. outstandingOf' \in [Priority -> Nat] /\ requests' \in [Priority -> Nat]
    BY <1>1, <1>2
  <2> QED BY <1>1, <1>4, <2>1 DEF IInv, TypeOK, threads, drain
<1>6. \A q \in Priority : ExactOf(q)'
  <2> TAKE q \in Priority
  <2>1. outstandingOf'[q] = requests'[q] + ActiveIn(active, q) + completions[q] + BatchIn(pending, at, q)
    BY <1>2, NumberTypes DEF IInv
  <2> QED BY <1>1, <2>1 DEF ExactOf, drain
<1>7. Exact'
  BY <1>1, <1>4, <1>6 DEF IInv, Exact, BusyCount, ActiveSum, InFlight, drain
<1>8. Bounded'
  <2>1. outstanding' <= outstanding /\ outstandingOf'["background"] <= outstandingOf["background"]
    BY <1>1, <1>2, <1>3, NumberTypes DEF IInv
  <2> QED BY <1>3, <1>4, <2>1, ReserveType, NumberTypes DEF IInv, Bounded
<1>9. Between'
  BY <1>1, <1>2 DEF IInv, Between, threads, drain
<1> QED BY <1>5, <1>7, <1>8, <1>9 DEF IInv

LEMMA StopWakesKeeps == IInv /\ StopWakes => IInv'
<1> SUFFICES ASSUME IInv, StopWakes PROVE IInv'
  OBVIOUS
<1>1. /\ stopper = "waking" /\ stopper' = "joining" /\ waiting' = {}
      /\ UNCHANGED <<state, inlineMode, queues, active, counters, alive, notifying, drain>>
  BY DEF StopWakes
<1>2. TypeOK'
  BY <1>1 DEF IInv, TypeOK, queues, counters, drain
<1>3. Exact'
  BY <1>1 DEF IInv, Exact, ExactOf, OutstandingSum, BusyCount, ActiveSum, InFlight, queues, counters, drain
<1>4. Bounded' /\ Between'
  BY <1>1 DEF IInv, Bounded, Between, queues, counters, drain
<1> QED BY <1>2, <1>3, <1>4 DEF IInv

(* When shutdown has nothing to wait for, only completions are left.       *)
LEMMA OnlyCompletionsLeft ==
  ASSUME IInv, Quiet
  PROVE  /\ \A q \in Priority : outstandingOf[q] = completions[q]
         /\ outstanding = completions["visible"] + completions["background"]
<1>1. taking = 0 /\ stopper = "joining" /\ activeRequests = 0 /\ completionsInFlight = 0
  BY DEF Quiet, MutexFree
<1>2. \A q \in Priority : requests[q] = 0
  BY <1>1 DEF IInv, Between
<1>3. \A q \in Priority : ActiveIn(active, q) = 0
  <2>1. ActiveIn(active, "visible") \in Nat /\ ActiveIn(active, "background") \in Nat
    BY ActiveType
  <2>2. ActiveIn(active, "visible") + ActiveIn(active, "background") = 0
    BY <1>1 DEF IInv, Exact, ActiveSum
  <2> QED BY <2>1, <2>2 DEF Priority
<1>4. \A q \in Priority : BatchIn(pending, at, q) = 0
  <2>1. pending \in Seq(Priority) /\ at \in Nat /\ Len(pending) \in Nat
    BY DEF IInv, TypeOK
  <2>2. at > Len(pending)
    BY <1>1, <2>1 DEF IInv, Exact, InFlight
  <2> QED BY <2>1, <2>2, NothingTaken
<1>5. \A q \in Priority : outstandingOf[q] = completions[q]
  <2> TAKE q \in Priority
  <2>1. ExactOf(q)
    BY DEF IInv, Exact
  <2> QED BY <1>2, <1>3, <1>4, <2>1, NumberTypes DEF IInv, ExactOf
<1> QED BY <1>5 DEF IInv, Exact, OutstandingSum, Priority

LEMMA StopEndKeeps == IInv /\ StopEnd => IInv'
<1> SUFFICES ASSUME IInv, StopEnd PROVE IInv'
  OBVIOUS
<1>1. /\ taking = 0 /\ alive = {} /\ stopper = "joining"
      /\ state' = "stopped" /\ stopper' = "none"
      /\ outstanding' = outstanding - (completions["visible"] + completions["background"])
      /\ outstandingOf' = [p \in Priority |-> outstandingOf[p] - completions[p]]
      /\ completions' = [p \in Priority |-> 0]
      /\ UNCHANGED <<inlineMode, requests, streak, completionStreak, active,
                     activeRequests, completionsInFlight, threads, drain>>
  BY DEF StopEnd, Quiet, MutexFree, Both
<1>2. /\ \A q \in Priority : outstandingOf[q] = completions[q]
      /\ outstanding = completions["visible"] + completions["background"]
  BY OnlyCompletionsLeft DEF StopEnd
<1>3. outstanding' = 0 /\ \A q \in Priority : outstandingOf'[q] = 0 /\ completions'[q] = 0
  BY <1>1, <1>2, NumberTypes DEF IInv
<1>4. TypeOK'
  <2>1. outstandingOf' \in [Priority -> Nat] /\ completions' \in [Priority -> Nat] /\ outstanding' \in Nat
    BY <1>1, <1>3
  <2> QED BY <1>1, <2>1 DEF IInv, TypeOK, threads, drain
<1>5. \A q \in Priority : ExactOf(q)'
  <2> TAKE q \in Priority
  <2>1. outstandingOf[q] = requests[q] + ActiveIn(active, q) + completions[q] + BatchIn(pending, at, q)
    BY DEF IInv, Exact, ExactOf
  <2>2. outstandingOf[q] = completions[q]
    BY <1>2
  <2>3. outstandingOf'[q] = requests[q] + ActiveIn(active, q) + completions'[q] + BatchIn(pending, at, q)
    BY <1>3, <2>1, <2>2, NumberTypes DEF IInv
  <2> QED BY <1>1, <2>3 DEF ExactOf, drain
<1>6. OutstandingSum'
  BY <1>3 DEF OutstandingSum, Priority
<1>7. Exact'
  BY <1>1, <1>5, <1>6 DEF IInv, Exact, BusyCount, ActiveSum, InFlight, drain
<1>8. Bounded'
  BY <1>3, ReserveType DEF Bounded, Priority
<1>9. Between'
  <2>1. requests' = requests /\ state = "stopping"
    BY <1>1 DEF IInv, Between
  <2> QED BY <1>1, <1>3, <2>1 DEF IInv, Between, threads, drain, Priority
<1> QED BY <1>4, <1>7, <1>8, <1>9 DEF IInv

LEMMA NextKeeps == IInv /\ [Next]_vars => IInv'
<1> SUFFICES ASSUME IInv, [Next]_vars PROVE IInv'
  OBVIOUS
<1>1. CASE UNCHANGED vars
  <2>1. TypeOK'
    BY <1>1 DEF IInv, TypeOK, vars, service, queues, counters, threads, drain
  <2> QED BY <1>1, <2>1, UncountedKeeps DEF vars, service, queues, counters, threads, drain
<1>2. ASSUME NEW limit \in 1 .. DrainLimit, DrainBegin(limit) PROVE IInv'
  <2>1. limit \in Nat \ {0}
    BY ComputeAssumption
  <2> QED BY <1>2, <2>1, DrainBeginKeeps
<1>3. CASE Next
  BY <1>2, <1>3, StartKeeps, SubmitKeeps, NotifyOneKeeps, WorkerRestsKeeps, WorkerTakesKeeps, CompleteKeeps,
     DrainTakeKeeps, DeliverKeeps, StopBeginKeeps, StopWakesKeeps, StopEndKeeps DEF Next, WorkerStep, StopStep
<1> QED BY <1>1, <1>3

-----------------------------------------------------------------------------
LEMMA CountsAreThese ==
  /\ \A p \in Priority : ActiveOf(p) = ActiveIn(active, p) /\ BatchOf(p) = BatchIn(pending, at, p)
  /\ Busy = BusyIn(active)
  BY DEF ActiveOf, ActiveIn, BatchOf, BatchIn, Busy, BusyIn

(* Every variable keeps its type; no counter becomes negative.             *)
THEOREM ComputeTypeCorrect == Spec => []TypeOK
<1>1. IInv => TypeOK
  BY DEF IInv
<1> QED BY <1>1, InitSound, NextKeeps, PTL DEF Spec

(* The counters of the service count what its queues, its threads and the  *)
(* batch of the drain hold, whatever the threads do between two sections.  *)
THEOREM ComputeCountersExact == Spec => []CountersExact
<1>1. IInv => CountersExact
  <2> SUFFICES ASSUME IInv PROVE CountersExact
    OBVIOUS
  <2>1. \A p \in Priority : outstandingOf[p] = HeldOf(p)
    BY CountsAreThese DEF IInv, Exact, ExactOf, HeldOf
  <2>2. outstanding = Both(outstandingOf)
    BY DEF IInv, Exact, OutstandingSum, Both
  <2>3. activeRequests = Cardinality(Busy)
    BY CountsAreThese DEF IInv, Exact, BusyCount
  <2>4. completionsInFlight = IF taking > 0 THEN 0 ELSE Len(pending) + 1 - at
    BY DEF IInv, Exact, InFlight
  <2> QED BY <2>1, <2>2, <2>3, <2>4 DEF CountersExact
<1> QED BY <1>1, InitSound, NextKeeps, PTL DEF Spec

(* No assert of the service can fail.                                      *)
THEOREM ComputeAssertsHold == Spec => []AssertsHold
<1>1. IInv => AssertsHold
  <2> SUFFICES ASSUME IInv PROVE AssertsHold
    OBVIOUS
  <2>1. Busy # {} => Both(completions) < Capacity /\ activeRequests > 0
    <3> SUFFICES ASSUME Busy # {} PROVE Both(completions) < Capacity /\ activeRequests > 0
      OBVIOUS
    <3>1. activeRequests > 0
      <4>1. IsFiniteSet(Busy)
        BY ThreadsFinite, FS_Subset DEF Busy
      <4>2. Cardinality(Busy) # 0 /\ Cardinality(Busy) \in Nat
        BY <4>1, FS_EmptySet, FS_CardinalityType
      <4> QED BY <4>2, CountsAreThese DEF IInv, Exact, BusyCount
    <3>2. ActiveIn(active, "visible") + ActiveIn(active, "background") > 0
      BY <3>1 DEF IInv, Exact, ActiveSum
    <3>3. "visible" \in Priority /\ "background" \in Priority
      BY DEF Priority
    <3>4. outstandingOf["visible"] >= ActiveIn(active, "visible") + completions["visible"]
      <4>1. ExactOf("visible")
        BY <3>3 DEF IInv, Exact
      <4> QED BY <3>3, <4>1, NumberTypes DEF IInv, ExactOf
    <3>5. outstandingOf["background"] >= ActiveIn(active, "background") + completions["background"]
      <4>1. ExactOf("background")
        BY <3>3 DEF IInv, Exact
      <4> QED BY <3>3, <4>1, NumberTypes DEF IInv, ExactOf
    <3>6. outstandingOf["visible"] + outstandingOf["background"] <= Capacity
      BY DEF IInv, Exact, OutstandingSum, Bounded
    <3>7. completions["visible"] + completions["background"] < Capacity
      BY <3>2, <3>3, <3>4, <3>5, <3>6, NumberTypes, ReserveType DEF IInv
    <3> QED BY <3>1, <3>7 DEF Both
  <2>2. taking <= Both(completions)
    BY DEF IInv, Between, Both
  <2>3. MutexFree /\ at <= Len(pending) =>
          outstanding > 0 /\ outstandingOf[pending[at]] > 0 /\ completionsInFlight > 0
    BY BatchCounted DEF MutexFree
  <2>4. \A p \in Priority : requests[p] <= outstandingOf[p]
    <3> TAKE p \in Priority
    <3>1. ExactOf(p)
      BY DEF IInv, Exact
    <3> QED BY <3>1, NumberTypes DEF IInv, ExactOf
  <2>5. Quiet => outstanding = Both(completions) /\ \A p \in Priority : outstandingOf[p] = completions[p]
    BY OnlyCompletionsLeft DEF Both
  <2> QED BY <2>1, <2>2, <2>3, <2>4, <2>5 DEF AssertsHold
<1> QED BY <1>1, InitSound, NextKeeps, PTL DEF Spec

(* Background requests never keep out a visible one within the reserve.    *)
THEOREM VisibleNeverKeptOut == Spec => []VisibleAdmitted
<1>1. IInv => VisibleAdmitted
  <2> SUFFICES ASSUME IInv, outstandingOf["visible"] < VisibleReserve PROVE HasRoom("visible")
    BY DEF VisibleAdmitted
  <2>1. outstanding = outstandingOf["visible"] + outstandingOf["background"]
    BY DEF IInv, Exact, OutstandingSum
  <2>2. outstandingOf["background"] <= Capacity - VisibleReserve
    BY DEF IInv, Bounded
  <2>3. outstanding < Capacity
    BY <2>1, <2>2, ReserveType, NumberTypes DEF IInv
  <2> QED BY <2>3 DEF HasRoom
<1> QED BY <1>1, InitSound, NextKeeps, PTL DEF Spec


-----------------------------------------------------------------------------
(* The service implements WorkLedger.  What it holds is what it counts as  *)
(* outstanding, so a step of the ledger is a change of the counters.       *)
ChosenOf(s) == CHOOSE x \in s : TRUE

LoadStep(f, g) == [s \in SUBSET Priority |->
    IF s = {} THEN 0 ELSE f[ChosenOf(s)] + g[s \ {ChosenOf(s)}]]

(* The load of the ledger is a fold; over two priorities it is their sum.  *)
LEMMA LoadOfBoth ==
  ASSUME NEW f \in [Priority -> Nat]
  PROVE  Ledger!Load(f) = f["visible"] + f["background"]
<1> DEFINE v == "visible"
           b == "background"
           load == CHOOSE g : g = LoadStep(f, g)
           g == [s \in SUBSET Priority |-> (IF v \in s THEN f[v] ELSE 0) + (IF b \in s THEN f[b] ELSE 0)]
<1>1. Ledger!Load(f) = load[Priority]
  BY DEF Ledger!Load, Ledger!MapThenSumSet, Ledger!MapThenFoldSet, LoadStep, ChosenOf
<1>2. Priority = {v, b} /\ v # b /\ f[v] \in Nat /\ f[b] \in Nat
  BY DEF Priority
<1>3. \A s \in SUBSET Priority : s # {} => ChosenOf(s) \in s
  BY DEF ChosenOf
<1>4. g = LoadStep(f, g)
  <2> SUFFICES ASSUME NEW s \in SUBSET Priority
               PROVE  g[s] = IF s = {} THEN 0 ELSE f[ChosenOf(s)] + g[s \ {ChosenOf(s)}]
    <3>1. g = [s \in SUBSET Priority |-> g[s]]
      OBVIOUS
    <3> HIDE DEF g
    <3> QED BY <3>1 DEF LoadStep
  <2>1. CASE s = {}
    BY <2>1
  <2>2. CASE s # {} /\ ChosenOf(s) = v
    BY <1>2, <1>3, <2>2
  <2>3. CASE s # {} /\ ChosenOf(s) = b
    BY <1>2, <1>3, <2>3
  <2> QED BY <1>2, <1>3, <2>1, <2>2, <2>3
<1>5. load = LoadStep(f, load)
  BY <1>4
<1> HIDE DEF load, g
<1>6. \A s \in SUBSET Priority : s # {} => load[s] = f[ChosenOf(s)] + load[s \ {ChosenOf(s)}]
  BY <1>5 DEF LoadStep
<1>7. load[{}] = 0
  BY <1>5 DEF LoadStep
<1>8. \A p \in Priority : load[{p}] = f[p]
  <2> TAKE p \in Priority
  <2>1. ChosenOf({p}) = p /\ {p} \ {p} = {} /\ {p} \in SUBSET Priority /\ f[p] \in Nat
    BY DEF ChosenOf
  <2>2. load[{p}] = f[ChosenOf({p})] + load[{p} \ {ChosenOf({p})}]
    BY <1>6, <2>1
  <2> QED BY <1>7, <2>1, <2>2
<1>9. load[Priority] = f[v] + f[b]
  <2>1. load[Priority] = f[ChosenOf(Priority)] + load[Priority \ {ChosenOf(Priority)}]
    BY <1>2, <1>6
  <2>2. Priority \ {v} = {b} /\ Priority \ {b} = {v}
    BY <1>2
  <2>3. ChosenOf(Priority) = v \/ ChosenOf(Priority) = b
    BY <1>2, <1>3
  <2>4. load[{v}] = f[v] /\ load[{b}] = f[b]
    BY <1>2, <1>8
  <2>5. CASE ChosenOf(Priority) = v
    <3>1. load[Priority] = f[v] + load[{b}]
      BY <2>1, <2>2, <2>5
    <3> QED BY <2>4, <3>1
  <2>6. CASE ChosenOf(Priority) = b
    <3>1. load[Priority] = f[b] + load[{v}]
      BY <2>1, <2>2, <2>6
    <3> QED BY <1>2, <2>4, <3>1
  <2> QED BY <2>3, <2>5, <2>6
<1> QED BY <1>1, <1>9

Held == [p \in Priority |-> HeldOf(p)]

LEMMA HeldCounted == IInv => Held = outstandingOf
<1> SUFFICES ASSUME IInv PROVE Held = outstandingOf
  OBVIOUS
<1>1. \A p \in Priority : HeldOf(p) = outstandingOf[p]
  BY CountsAreThese DEF IInv, Exact, ExactOf, HeldOf
<1>2. outstandingOf = [p \in Priority |-> outstandingOf[p]]
  BY DEF IInv, TypeOK
<1> QED BY <1>1, <1>2 DEF Held

LEMMA HeldCountedThen == (IInv => Held = outstandingOf)'
<1>1. IInv => Held = outstandingOf
  BY HeldCounted
<1> QED BY <1>1, PTL

LEMMA InitIsLedger == Init => Ledger!Init
<1> SUFFICES ASSUME Init PROVE Ledger!Init
  OBVIOUS
<1>1. Held = [p \in Priority |-> 0]
  BY InitSound, HeldCounted DEF Init
<1>2. [p \in Priority |-> HeldOf(p)] = [c \in Priority |-> 0]
  BY <1>1 DEF Held
<1>3. (state = "running") = FALSE
  BY DEF Init
<1> QED BY <1>2, <1>3 DEF Ledger!Init

(* The steps of the ledger, of the counters.                               *)
Opens ==
    /\ state # "running" /\ state' = "running"
    /\ \A p \in Priority : outstandingOf[p] = 0
    /\ outstandingOf' = outstandingOf

Accepts(p) ==
    /\ state = "running" /\ state' = state
    /\ outstandingOf["visible"] + outstandingOf["background"] < Capacity
    /\ outstandingOf' = [outstandingOf EXCEPT ![p] = @ + 1]

Settles(p) ==
    /\ state' = state
    /\ outstandingOf[p] > 0
    /\ outstandingOf' = [outstandingOf EXCEPT ![p] = @ - 1]

Drops ==
    /\ state' # "running"
    /\ \A p \in Priority : outstandingOf'[p] <= outstandingOf[p]

LEMMA LedgerStep ==
  ASSUME IInv, IInv',
         \/ Opens \/ (\E p \in Priority : Accepts(p) \/ Settles(p)) \/ Drops
         \/ UNCHANGED <<state, outstandingOf>>
  PROVE  [Ledger!Next]_(Ledger!ledger)
<1>1. /\ [p \in Priority |-> HeldOf(p)] = outstandingOf
      /\ [p \in Priority |-> HeldOf(p)]' = outstandingOf'
  BY HeldCounted, HeldCountedThen DEF Held
<1>2. outstandingOf \in [Priority -> Nat] /\ outstandingOf' \in [Priority -> Nat]
  BY DEF IInv, TypeOK
<1>3. CASE Opens
  <2>1. Ledger!Open
    BY <1>1, <1>3 DEF Opens, Ledger!Open
  <2> QED BY <2>1 DEF Ledger!Next
<1>4. ASSUME NEW p \in Priority, Accepts(p) PROVE Ledger!Next
  <2>1. Ledger!Load([q \in Priority |-> HeldOf(q)]) = outstandingOf["visible"] + outstandingOf["background"]
    BY <1>1, <1>2, LoadOfBoth
  <2>2. Ledger!Accept(p)
    BY <1>1, <1>4, <2>1 DEF Accepts, Ledger!Accept
  <2> QED BY <2>2 DEF Ledger!Next
<1>5. ASSUME NEW p \in Priority, Settles(p) PROVE Ledger!Next
  <2>1. Ledger!Settle(p)
    BY <1>1, <1>5 DEF Settles, Ledger!Settle
  <2> QED BY <2>1 DEF Ledger!Next
<1>6. CASE Drops
  <2>1. Ledger!Drop
    BY <1>1, <1>2, <1>6 DEF Drops, Ledger!Drop
  <2> QED BY <2>1 DEF Ledger!Next
<1>7. CASE UNCHANGED <<state, outstandingOf>>
  BY <1>1, <1>7 DEF Ledger!ledger
<1> QED BY <1>3, <1>4, <1>5, <1>6, <1>7

(* A stopped service holds nothing.  That is not part of IInv, but follows *)
(* from it step by step: only the last section of shutdown stops.          *)
EmptyWhenStopped == state = "stopped" => \A p \in Priority : outstandingOf[p] = 0

LEMMA DeliversOne ==
  ASSUME IInv, IInv', Deliver
  PROVE  \E p \in Priority : Settles(p)
<1>1. pending[at] \in Priority
  BY DEF Deliver, IInv, TypeOK
<1>2. outstandingOf' = [outstandingOf EXCEPT ![pending[at]] = @ - 1] /\ state' = state
  BY DEF Deliver, service
<1>3. outstandingOf[pending[at]] \in Nat /\ outstandingOf'[pending[at]] \in Nat
  BY <1>1 DEF IInv, TypeOK
<1>4. outstandingOf'[pending[at]] = outstandingOf[pending[at]] - 1
  BY <1>1, <1>2 DEF IInv, TypeOK
<1>5. outstandingOf[pending[at]] > 0
  BY <1>3, <1>4
<1> QED BY <1>1, <1>2, <1>5 DEF Settles

LEMMA AcceptsOne == ASSUME IInv, NEW p \in Priority, Submit(p) PROVE Accepts(p)
<1>1. outstanding < Capacity /\ state = "running" /\ state' = state
  BY DEF Submit, HasRoom, Accepting, service
<1>2. outstanding = outstandingOf["visible"] + outstandingOf["background"]
  BY DEF IInv, Exact, OutstandingSum
<1> QED BY <1>1, <1>2 DEF Accepts, Submit

(* Which step of the service is which step of the ledger.                  *)
LEMMA StepIsOfLedger ==
  ASSUME IInv, IInv', EmptyWhenStopped, [Next]_vars
  PROVE  /\ \/ Opens \/ (\E p \in Priority : Accepts(p) \/ Settles(p)) \/ Drops
            \/ UNCHANGED <<state, outstandingOf>>
         /\ EmptyWhenStopped'
<1>1. CASE \E few \in BOOLEAN : Start(few)
  <2>1. Opens /\ state' = "running"
    BY <1>1 DEF Start, Opens, counters, EmptyWhenStopped
  <2> QED BY <2>1 DEF EmptyWhenStopped
<1>2. ASSUME NEW p \in Priority, Submit(p) PROVE Accepts(p) /\ EmptyWhenStopped'
  BY <1>2, AcceptsOne DEF Accepts, EmptyWhenStopped
<1>3. CASE Deliver
  <2>1. PICK p \in Priority : Settles(p)
    BY <1>3, DeliversOne
  <2>2. EmptyWhenStopped'
    BY <2>1 DEF Settles, EmptyWhenStopped
  <2> QED BY <2>1, <2>2
<1>4. CASE StopBegin
  <2>1. state' = "stopping" /\ \A p \in Priority : outstandingOf'[p] = outstandingOf[p] - requests[p]
    BY <1>4 DEF StopBegin
  <2>2. Drops
    BY <2>1, NumberTypes DEF Drops, IInv
  <2> QED BY <2>1, <2>2 DEF EmptyWhenStopped
<1>5. CASE StopEnd
  <2>1. state' = "stopped" /\ \A p \in Priority : outstandingOf'[p] = outstandingOf[p] - completions[p]
    BY <1>5 DEF StopEnd
  <2>2. \A p \in Priority : outstandingOf[p] = completions[p]
    BY <1>5, OnlyCompletionsLeft DEF StopEnd
  <2>3. \A p \in Priority : outstandingOf'[p] = 0
    BY <2>1, <2>2, NumberTypes DEF IInv
  <2>4. Drops
    BY <2>1, <2>3, NumberTypes DEF Drops, IInv
  <2> QED BY <2>3, <2>4 DEF EmptyWhenStopped
<1>6. CASE UNCHANGED <<state, outstandingOf>>
  BY <1>6 DEF EmptyWhenStopped
<1>7. \/ \E few \in BOOLEAN : Start(few)
      \/ \E p \in Priority : Submit(p)
      \/ Deliver \/ StopBegin \/ StopEnd
      \/ UNCHANGED <<state, outstandingOf>>
  BY DEF Next, WorkerStep, WorkerExits, WorkerSleeps, WorkerTakes, NotifyOne, Complete, DrainBegin, DrainTake,
         StopStep, StopWakes, vars, service, counters
<1> QED BY <1>1, <1>2, <1>3, <1>4, <1>5, <1>6, <1>7

(* With any number of workers and any capacity the service is a ledger of  *)
(* its requests: submit accepts within the capacity, the drain settles one *)
(* by one, shutdown alone drops what is left, and start finds nothing.     *)
THEOREM ComputeIsLedger == Spec => IsLedger
<1>1. Init => EmptyWhenStopped
  BY DEF Init, EmptyWhenStopped
<1>2. IInv /\ IInv' /\ EmptyWhenStopped /\ [Next]_vars => EmptyWhenStopped' /\ [Ledger!Next]_(Ledger!ledger)
  BY StepIsOfLedger, LedgerStep
<1> QED BY <1>1, <1>2, InitSound, NextKeeps, InitIsLedger, PTL DEF Spec, IsLedger, Ledger!Spec
-----------------------------------------------------------------------------
(* Who is awake.  What NoStarvation and ShutdownEnds need beside fairness: *)
(* that no wake-up is lost, that a waiting priority is passed over a few   *)
(* times only, and that shutdown has somebody to wait for until it is done.*)
Awakened ==
    /\ \A w \in waiting : active[w] = Idle
    /\ state = "running" => alive = IF inlineMode THEN {} ELSE Worker
    /\ state = "running" /\ inlineMode => Both(requests) = 0
    /\ stopper = "joining" => waiting = {}
    /\ state = "running" /\ Both(requests) > 0 /\ waiting = alive => notifying \/ alive = {}

\* Nothing is left over for the next start.
Emptied == state = "stopped" => activeRequests = 0 /\ \A p \in Priority : completions[p] = 0

WInv == IInv /\ Awakened /\ Emptied

LEMMA AwakenedInit == Init => Awakened
BY DEF Init, Awakened, Both, Priority

\* Steps of a thread that neither sleeps nor wakes, and leave the service up.
LEMMA StillAwakened ==
  ASSUME IInv, Awakened, UNCHANGED <<service, requests, threads>>,
         active' \in [Thread -> Priority \cup {Idle}],
         \A w \in waiting : active'[w] = active[w] \/ active'[w] = Idle
  PROVE  Awakened'
<1>1. waiting' = waiting /\ alive' = alive /\ notifying' = notifying /\ state' = state
      /\ inlineMode' = inlineMode /\ stopper' = stopper /\ requests' = requests
  BY DEF service, threads
<1> QED BY <1>1 DEF Awakened, Both

LEMMA SubmitAwakens == ASSUME IInv, Awakened, NEW p \in Priority, Submit(p) PROVE Awakened'
<1>1. /\ waiting' = waiting /\ alive' = alive /\ state' = state
      /\ inlineMode' = inlineMode /\ stopper' = stopper /\ state = "running"
  BY DEF Submit, Accepting, service
<1>2. waiting \subseteq Worker /\ Caller \notin Worker /\ active \in [Thread -> Priority \cup {Idle}]
  BY ComputeAssumption DEF IInv, TypeOK
<1>3. CASE inlineMode /\ active' = [active EXCEPT ![Caller] = p] /\ requests' = requests
  <2>1. \A w \in waiting : active'[w] = active[w]
    BY <1>2, <1>3 DEF Thread
  <2> QED BY <1>1, <1>3, <2>1 DEF Awakened, Both
<1>4. CASE ~inlineMode /\ notifying' = TRUE /\ active' = active
  BY <1>1, <1>4 DEF Awakened
<1> QED BY <1>3, <1>4 DEF Submit

LEMMA WorkerAwakens == ASSUME IInv, Awakened, NEW w \in Worker, WorkerStep(w) PROVE Awakened'
<1>1. w \in alive \ waiting /\ active[w] = Idle /\ waiting \subseteq alive /\ alive \subseteq Worker
      /\ active \in [Thread -> Priority \cup {Idle}] /\ requests \in [Priority -> Nat]
  BY DEF WorkerStep, WorkerExits, WorkerSleeps, WorkerTakes, Awake, IInv, TypeOK
<1>2. CASE WorkerExits(w)
  <2>1. /\ state # "running" /\ alive' = alive \ {w} /\ waiting' = waiting /\ active' = active
        /\ state' = state /\ stopper' = stopper
    BY <1>2 DEF WorkerExits, service
  <2> QED BY <2>1 DEF Awakened
<1>3. CASE WorkerSleeps(w)
  <2>1. /\ state = "running" /\ Both(requests) = 0 /\ waiting' = waiting \cup {w} /\ active' = active
        /\ requests' = requests /\ alive' = alive
        /\ state' = state /\ stopper' = stopper /\ inlineMode' = inlineMode
    BY <1>3 DEF WorkerSleeps, service, queues
  <2>2. stopper # "joining"
    BY <2>1 DEF IInv, Between
  <2> QED BY <1>1, <2>1, <2>2 DEF Awakened, Both
<1>4. ASSUME NEW p \in Priority, WorkerTakes(w, p) PROVE Awakened'
  <2>1. /\ waiting' = waiting /\ alive' = alive /\ notifying' = notifying
        /\ active' = [active EXCEPT ![w] = p] /\ Both(requests) > 0
        /\ state' = state /\ stopper' = stopper /\ inlineMode' = inlineMode /\ state = "running"
    BY <1>4 DEF WorkerTakes, service, threads
  <2>2. \A v \in waiting : active'[v] = active[v]
    BY <1>1, <2>1 DEF Thread
  <2>3. ~inlineMode /\ waiting # alive
    BY <1>1, <2>1 DEF Awakened
  <2> QED BY <2>1, <2>2, <2>3 DEF Awakened
<1> QED BY <1>2, <1>3, <1>4 DEF WorkerStep

LEMMA ServiceAwakens ==
  ASSUME IInv, Awakened, NotifyOne \/ StopBegin \/ StopStep \/ \E few \in BOOLEAN : Start(few)
  PROVE  Awakened'
<1>1. /\ waiting \subseteq alive /\ requests \in [Priority -> Nat]
      /\ (stopper # "none" <=> state = "stopping")
      /\ state # "running" => \A p \in Priority : requests[p] = 0
      /\ state = "stopped" => alive = {}
  BY DEF IInv, TypeOK, Between
<1>2. CASE NotifyOne
  <2>1. /\ alive' = alive /\ active' = active /\ requests' = requests
        /\ state' = state /\ stopper' = stopper /\ inlineMode' = inlineMode
        /\ waiting' \subseteq waiting /\ (waiting' = waiting => waiting = {})
    BY <1>2 DEF NotifyOne, service, queues
  <2> QED BY <1>1, <2>1 DEF Awakened, Both
<1>3. CASE StopBegin
  <2>1. waiting' = waiting /\ active' = active /\ state' = "stopping" /\ stopper' = "waking"
    BY <1>3 DEF StopBegin, threads
  <2> QED BY <2>1 DEF Awakened
<1>4. CASE StopWakes
  <2>1. /\ waiting' = {} /\ active' = active /\ state' = state /\ state = "stopping"
    BY <1>1, <1>4 DEF StopWakes
  <2> QED BY <2>1 DEF Awakened
<1>5. CASE StopEnd
  <2>1. waiting' = waiting /\ active' = active /\ state' = "stopped" /\ stopper' = "none"
    BY <1>5 DEF StopEnd, threads
  <2> QED BY <2>1 DEF Awakened
<1>6. ASSUME NEW few \in BOOLEAN, Start(few) PROVE Awakened'
  <2>1. /\ state = "stopped" /\ waiting' = waiting /\ active' = active /\ requests' = requests
        /\ stopper' = stopper /\ inlineMode' = few /\ alive' = IF few THEN {} ELSE Worker
    BY <1>6 DEF Start
  <2>2. Both(requests') = 0 /\ waiting = {} /\ stopper # "joining"
    BY <1>1, <2>1 DEF Both, Priority
  <2> QED BY <2>1, <2>2 DEF Awakened
<1> QED BY <1>2, <1>3, <1>4, <1>5, <1>6 DEF StopStep

LEMMA SomebodyActive ==
  ASSUME IInv, NEW h \in Thread, active[h] # Idle
  PROVE  activeRequests > 0
<1>1. IsFiniteSet(BusyIn(active)) /\ h \in BusyIn(active)
  BY ThreadsFinite, FS_Subset DEF BusyIn
<1>2. Cardinality(BusyIn(active)) # 0 /\ Cardinality(BusyIn(active)) \in Nat
  BY <1>1, FS_EmptySet, FS_CardinalityType
<1> QED BY <1>2 DEF IInv, Exact, BusyCount

LEMMA EmptiedStep == ASSUME IInv, Emptied, [Next]_vars PROVE Emptied'
<1>1. CASE StopEnd
  <2>1. activeRequests' = 0 /\ \A p \in Priority : completions'[p] = 0
    BY <1>1 DEF StopEnd, Quiet
  <2> QED BY <2>1 DEF Emptied
<1>2. ASSUME NEW h \in Thread, Complete(h) PROVE Emptied'
  <2>1. state' = state /\ activeRequests > 0
    BY <1>2, SomebodyActive DEF Complete, service
  <2> QED BY <2>1 DEF Emptied
<1>3. ASSUME NEW p \in Priority, DrainTake(p) PROVE Emptied'
  <2>1. state' = state /\ taking > 0 /\ taking <= completions["visible"] + completions["background"]
    BY <1>3 DEF DrainTake, service, IInv, Between
  <2>2. state # "stopped"
    BY <2>1, NumberTypes DEF Emptied, Priority, IInv
  <2> QED BY <2>1, <2>2 DEF Emptied
<1>4. ASSUME UNCHANGED <<state, activeRequests, completions>> PROVE Emptied'
  BY <1>4 DEF Emptied
<1>5. ASSUME state' # "stopped" PROVE Emptied'
  BY <1>5 DEF Emptied
<1>6. CASE \/ NotifyOne \/ StopWakes \/ Deliver \/ UNCHANGED vars
           \/ \E w \in Worker : WorkerExits(w) \/ WorkerSleeps(w)
           \/ \E limit \in 1 .. DrainLimit : DrainBegin(limit)
  BY <1>4, <1>6 DEF NotifyOne, StopWakes, Deliver, WorkerExits, WorkerSleeps, DrainBegin, vars, service,
                    queues, counters
<1>7. CASE \/ StopBegin \/ \E few \in BOOLEAN : Start(few)
           \/ \E p \in Priority : Submit(p)
           \/ \E w \in Worker, p \in Priority : WorkerTakes(w, p)
  BY <1>5, <1>7 DEF StopBegin, Start, Submit, Accepting, WorkerTakes, service
<1> QED BY <1>1, <1>2, <1>3, <1>6, <1>7 DEF Next, WorkerStep, StopStep

LEMMA AwakenedStep == ASSUME IInv, Awakened, [Next]_vars PROVE Awakened'
<1>0. active \in [Thread -> Priority \cup {Idle}]
  BY DEF IInv, TypeOK
<1>1. CASE UNCHANGED vars
  BY <1>0, <1>1, StillAwakened DEF vars, service, queues, threads
<1>2. ASSUME NEW p \in Priority, Submit(p) PROVE Awakened'
  BY <1>2, SubmitAwakens
<1>3. ASSUME NEW w \in Worker, WorkerStep(w) PROVE Awakened'
  BY <1>3, WorkerAwakens
<1>4. ASSUME NEW h \in Thread, Complete(h) PROVE Awakened'
  <2>1. active' = [active EXCEPT ![h] = Idle] /\ UNCHANGED <<service, requests, threads>>
    BY <1>4 DEF Complete
  <2>2. waiting \subseteq Thread
    BY DEF IInv, TypeOK, Thread
  <2> QED BY <1>0, <2>1, <2>2, StillAwakened
<1>5. ASSUME (\E limit \in 1 .. DrainLimit : DrainBegin(limit)) \/ (\E p \in Priority : DrainTake(p)) \/ Deliver
      PROVE  Awakened'
  <2>1. UNCHANGED <<service, requests, active, threads>>
    BY <1>5 DEF DrainBegin, DrainTake, Deliver, queues
  <2> QED BY <1>0, <2>1, StillAwakened
<1>6. CASE NotifyOne \/ StopBegin \/ StopStep \/ \E few \in BOOLEAN : Start(few)
  BY <1>6, ServiceAwakens
<1> QED BY <1>1, <1>2, <1>3, <1>4, <1>5, <1>6 DEF Next

LEMMA WInvInit == Init => WInv
BY InitSound, AwakenedInit DEF WInv, Emptied, Init

LEMMA WInvStep == WInv /\ [Next]_vars => WInv'
BY NextKeeps, AwakenedStep, EmptiedStep DEF WInv

(* No wake-up is lost: while a request is queued, submit has yet to notify *)
(* or some worker is awake, though notify_one comes after the unlock and a *)
(* worker that finds the queue empty goes to sleep in between.             *)
THEOREM NoRequestOversleeps ==
  ASSUME Worker # {}
  PROVE  Spec => [](state = "running" /\ Both(requests) > 0 => notifying \/ waiting # Worker)
<1>1. WInv => (state = "running" /\ Both(requests) > 0 => notifying \/ waiting # Worker)
  <2> SUFFICES ASSUME WInv, state = "running", Both(requests) > 0 PROVE notifying \/ waiting # Worker
    OBVIOUS
  <2>1. ~inlineMode
    BY DEF WInv, Awakened
  <2>2. alive = Worker
    BY <2>1 DEF WInv, Awakened
  <2> QED BY <2>2 DEF WInv, Awakened
<1> QED BY <1>1, WInvInit, WInvStep, PTL DEF Spec

-----------------------------------------------------------------------------
(* How often a priority that waits can still be passed over: a background  *)
(* entry for as long as the run of visible ones is short of three, and a   *)
(* visible one only when that run is complete.                             *)
Patience(p, run) ==
    CASE p = "background" -> 3 - run
      [] OTHER -> IF run = 3 THEN 1 ELSE 0

Other(p) == IF p = "visible" THEN "background" ELSE "visible"

Takes(p) == \E w \in Worker : WorkerTakes(w, p)

(* An entry of p that waits in a queue: the step takes one of p, or takes  *)
(* one of the other priority and p has less patience left, or leaves the   *)
(* streak alone.                                                           *)
RequestsInTurn(p) ==
    requests[p] > 0 =>
        \/ Takes(p)
        \/ Takes(Other(p)) /\ Patience(p, streak') < Patience(p, streak)
        \/ streak' = streak

CompletionsInTurn(p) ==
    completions[p] > 0 =>
        \/ DrainTake(p)
        \/ DrainTake(Other(p)) /\ Patience(p, completionStreak') < Patience(p, completionStreak)
        \/ completionStreak' = completionStreak

LEMMA PassedOver ==
  ASSUME NEW size \in [Priority -> Nat], NEW run \in 0 .. 3, NEW p \in Priority, size[p] > 0,
         Selected(size, run) # p
  PROVE  /\ Selected(size, run) = Other(p)
         /\ Patience(p, StreakAfter(size, run)) < Patience(p, run)
<1>1. CASE p = "background"
  <2>1. Selected(size, run) = "visible" /\ run < 3
    BY <1>1 DEF Selected, Priority
  <2>2. StreakAfter(size, run) = run + 1
    BY <2>1 DEF StreakAfter
  <2> QED BY <1>1, <2>1, <2>2 DEF Patience, Other
<1>2. CASE p = "visible"
  <2>1. Selected(size, run) = "background" /\ run = 3
    BY <1>2 DEF Selected, Priority
  <2>2. StreakAfter(size, run) = 0
    BY <2>1 DEF StreakAfter
  <2> QED BY <1>2, <2>1, <2>2 DEF Patience, Other
<1> QED BY <1>1, <1>2 DEF Priority

(* No priority is passed over for long: whatever keeps being submitted and *)
(* completed, a background entry lets three visible ones by and a visible  *)
(* entry one background one, in the queues and in the drain.               *)
THEOREM NonePassedOverLong ==
  Spec => [][\A p \in Priority : RequestsInTurn(p) /\ CompletionsInTurn(p)]_vars
<1> DEFINE InTurn == \A p \in Priority : RequestsInTurn(p) /\ CompletionsInTurn(p)
<1>1. WInv /\ [Next]_vars => [InTurn]_vars
  <2> SUFFICES ASSUME IInv, Emptied, Next, NEW p \in Priority PROVE RequestsInTurn(p) /\ CompletionsInTurn(p)
    BY DEF vars, WInv
  <2>1. /\ requests \in [Priority -> Nat] /\ completions \in [Priority -> Nat]
        /\ streak \in 0 .. 3 /\ completionStreak \in 0 .. 3
    BY DEF IInv, TypeOK
  <2>2. ASSUME NEW w \in Worker, NEW q \in Priority, WorkerTakes(w, q)
        PROVE  RequestsInTurn(p) /\ CompletionsInTurn(p)
    <3>1. /\ q = Selected(requests, streak) /\ streak' = StreakAfter(requests, streak)
          /\ completionStreak' = completionStreak
      BY <2>2 DEF WorkerTakes
    <3>2. CompletionsInTurn(p)
      BY <3>1 DEF CompletionsInTurn
    <3>3. CASE q = p
      BY <2>2, <3>2, <3>3 DEF RequestsInTurn, Takes
    <3>4. CASE q # p
      BY <2>1, <2>2, <3>1, <3>2, <3>4, PassedOver DEF RequestsInTurn, Takes
    <3> QED BY <3>3, <3>4
  <2>3. ASSUME NEW q \in Priority, DrainTake(q)
        PROVE  RequestsInTurn(p) /\ CompletionsInTurn(p)
    <3>1. /\ q = Selected(completions, completionStreak)
          /\ completionStreak' = StreakAfter(completions, completionStreak)
          /\ streak' = streak
      BY <2>3 DEF DrainTake
    <3>2. RequestsInTurn(p)
      BY <3>1 DEF RequestsInTurn
    <3>3. CASE q = p
      BY <2>3, <3>2, <3>3 DEF CompletionsInTurn
    <3>4. CASE q # p
      BY <2>1, <2>3, <3>1, <3>2, <3>4, PassedOver DEF CompletionsInTurn
    <3> QED BY <3>3, <3>4
  <2>4. ASSUME NEW few \in BOOLEAN, Start(few)
        PROVE  RequestsInTurn(p) /\ CompletionsInTurn(p)
    <3>1. requests[p] = 0 /\ completions[p] = 0
      BY <2>4 DEF Start, IInv, Between, Emptied
    <3> QED BY <3>1 DEF RequestsInTurn, CompletionsInTurn
  <2>5. CASE streak' = streak /\ completionStreak' = completionStreak
    BY <2>5 DEF RequestsInTurn, CompletionsInTurn
  <2>6. CASE \/ NotifyOne \/ StopBegin \/ StopStep \/ Deliver
             \/ \E q \in Priority : Submit(q)
             \/ \E w \in Worker : WorkerExits(w) \/ WorkerSleeps(w)
             \/ \E h \in Thread : Complete(h)
             \/ \E limit \in 1 .. DrainLimit : DrainBegin(limit)
    BY <2>5, <2>6 DEF NotifyOne, StopBegin, StopStep, StopWakes, StopEnd, Deliver, Submit, WorkerExits,
                      WorkerSleeps, Complete, DrainBegin, queues
  <2> QED BY <2>2, <2>3, <2>4, <2>6 DEF Next, WorkerStep
<1> QED BY <1>1, WInvInit, WInvStep, PTL DEF Spec


-----------------------------------------------------------------------------
(* The length of a shutdown.  Every step that anybody takes while it is    *)
(* under way leaves fewer, and there is always one to take.                *)
BatchLeft == Len(pending) + 1 - at

StopsLeft ==
    CASE stopper = "waking"  -> 2
      [] stopper = "joining" -> 1
      [] OTHER               -> 0

\* A request that runs is still to be completed, taken and delivered, and
\* before its batch is taken the drain has to begin.
StepsLeft ==
    4 * activeRequests + 3 * Both(completions) + 2 * BatchLeft + Cardinality(alive) + StopsLeft
        + (IF notifying THEN 1 ELSE 0)
        + (IF taking = 0 /\ pending = <<>> THEN 1 ELSE 0)

\* The guards of what can happen while the service stops: submit notifies,
\* shutdown wakes the workers, the drain takes, work completes, a worker
\* leaves, a completion is delivered, shutdown returns.
MayStop ==
    \/ notifying
    \/ stopper = "waking"
    \/ taking > 0
    \/ MutexFree /\ Busy # {}
    \/ \E w \in Worker : Awake(w)
    \/ MutexFree /\ DispatcherFree /\ at <= Len(pending)
    \/ Quiet

LEMMA StopNotStuck == ASSUME WInv, state = "stopping" PROVE MayStop
<1> SUFFICES ASSUME ~notifying, stopper # "waking", taking = 0, Busy = {} PROVE MayStop
  BY DEF MayStop, MutexFree, WInv, IInv, TypeOK
<1>1. stopper = "joining" /\ waiting = {} /\ alive \subseteq Worker /\ \A h \in Thread : active[h] = Idle
  BY DEF WInv, IInv, TypeOK, Between, Awakened, Busy
<1>2. CASE alive # {}
  <2>1. PICK w \in alive : TRUE
    BY <1>2
  <2>2. w \in Worker /\ Awake(w)
    BY <1>1, <2>1 DEF Awake, MutexFree, Thread
  <2> QED BY <2>2 DEF MayStop
<1>3. CASE at <= Len(pending)
  <2>1. DispatcherFree
    BY <1>1 DEF DispatcherFree, Thread
  <2> QED BY <1>3, <2>1 DEF MayStop, MutexFree
<1>4. CASE alive = {} /\ ~(at <= Len(pending))
  <2>1. activeRequests = 0
    BY FS_EmptySet, CountsAreThese DEF WInv, IInv, Exact, BusyCount
  <2>2. at = Len(pending) + 1
    <3>1. at \in 1 .. Len(pending) + 1 /\ Len(pending) \in Nat
      BY DEF WInv, IInv, TypeOK
    <3> QED BY <1>4, <3>1
  <2>3. completionsInFlight = 0
    <3>1. Len(pending) \in Nat
      BY DEF WInv, IInv, TypeOK
    <3> QED BY <2>2, <3>1 DEF WInv, IInv, Exact, InFlight
  <2> QED BY <1>1, <1>4, <2>1, <2>3 DEF MayStop, Quiet, MutexFree
<1> QED BY <1>2, <1>3, <1>4

(* What is left to be delivered of either priority is the batch.           *)
LEMMA BatchSum ==
  ASSUME NEW b \in Seq(Priority), NEW i \in 1 .. Len(b) + 1
  PROVE  BatchIn(b, i, "visible") + BatchIn(b, i, "background") = Len(b) + 1 - i
<1> DEFINE all == i .. Len(b)
           V == {j \in all : b[j] = "visible"}
           B == {j \in all : b[j] = "background"}
<1>1. i \in Nat \ {0} /\ i <= Len(b) + 1 /\ Len(b) \in Nat
  OBVIOUS
<1>2. IsFiniteSet(V) /\ IsFiniteSet(B)
  <2>1. i \in Int /\ Len(b) \in Int
    BY <1>1
  <2>2. IsFiniteSet(all) /\ V \in SUBSET all /\ B \in SUBSET all
    BY <2>1, FS_Interval
  <2> HIDE DEF all, V, B
  <2> QED BY <2>2, FS_Subset
<1>3. V \cap B = {} /\ V \cup B = all
  <2>1. \A j \in all : b[j] \in {"visible", "background"}
    BY <1>1 DEF Priority
  <2> QED BY <2>1
<1>4. Cardinality(all) = IF i > Len(b) THEN 0 ELSE Len(b) - i + 1
  <2>1. i \in Int /\ Len(b) \in Int
    BY <1>1
  <2> QED BY <2>1, FS_Interval
<1>5. Cardinality(V \cup B) = Cardinality(V) + Cardinality(B) - Cardinality(V \cap B)
  <2> HIDE DEF V, B
  <2> QED BY <1>2, FS_Union
<1>6. Cardinality(V \cap B) = 0
  BY <1>3, FS_EmptySet
<1>7. Cardinality(all) = Cardinality(V) + Cardinality(B)
  <2>1. Cardinality(V) \in Nat /\ Cardinality(B) \in Nat
    <3> HIDE DEF V, B
    <3> QED BY <1>2, FS_CardinalityType
  <2> HIDE DEF V, B, all
  <2>2. Cardinality(all) = Cardinality(V) + Cardinality(B) - 0
    BY <1>3, <1>5, <1>6
  <2> QED BY <2>1, <2>2
<1>8. BatchIn(b, i, "visible") = Cardinality(V) /\ BatchIn(b, i, "background") = Cardinality(B)
  BY DEF BatchIn
<1> HIDE DEF all, V, B
<1> QED BY <1>1, <1>4, <1>7, <1>8

LEMMA StepParts ==
  ASSUME WInv
  PROVE  /\ activeRequests \in Nat /\ BatchLeft \in Nat /\ completions \in [Priority -> Nat]
         /\ Both(completions) \in Nat /\ StopsLeft \in 0 .. 2
         /\ IsFiniteSet(alive) /\ Cardinality(alive) \in Nat /\ Cardinality(alive) <= Cardinality(Worker)
         /\ Cardinality(Worker) \in Nat
         /\ activeRequests + Both(completions) + BatchLeft <= Capacity
<1>0. TypeOK /\ alive \in SUBSET Worker /\ IsFiniteSet(Worker)
  BY ComputeAssumption DEF WInv, IInv, TypeOK
<1>1. IsFiniteSet(alive) /\ Cardinality(alive) <= Cardinality(Worker)
  BY <1>0, FS_Subset
<1>2. Cardinality(alive) \in Nat /\ Cardinality(Worker) \in Nat
  BY <1>0, <1>1, FS_CardinalityType
<1>3. BatchLeft = BatchIn(pending, at, "visible") + BatchIn(pending, at, "background")
  BY <1>0, BatchSum DEF TypeOK, BatchLeft
<1>4. activeRequests + Both(completions) + BatchLeft <= outstanding
  <2>1. ExactOf("visible") /\ ExactOf("background")
    BY DEF WInv, IInv, Exact, Priority
  <2> QED BY <1>0, <1>3, <2>1, NumberTypes DEF ExactOf, WInv, IInv, Exact, OutstandingSum, ActiveSum, Both
<1>5. activeRequests \in Nat /\ Both(completions) \in Nat /\ BatchLeft \in Nat
  BY <1>0, <1>3, NumberTypes DEF Both
<1>6. activeRequests + Both(completions) + BatchLeft <= Capacity
  BY <1>0, <1>4, <1>5, ReserveType, NumberTypes DEF WInv, IInv, Bounded
<1>7. completions \in [Priority -> Nat] /\ StopsLeft \in 0 .. 2
  BY <1>0 DEF TypeOK, StopsLeft
<1> QED BY <1>1, <1>2, <1>5, <1>6, <1>7

LEMMA StopShortens ==
  ASSUME WInv, WInv', state = "stopping", Next
  PROVE  StepsLeft' < StepsLeft
<1> DEFINE r == activeRequests
           c == Both(completions)
           b == BatchLeft
           a == Cardinality(alive)
           s == StopsLeft
           n == IF notifying THEN 1 ELSE 0
           d == IF taking = 0 /\ pending = <<>> THEN 1 ELSE 0
<1>1. StepsLeft = 4 * r + 3 * c + 2 * b + a + s + n + d
  BY DEF StepsLeft
<1>2. StepsLeft' = 4 * r' + 3 * c' + 2 * b' + a' + s' + n' + d'
  BY DEF StepsLeft
<1>3. r \in Nat /\ c \in Nat /\ b \in Nat /\ a \in Nat /\ s \in 0 .. 2 /\ n \in 0 .. 1 /\ d \in 0 .. 1
  BY StepParts
<1>4. IInv /\ TypeOK /\ IsFiniteSet(alive)
  BY StepParts DEF WInv, IInv
<1> HIDE DEF r, c, b, a, s, n, d
<1>5. CASE NotifyOne
  <2>1. r' = r /\ c' = c /\ b' = b /\ a' = a /\ s' = s /\ n = 1 /\ n' = 0 /\ d' = d
    BY <1>5 DEF NotifyOne, service, queues, counters, drain, r, c, b, a, s, n, d, Both, BatchLeft, StopsLeft
  <2> QED BY <1>1, <1>2, <1>3, <2>1
<1>6. ASSUME NEW w \in Worker, WorkerExits(w) PROVE StepsLeft' < StepsLeft
  <2>1. r' = r /\ c' = c /\ b' = b /\ s' = s /\ n' = n /\ d' = d
    BY <1>6 DEF WorkerExits, service, queues, counters, drain, r, c, b, s, n, d, Both, BatchLeft, StopsLeft
  <2>2. a' = a - 1
    BY <1>4, <1>6, FS_RemoveElement DEF WorkerExits, Awake, a
  <2> QED BY <1>1, <1>2, <1>3, <2>1, <2>2
<1>7. ASSUME NEW h \in Thread, Complete(h) PROVE StepsLeft' < StepsLeft
  <2>1. b' = b /\ a' = a /\ s' = s /\ n' = n /\ d' = d /\ r' = r - 1
    BY <1>7 DEF Complete, service, threads, drain, r, b, a, s, n, d, BatchLeft, StopsLeft
  <2>2. c' = c + 1
    <3>1. PICK p \in Priority : completions' = [completions EXCEPT ![p] = completions[p] + 1]
      BY <1>4, <1>7 DEF Complete, TypeOK
    <3> QED BY <1>4, <3>1, NumberTypes DEF c, Both, Priority, TypeOK
  <2> QED BY <1>1, <1>2, <1>3, <2>1, <2>2
<1>8. ASSUME NEW limit \in 1 .. DrainLimit, DrainBegin(limit) PROVE StepsLeft' < StepsLeft
  <2>1. r' = r /\ c' = c /\ b' = b /\ a' = a /\ s' = s /\ n' = n
    BY <1>8 DEF DrainBegin, service, queues, counters, threads, r, c, b, a, s, n, Both, BatchLeft, StopsLeft
  <2>2. d = 1 /\ d' = 0
    <3>1. taking = 0 /\ pending = <<>> /\ taking' # 0
      BY <1>3, <1>8, ComputeAssumption DEF DrainBegin, MutexFree, c
    <3> QED BY <3>1 DEF d
  <2> QED BY <1>1, <1>2, <1>3, <2>1, <2>2
<1>9. ASSUME NEW p \in Priority, DrainTake(p) PROVE StepsLeft' < StepsLeft
  <2>1. r' = r /\ a' = a /\ s' = s /\ n' = n
    BY <1>9 DEF DrainTake, service, threads, r, a, s, n, StopsLeft
  <2>2. c' = c - 1
    <3>1. completions' = [completions EXCEPT ![p] = completions[p] - 1]
      BY <1>9 DEF DrainTake
    <3> QED BY <1>4, <3>1, NumberTypes DEF c, Both, Priority, TypeOK
  <2>3. pending' = Append(pending, p) /\ at' = at /\ pending \in Seq(Priority) /\ at \in Nat
    BY <1>4, <1>9 DEF DrainTake, TypeOK
  <2>4. b' = b + 1
    <3>1. Len(pending') = Len(pending) + 1 /\ Len(pending) \in Nat
      BY <2>3
    <3> QED BY <2>3, <3>1 DEF b, BatchLeft
  <2>5. d = 0 /\ d' = 0
    <3>1. taking # 0
      BY <1>4, <1>9 DEF DrainTake, TypeOK
    <3>2. pending' # <<>>
      BY <2>3
    <3> QED BY <3>1, <3>2 DEF d
  <2> QED BY <1>1, <1>2, <1>3, <2>1, <2>2, <2>4, <2>5
<1>10. CASE Deliver
  <2>1. r' = r /\ c' = c /\ a' = a /\ s' = s /\ n' = n
    BY <1>10 DEF Deliver, service, queues, threads, r, c, a, s, n, Both, StopsLeft
  <2>2. b' = b - 1
    <3>1. Len(pending) \in Nat /\ at \in Nat
      BY <1>4 DEF TypeOK
    <3>2. CASE at = Len(pending)
      <4>1. pending' = <<>> /\ at' = 1
        BY <1>10, <3>2 DEF Deliver
      <4>2. Len(pending') = 0
        BY <4>1
      <4> QED BY <3>1, <3>2, <4>1, <4>2 DEF b, BatchLeft
    <3>3. CASE at # Len(pending)
      <4>1. pending' = pending /\ at' = at + 1
        BY <1>10, <3>3 DEF Deliver
      <4> QED BY <3>1, <4>1 DEF b, BatchLeft
    <3> QED BY <3>2, <3>3
  <2>3. PICK k \in 0 .. 1 : d' = k
    BY DEF d
  <2> QED BY <1>1, <1>2, <1>3, <2>1, <2>2, <2>3
<1>11. CASE StopWakes
  <2>1. r' = r /\ c' = c /\ b' = b /\ a' = a /\ n' = n /\ d' = d
    BY <1>11 DEF StopWakes, queues, counters, drain, r, c, b, a, n, d, Both, BatchLeft
  <2>2. s = 2 /\ s' = 1
    BY <1>11 DEF StopWakes, s, StopsLeft
  <2> QED BY <1>1, <1>2, <1>3, <2>1, <2>2
<1>12. CASE StopEnd
  <2>1. r' = r /\ b' = b /\ a' = a /\ n' = n /\ d' = d
    BY <1>12 DEF StopEnd, threads, drain, r, b, a, n, d, BatchLeft
  <2>2. s = 1 /\ s' = 0
    BY <1>12 DEF StopEnd, Quiet, s, StopsLeft
  <2>3. c' = 0
    BY <1>12 DEF StopEnd, c, Both, Priority
  <2> QED BY <1>1, <1>2, <1>3, <2>1, <2>2, <2>3
<1>13. /\ \A few \in BOOLEAN : ~Start(few)
       /\ \A p \in Priority : ~Submit(p)
       /\ \A w \in Worker : ~WorkerSleeps(w) /\ \A p \in Priority : ~WorkerTakes(w, p)
       /\ ~StopBegin
  BY DEF Start, Submit, Accepting, WorkerSleeps, WorkerTakes, StopBegin
<1> QED BY <1>5, <1>6, <1>7, <1>8, <1>9, <1>10, <1>11, <1>12, <1>13 DEF Next, WorkerStep, StopStep

(* shutdown is bounded, whatever it finds under way: while the service is  *)
(* stopping nobody waits for anybody in a circle, every step of any thread *)
(* brings it closer to the end, and there are at most four for each place  *)
(* of the capacity, one for each worker and four more.  That is what       *)
(* ShutdownEnds says but for fairness.                                     *)
THEOREM ShutdownShortens ==
  Spec => /\ [](state = "stopping" => MayStop)
          /\ [](state = "stopping" => StepsLeft \in 0 .. Cardinality(Worker) + 4 * Capacity + 4)
          /\ [][state = "stopping" => StepsLeft' < StepsLeft]_vars
<1>1. WInv => (state = "stopping" => MayStop)
  BY StopNotStuck
<1>2. WInv => (state = "stopping" => StepsLeft \in 0 .. Cardinality(Worker) + 4 * Capacity + 4)
  <2> SUFFICES ASSUME WInv PROVE StepsLeft \in 0 .. Cardinality(Worker) + 4 * Capacity + 4
    OBVIOUS
  <2> DEFINE r == activeRequests
             c == Both(completions)
             b == BatchLeft
             a == Cardinality(alive)
             n == IF notifying THEN 1 ELSE 0
             d == IF taking = 0 /\ pending = <<>> THEN 1 ELSE 0
  <2>1. /\ r \in Nat /\ c \in Nat /\ b \in Nat /\ a \in Nat /\ StopsLeft \in 0 .. 2
        /\ a <= Cardinality(Worker) /\ Cardinality(Worker) \in Nat
        /\ r + c + b <= Capacity
    BY StepParts
  <2>2. StepsLeft = 4 * r + 3 * c + 2 * b + a + StopsLeft + n + d
    BY DEF StepsLeft
  <2>3. n \in 0 .. 1 /\ d \in 0 .. 1
    OBVIOUS
  <2> HIDE DEF r, c, b, a, n, d
  <2> QED BY <2>1, <2>2, <2>3, ReserveType
<1>3. WInv /\ WInv' /\ [Next]_vars => [state = "stopping" => StepsLeft' < StepsLeft]_vars
  BY StopShortens
<1> QED BY <1>1, <1>2, <1>3, WInvInit, WInvStep, PTL DEF Spec

=============================================================================
