------------------------- MODULE MonsterThinkProofs -------------------------
(***************************************************************************)
(* The invariants of MonsterThink, for every bound on queue entries and    *)
(* ends of onThink_async.  Their conjunction is inductive.                 *)
(***************************************************************************)
EXTENDS MonsterThink, TLAPS

IInv == TypeOK /\ OneContinuation /\ WaitingIsReleased /\ QueuedHasEntry

(* The part of the invariant about the search, and the part about the      *)
(* post-think.                                                             *)
SearchType == pending \in Since \cup {"none"} /\ outstanding \in BOOLEAN /\ flights \subseteq Flight

PostType ==
    /\ pendingPost \in BOOLEAN /\ queuedIn \in Lane \cup {"none"} /\ waiting \in BOOLEAN
    /\ queue \in [Lane -> 0 .. MaxEntries]

(* What the calls to come look like when a search is dropped, outdated or  *)
(* replaced.                                                               *)
LEMMA NoCalls == Dismissed({}) = {} /\ Outdated({}) = {}
  BY DEF Dismissed, Outdated

LEMMA OutdatedCall ==
  ASSUME NEW f \in Flight, f.active
  PROVE  \E g \in Flight : Outdated({f}) = {g} /\ g.active
<1> DEFINE g == [f EXCEPT !.newest = FALSE]
<1>1. g \in Flight /\ g.active
  BY DEF Flight
<1>2. Outdated({f}) = {g}
  BY DEF Outdated
<1> QED BY <1>1, <1>2

LEMMA NewCallType ==
  ASSUME NEW stage \in {"prepare", "complete"}
  PROVE  NewCall(stage) \in Flight /\ NewCall(stage).active
  BY DEF NewCall, Flight, Since

LEMMA DroppedLeft ==
  ASSUME OneContinuation, NEW f \in flights
  PROVE  flights \ {f} = {}
  BY DEF OneContinuation

-----------------------------------------------------------------------------
(* Queueing the post-think, waiting for the search and releasing it keep   *)
(* what is said of the queues; only a search that is outstanding leaves    *)
(* the post-think waiting.                                                 *)
PostSound == PostType /\ QueuedHasEntry /\ (waiting => pendingPost /\ queuedIn = "none")

LEMMA EnterSound ==
  ASSUME PostType, lane \in Lane, pendingPost, Enter
  PROVE  PostSound' /\ ~waiting'
<1>1. CASE queue[lane] < MaxEntries /\ queue' = [queue EXCEPT ![lane] = @ + 1] /\ queuedIn' = lane /\ UNCHANGED pendingPost
  <2>1. queue' \in [Lane -> 0 .. MaxEntries] /\ queue'[lane] > 0
    BY <1>1, BoundsAssumption DEF PostType
  <2>2. lane # "none"
    BY DEF Lane
  <2>3. PostType'
    BY <1>1, <2>1 DEF PostType, Enter
  <2> QED BY <1>1, <2>1, <2>2, <2>3 DEF PostSound, QueuedHasEntry, Enter
<1>2. CASE pendingPost' = FALSE /\ queuedIn' = "none" /\ UNCHANGED queue
  BY <1>2 DEF PostType, PostSound, QueuedHasEntry, Enter, Lane
<1> QED BY <1>1, <1>2 DEF Enter

LEMMA PostKeeps ==
  ASSUME PostSound, lane \in Lane, NEW busy \in BOOLEAN, Post(busy)
  PROVE  PostSound' /\ (waiting' => busy)
<1>1. CASE ~pendingPost \/ queuedIn # "none"
  BY <1>1 DEF PostSound, PostType, QueuedHasEntry, Post, post
<1>2. CASE pendingPost /\ queuedIn = "none" /\ busy
  BY <1>2 DEF PostSound, PostType, QueuedHasEntry, Post
<1>3. CASE pendingPost /\ queuedIn = "none" /\ ~busy
  BY <1>3, EnterSound DEF PostSound, Post
<1> QED BY <1>1, <1>2, <1>3

LEMMA ReleaseKeeps ==
  ASSUME PostSound, lane \in Lane, Release
  PROVE  PostSound' /\ ~waiting'
<1>1. CASE ~waiting
  BY <1>1 DEF PostSound, PostType, QueuedHasEntry, Release, post
<1>2. CASE waiting
  BY <1>2, EnterSound DEF PostSound, Release
<1> QED BY <1>1, <1>2

LEMMA PostUnchanged ==
  ASSUME PostSound, UNCHANGED post
  PROVE  PostSound' /\ (waiting' <=> waiting)
  BY DEF PostSound, PostType, QueuedHasEntry, post

-----------------------------------------------------------------------------
(* What the operations on the search do to it.                             *)
SearchSound == SearchType /\ OneContinuation

LEMMA DropKeeps ==
  ASSUME NEW calls, calls = {}, Drop(calls)
  PROVE  SearchSound' /\ ~outstanding'
  BY NoCalls DEF Drop, SearchSound, SearchType, OneContinuation

LEMMA RetryKeeps ==
  ASSUME NEW calls, calls = {}, Retry(calls)
  PROVE  /\ SearchSound' /\ ~outstanding' /\ UNCHANGED post
         /\ alive => pending' = "nothing" /\ flags' = flags \cup {"ranking"}
         /\ running' \in BOOLEAN \/ UNCHANGED running
         /\ flags' = flags \cup {"ranking"} \/ UNCHANGED flags
  BY NoCalls DEF Retry, SendAsync, async, SearchSound, SearchType, OneContinuation, Since

LEMMA LaunchKeeps ==
  ASSUME NEW calls, calls = {}, NEW stage \in {"prepare", "complete"},
         outstanding' = TRUE, pending' = "nothing",
         flights' = Dismissed(calls) \cup {NewCall(stage)}
  PROVE  SearchSound'
  BY NoCalls, NewCallType DEF SearchSound, SearchType, OneContinuation, Since

LEMMA StartKeeps ==
  ASSUME SearchSound, Start
  PROVE  SearchSound' /\ outstanding' /\ pending' # "none"
<1>1. Outdated(flights) = {}
  BY NoCalls DEF SearchSound, OneContinuation, Start
<1> QED BY <1>1, LaunchKeeps DEF Start

LEMMA ReplaceKeeps ==
  ASSUME SearchSound, Replace
  PROVE  SearchSound' /\ outstanding' /\ pending' # "none"
<1>1. PICK f \in flights : f.active /\ flights = {f}
  BY DEF SearchSound, OneContinuation, Replace
<1>2. PICK g \in Flight : flights' = {g} /\ g.active
  BY <1>1, OutdatedCall DEF SearchSound, SearchType, Replace
<1> QED BY <1>2 DEF SearchSound, SearchType, OneContinuation, Replace, Since

-----------------------------------------------------------------------------
(* The invariant in these terms.                                           *)
Rest ==
    /\ alive \in BOOLEAN /\ lane \in Lane /\ settled \in BOOLEAN
    /\ flags \subseteq {"think", "ranking"} /\ running \in BOOLEAN
    /\ after \in 0 .. MaxAfter

Awaited == waiting /\ alive => outstanding \/ (pending # "none" /\ "ranking" \in flags)

LEMMA Parts == IInv <=> Rest /\ SearchSound /\ PostSound /\ Awaited
  BY DEF IInv, TypeOK, WaitingIsReleased, Rest, SearchSound, SearchType, PostSound, PostType, Awaited

LEMMA PartsPrimed == IInv' <=> Rest' /\ SearchSound' /\ PostSound' /\ Awaited'
  BY DEF IInv, TypeOK, WaitingIsReleased, Rest, SearchSound, SearchType, PostSound, PostType, Awaited

LEMMA InitSound == Init => IInv
<1> SUFFICES ASSUME Init PROVE IInv
  OBVIOUS
<1>1. queue \in [Lane -> 0 .. MaxEntries] /\ after \in 0 .. MaxAfter
  BY BoundsAssumption DEF Init
<1>2. pending \in Since \cup {"none"} /\ lane \in Lane /\ flags \subseteq {"think", "ranking"} /\ flights \subseteq Flight
  BY DEF Init
<1>3. TypeOK
  BY <1>1, <1>2 DEF Init, TypeOK
<1> QED BY <1>3 DEF Init, IInv, OneContinuation, WaitingIsReleased, QueuedHasEntry

(* The search as it is and the post-think as it is.                        *)
LEMMA SearchUnchanged ==
  ASSUME SearchSound, UNCHANGED search
  PROVE  SearchSound'
  BY DEF SearchSound, SearchType, OneContinuation, search

LEMMA TickKeeps == IInv /\ Tick => IInv'
<1> SUFFICES ASSUME IInv, Tick PROVE IInv'
  OBVIOUS
<1> USE Parts
<1>1. Rest'
  BY DEF Rest, Tick, around, SendAsync
<1>2. SearchSound'
  BY SearchUnchanged DEF Tick
<1>3. PostSound'
  BY DEF PostSound, PostType, QueuedHasEntry, Tick
<1>4. Awaited'
  BY DEF Awaited, Tick, around, search
<1> QED BY <1>1, <1>2, <1>3, <1>4, PartsPrimed

(* Thinking, once what it asked of the search is known.                    *)
LEMMA ThinkKeeps ==
  ASSUME PostSound, lane \in Lane, after \in 0 .. MaxAfter, outstanding' \in BOOLEAN, Think
  PROVE  PostSound' /\ after' \in 0 .. MaxAfter /\ (waiting' => waiting \/ outstanding')
<1>1. CASE UNCHANGED <<after, post>>
  BY <1>1, PostUnchanged DEF post
<1>2. CASE after < MaxAfter /\ after' = after + 1 /\ UNCHANGED post
  <2>1. after' \in 0 .. MaxAfter
    BY <1>2, BoundsAssumption
  <2> QED BY <1>2, <2>1, PostUnchanged
<1>3. CASE UNCHANGED after /\ Post(outstanding')
  BY <1>3, PostKeeps
<1> QED BY <1>1, <1>2, <1>3 DEF Think

LEMMA AskKeeps ==
  ASSUME IInv, alive, Ask
  PROVE  SearchSound' /\ PostSound' /\ after' \in 0 .. MaxAfter /\ (waiting' => outstanding')
<1> USE Parts DEF Rest
<1>1. CASE Asks /\ Start /\ Think
  <2>1. SearchSound' /\ outstanding' /\ outstanding' \in BOOLEAN
    BY <1>1, StartKeeps DEF SearchSound, SearchType
  <2> QED BY <1>1, <2>1, ThinkKeeps
<1>2. CASE Replace /\ Think
  <2>1. SearchSound' /\ outstanding' /\ outstanding' \in BOOLEAN
    BY <1>2, ReplaceKeeps DEF SearchSound, SearchType
  <2> QED BY <1>2, <2>1, ThinkKeeps
<1>3. CASE ~AsksAgain /\ UNCHANGED search /\ Think
  <2>1. SearchSound' /\ outstanding' = outstanding /\ outstanding' \in BOOLEAN
    BY <1>3, SearchUnchanged DEF SearchSound, SearchType, search
  <2>2. waiting => outstanding
    BY <1>3 DEF Awaited, AsksAgain
  <2> QED BY <1>3, <2>1, <2>2, ThinkKeeps
<1>4. CASE Refused
  <2>1. Outdated(flights) = {}
    BY <1>4, NoCalls DEF Refused, SearchSound, OneContinuation
  <2>2. SearchSound' /\ ~outstanding' /\ outstanding' \in BOOLEAN
    BY <1>4, <2>1, DropKeeps DEF Refused, SearchSound, SearchType
  <2>3. CASE ~waiting /\ Think
    BY <2>2, <2>3, ThinkKeeps
  <2>4. CASE Release /\ (UNCHANGED after \/ ("think" \in flags /\ after < MaxAfter /\ after' = after + 1))
    BY <2>2, <2>4, ReleaseKeeps, BoundsAssumption
  <2> QED BY <1>4, <2>3, <2>4 DEF Refused
<1> QED BY <1>1, <1>2, <1>3, <1>4 DEF Ask

LEMMA ExecuteAsyncKeeps == IInv /\ ExecuteAsync => IInv'
<1> SUFFICES ASSUME IInv, ExecuteAsync PROVE IInv'
  OBVIOUS
<1>1. CASE alive
  <2>1. SearchSound' /\ PostSound' /\ after' \in 0 .. MaxAfter /\ (waiting' => outstanding')
    BY <1>1, AskKeeps DEF ExecuteAsync
  <2>2. Rest' /\ Awaited'
    BY <2>1, Parts DEF Rest, Awaited, ExecuteAsync, around
  <2> QED BY <2>1, <2>2, PartsPrimed
<1>2. CASE ~alive
  <2>1. UNCHANGED <<search, after, post>> /\ UNCHANGED around /\ running' = FALSE /\ flags' = {}
    BY <1>2 DEF ExecuteAsync
  <2>2. SearchSound' /\ PostSound'
    BY <2>1, Parts, SearchUnchanged, PostUnchanged
  <2>3. Rest' /\ Awaited'
    BY <1>2, <2>1, Parts DEF Rest, Awaited, around
  <2> QED BY <2>2, <2>3, PartsPrimed
<1> QED BY <1>1, <1>2

(* The rest of a preparation, when no other call is to come.               *)
LEMMA PrepareKeeps ==
  ASSUME IInv, NEW calls, calls = {}, Prepare(calls)
  PROVE  SearchSound' /\ PostSound' /\ (waiting' => outstanding')
<1> USE Parts DEF Rest
<1>1. CASE outstanding' = TRUE /\ pending' = "nothing" /\ flights' = Dismissed(calls) \cup {NewCall("complete")} /\ UNCHANGED post
  BY <1>1, LaunchKeeps, PostUnchanged
<1>2. CASE Clear(calls)
  BY <1>2, DropKeeps, ReleaseKeeps DEF Clear
<1> QED BY <1>1, <1>2 DEF Prepare

LEMMA ChangeTargetKeeps == IInv /\ ChangeTarget => IInv'
<1> SUFFICES ASSUME IInv, ChangeTarget PROVE IInv'
  OBVIOUS
<1>1. SearchSound' /\ PostSound' /\ (waiting' => outstanding')
  <2>1. CASE outstanding
    BY <2>1, Parts, ReplaceKeeps, PostUnchanged DEF ChangeTarget
  <2>2. CASE ~outstanding
    <3>1. Outdated(flights) = {}
      BY <2>2, Parts, NoCalls DEF SearchSound, OneContinuation
    <3> QED BY <2>2, <3>1, PrepareKeeps DEF ChangeTarget
  <2> QED BY <2>1, <2>2
<1>2. Rest' /\ Awaited'
  BY <1>1, Parts DEF Rest, Awaited, ChangeTarget, around, async
<1> QED BY <1>1, <1>2, PartsPrimed

LEMMA PrepareStepKeeps == IInv /\ PrepareStep => IInv'
<1> SUFFICES ASSUME IInv, PrepareStep PROVE IInv'
  OBVIOUS
<1>1. PICK f \in flights : /\ f.stage = "prepare"
                           /\ IF ~outstanding \/ ~f.active \/ pending = "none"
                              THEN flights' = flights \ {f} /\ UNCHANGED <<pending, outstanding, post>>
                              ELSE IF pending = "decision" \/ ~alive
                              THEN Clear(flights \ {f})
                              ELSE Prepare(flights \ {f})
                           /\ UNCHANGED <<around, async, after>>
  BY DEF PrepareStep
<1>2. outstanding /\ f.active /\ pending # "none" /\ flights \ {f} = {}
  BY <1>1, Parts, DroppedLeft DEF SearchSound, OneContinuation
<1>3. SearchSound' /\ PostSound' /\ (waiting' => outstanding')
  <2>1. CASE Clear(flights \ {f})
    BY <1>2, <2>1, Parts, DropKeeps, ReleaseKeeps DEF Clear, Rest
  <2>2. CASE Prepare(flights \ {f})
    BY <1>2, <2>2, PrepareKeeps
  <2> QED BY <1>1, <1>2, <2>1, <2>2
<1>4. Rest' /\ Awaited'
  BY <1>1, <1>3, Parts DEF Rest, Awaited, around, async
<1> QED BY <1>3, <1>4, PartsPrimed

LEMMA CompleteStepKeeps == IInv /\ CompleteStep => IInv'
<1> SUFFICES ASSUME IInv, CompleteStep PROVE IInv'
  OBVIOUS
<1>1. PICK f \in flights :
         /\ f.stage = "complete"
         /\ IF ~outstanding \/ ~f.active \/ pending = "none"
            THEN flights' = flights \ {f} /\ UNCHANGED <<async, pending, outstanding, post>>
            ELSE \/ /\ ~f.newest \/ (alive /\ f.since = "state")
                    /\ Retry(flights \ {f})
                 \/ /\ f.newest
                    /\ Clear(flights \ {f}) /\ UNCHANGED async
         /\ UNCHANGED <<around, after>>
  BY DEF CompleteStep
<1>2. outstanding /\ f.active /\ pending # "none" /\ flights \ {f} = {}
  BY <1>1, Parts, DroppedLeft DEF SearchSound, OneContinuation
<1>3. CASE Retry(flights \ {f})
  <2>1. /\ SearchSound' /\ ~outstanding' /\ UNCHANGED post
        /\ alive => pending' = "nothing" /\ flags' = flags \cup {"ranking"}
        /\ running' \in BOOLEAN \/ UNCHANGED running
        /\ flags' = flags \cup {"ranking"} \/ UNCHANGED flags
    BY <1>2, <1>3, RetryKeeps
  <2>2. PostSound'
    BY <2>1, Parts, PostUnchanged
  <2>3. Rest'
    BY <1>1, <2>1, Parts DEF Rest, around
  <2>4. Awaited'
    BY <1>1, <2>1, Parts DEF Awaited, around
  <2> QED BY <2>1, <2>2, <2>3, <2>4, PartsPrimed
<1>4. CASE Clear(flights \ {f}) /\ UNCHANGED async
  <2>1. SearchSound' /\ PostSound' /\ ~waiting'
    BY <1>2, <1>4, Parts, DropKeeps, ReleaseKeeps DEF Clear, Rest
  <2>2. Rest' /\ Awaited'
    BY <1>1, <1>4, <2>1, Parts DEF Rest, Awaited, around, async
  <2> QED BY <2>1, <2>2, PartsPrimed
<1> QED BY <1>1, <1>2, <1>3, <1>4

LEMMA AfterThinkKeeps == IInv /\ AfterThink => IInv'
<1> SUFFICES ASSUME IInv, AfterThink PROVE IInv'
  OBVIOUS
<1>1. SearchSound' /\ PostSound' /\ (waiting' => outstanding')
  BY Parts, SearchUnchanged, PostKeeps DEF AfterThink, search, Rest, SearchSound, SearchType
<1>2. after' \in 0 .. MaxAfter
  BY Parts, BoundsAssumption DEF AfterThink, Rest
<1>3. Rest' /\ Awaited'
  BY <1>1, <1>2, Parts DEF AfterThink, Rest, Awaited, around, async
<1> QED BY <1>1, <1>3, PartsPrimed

LEMMA ProcessPostKeeps == ASSUME IInv, NEW l \in Lane, ProcessPost(l) PROVE IInv'
<1>1. queue' \in [Lane -> 0 .. MaxEntries] /\ \A m \in Lane : m # l => queue'[m] = queue[m]
  BY Parts, BoundsAssumption DEF ProcessPost, PostSound, PostType
<1>2. SearchSound'
  BY Parts, SearchUnchanged DEF ProcessPost
<1>3. PostSound'
  <2>1. CASE queuedIn # l
    BY <1>1, <2>1, Parts DEF ProcessPost, PostSound, PostType, QueuedHasEntry
  <2>2. CASE queuedIn = l
    BY <1>1, <2>2, Parts DEF ProcessPost, PostSound, PostType, QueuedHasEntry, Lane
  <2> QED BY <2>1, <2>2
<1>4. Rest'
  BY Parts DEF ProcessPost, Rest, around, async
<1>5. Awaited'
  BY Parts DEF ProcessPost, Awaited, around, async, search
<1> QED BY <1>2, <1>3, <1>4, <1>5, PartsPrimed

LEMMA CancelPostKeeps == ASSUME IInv, NEW l \in Lane, CancelPost(l) PROVE IInv'
<1>1. queue' \in [Lane -> 0 .. MaxEntries] /\ \A m \in Lane : m # l => queue'[m] = queue[m]
  BY Parts, BoundsAssumption DEF CancelPost, PostSound, PostType
<1>2. SearchSound'
  BY Parts, SearchUnchanged DEF CancelPost
<1>3. PostSound'
  BY <1>1, Parts DEF CancelPost, PostSound, PostType, QueuedHasEntry, Lane
<1>4. Rest'
  BY Parts DEF CancelPost, Rest, around, async
<1>5. Awaited'
  BY Parts DEF CancelPost, Awaited, around, async, search
<1> QED BY <1>2, <1>3, <1>4, <1>5, PartsPrimed

LEMMA BecomeVisibleKeeps == IInv /\ BecomeVisible => IInv'
<1> SUFFICES ASSUME IInv, BecomeVisible PROVE IInv'
  OBVIOUS
<1>1. SearchSound' /\ Rest'
  BY Parts, SearchUnchanged DEF BecomeVisible, Rest, async, Lane
<1>2. PostSound' /\ (waiting' => waiting \/ outstanding)
  <2>1. CASE queuedIn = "none" \/ ~pendingPost
    BY <2>1, Parts, PostUnchanged DEF BecomeVisible
  <2>2. CASE queuedIn # "none" /\ pendingPost /\ outstanding
    BY <2>2, Parts DEF BecomeVisible, PostSound, PostType, QueuedHasEntry
  <2>3. CASE queuedIn # "none" /\ pendingPost /\ ~outstanding
    <3>1. CASE queue["visible"] < MaxEntries /\ queue' = [queue EXCEPT !["visible"] = @ + 1] /\ queuedIn' = "visible" /\ UNCHANGED pendingPost
      <4>1. queue' \in [Lane -> 0 .. MaxEntries] /\ queue'["visible"] > 0
        BY <3>1, Parts, BoundsAssumption DEF PostSound, PostType, Lane
      <4> QED BY <2>3, <3>1, <4>1, Parts DEF BecomeVisible, PostSound, PostType, QueuedHasEntry, Lane
    <3>2. CASE pendingPost' = FALSE /\ queuedIn' = "none" /\ UNCHANGED queue
      BY <2>3, <3>2, Parts DEF BecomeVisible, PostSound, PostType, QueuedHasEntry
    <3> QED BY <2>3, <3>1, <3>2 DEF BecomeVisible
  <2> QED BY <2>1, <2>2, <2>3
<1>3. Awaited'
  BY <1>2, Parts DEF BecomeVisible, Awaited, async, search
<1> QED BY <1>1, <1>2, <1>3, PartsPrimed

LEMMA ChangeKeeps == ASSUME IInv, NEW change \in {"state", "decision"}, Change(change) PROVE IInv'
<1> DEFINE Aged(f) == IF f.stage = "prepare" THEN f ELSE [f EXCEPT !.since = Later(@, change)]
<1>1. \A f \in Flight : Aged(f) \in Flight /\ Aged(f).active = f.active
  BY DEF Flight, Later, Since
<1>2. flights' = {Aged(f) : f \in flights}
  BY DEF Change
<1>3. SearchSound'
  <2>1. CASE outstanding
    <3>1. PICK f \in flights : f.active /\ flights = {f}
      BY <2>1, Parts DEF SearchSound, OneContinuation
    <3>2. flights' = {Aged(f)} /\ Aged(f) \in Flight /\ Aged(f).active
      BY <1>1, <1>2, <3>1, Parts DEF SearchSound, SearchType
    <3> HIDE DEF Aged
    <3> QED BY <2>1, <3>2, Parts DEF Change, SearchSound, SearchType, OneContinuation, Since, Later
  <2>2. CASE ~outstanding
    BY <1>2, <2>2, Parts DEF Change, SearchSound, SearchType, OneContinuation, Since, Later
  <2> QED BY <2>1, <2>2
<1>4. Rest' /\ PostSound'
  BY Parts, PostUnchanged DEF Change, Rest, around, async
<1>5. Awaited'
  BY Parts DEF Change, Awaited, around, async, post, Later
<1> QED BY <1>3, <1>4, <1>5, PartsPrimed

LEMMA AroundKeeps == IInv /\ (BucketRollsBack \/ BecomeHidden \/ Die \/ Settle) => IInv'
<1> SUFFICES ASSUME IInv, BucketRollsBack \/ BecomeHidden \/ Die \/ Settle PROVE IInv'
  OBVIOUS
<1> USE DEF BucketRollsBack, BecomeHidden, Die, Settle
<1>1. SearchSound' /\ PostSound'
  BY Parts, SearchUnchanged, PostUnchanged
<1>2. Rest'
  BY Parts DEF Rest, around, async, Lane
<1>3. Awaited'
  BY Parts DEF Awaited, around, async, search, post
<1> QED BY <1>1, <1>2, <1>3, PartsPrimed

LEMMA NextKeeps == IInv /\ [Next]_vars => IInv'
<1> SUFFICES ASSUME IInv, [Next]_vars PROVE IInv'
  OBVIOUS
<1>1. CASE UNCHANGED vars
  <2>1. Rest' /\ SearchSound' /\ PostSound'
    BY <1>1, Parts, SearchUnchanged, PostUnchanged DEF vars, Rest, around, async
  <2>2. Awaited'
    BY <1>1, Parts DEF vars, Awaited, around, async, search, post
  <2> QED BY <2>1, <2>2, PartsPrimed
<1> QED BY <1>1, TickKeeps, ChangeTargetKeeps, ExecuteAsyncKeeps, PrepareStepKeeps, CompleteStepKeeps, AfterThinkKeeps,
           ProcessPostKeeps, CancelPostKeeps, BecomeVisibleKeeps, ChangeKeeps, AroundKeeps DEF Next

(* Every variable keeps its type and every counter its bound.              *)
THEOREM ThinkTypeCorrect == Spec => []TypeOK
<1>1. IInv => TypeOK
  BY DEF IInv
<1> QED BY <1>1, InitSound, NextKeeps, PTL DEF Spec

(* A search that is outstanding has one call to come, and no other call is *)
(* left over.                                                              *)
THEOREM SearchHasOneContinuation == Spec => []OneContinuation
<1>1. IInv => OneContinuation
  BY DEF IInv
<1> QED BY <1>1, InitSound, NextKeeps, PTL DEF Spec

(* A waiting post-think has a search or a retry to wait for.               *)
THEOREM WaitingPostThinkIsReleased == Spec => []WaitingIsReleased
<1>1. IInv => WaitingIsReleased
  BY DEF IInv
<1> QED BY <1>1, InitSound, NextKeeps, PTL DEF Spec

(* A queued post-think is pending and has its entry.                       *)
THEOREM QueuedPostThinkHasEntry == Spec => []QueuedHasEntry
<1>1. IInv => QueuedHasEntry
  BY DEF IInv
<1> QED BY <1>1, InitSound, NextKeeps, PTL DEF Spec

-----------------------------------------------------------------------------
(* A post-think that is pending has somebody who will queue it, carry it   *)
(* out or take it back: the flag of its tick, the end of onThink_async,    *)
(* its entry in a queue, or the search it waits for.  Since a tick leaves  *)
(* no second post-think while one is pending, one without any of these     *)
(* would silence the monster for good.                                     *)
PostHasSource ==
    pendingPost /\ alive => "think" \in flags \/ after > 0 \/ queuedIn # "none" \/ waiting

LEMMA EnterQueues ==
  ASSUME lane \in Lane, Enter, pendingPost'
  PROVE  queuedIn' # "none"
  BY DEF Enter, Lane

LEMMA PostSettlesSource ==
  ASSUME lane \in Lane, NEW busy \in BOOLEAN, Post(busy), pendingPost'
  PROVE  queuedIn' # "none" \/ waiting'
<1>1. CASE ~pendingPost \/ queuedIn # "none"
  BY <1>1 DEF Post, post
<1>2. CASE pendingPost /\ queuedIn = "none"
  BY <1>2, EnterQueues DEF Post
<1> QED BY <1>1, <1>2

LEMMA ReleaseSettlesSource ==
  ASSUME PostSound, lane \in Lane, Release, pendingPost'
  PROVE  queuedIn' # "none" \/ (~waiting /\ UNCHANGED post)
<1>1. CASE ~waiting
  BY <1>1 DEF Release
<1>2. CASE waiting
  BY <1>2, EnterQueues DEF Release, PostSound
<1> QED BY <1>1, <1>2

(* The same source after a step that leaves flags, ends and post-think, or *)
(* releases it.                                                            *)
LEMMA SourceStays ==
  ASSUME PostHasSource, PostSound, lane \in Lane, "think" \in flags => "think" \in flags',
         UNCHANGED <<alive, after>>, UNCHANGED post \/ Release
  PROVE  PostHasSource'
<1> SUFFICES ASSUME pendingPost', alive'
             PROVE  "think" \in flags' \/ after' > 0 \/ queuedIn' # "none" \/ waiting'
  BY DEF PostHasSource
<1>1. queuedIn' # "none" \/ UNCHANGED post
  BY ReleaseSettlesSource
<1>2. CASE UNCHANGED post
  BY <1>2 DEF PostHasSource, post
<1> QED BY <1>1, <1>2

LEMMA ThinkSettlesSource ==
  ASSUME lane \in Lane, after \in Nat, outstanding' \in BOOLEAN, "think" \in flags, Think, pendingPost'
  PROVE  after' > 0 \/ queuedIn' # "none" \/ waiting'
<1>1. CASE after' = after + 1
  BY <1>1
<1>2. CASE Post(outstanding')
  BY <1>2, PostSettlesSource
<1> QED BY <1>1, <1>2 DEF Think

LEMMA AskSettlesSource ==
  ASSUME IInv, PostHasSource, alive, Ask, pendingPost'
  PROVE  after' > 0 \/ queuedIn' # "none" \/ waiting'
<1> USE Parts DEF Rest
<1>1. SearchSound' /\ outstanding' \in BOOLEAN /\ after \in Nat
  BY AskKeeps DEF SearchSound, SearchType
<1>2. CASE Think
  <2>1. CASE "think" \in flags
    BY <1>1, <1>2, <2>1, ThinkSettlesSource
  <2>2. CASE "think" \notin flags
    BY <1>2, <2>2 DEF Think, PostHasSource, post
  <2> QED BY <2>1, <2>2
<1>3. CASE waiting /\ Release
  BY <1>3, ReleaseSettlesSource
<1> QED BY <1>2, <1>3 DEF Ask, Refused

LEMMA SourceKept == IInv /\ PostHasSource /\ [Next]_vars => PostHasSource'
<1> SUFFICES ASSUME IInv, PostHasSource, [Next]_vars PROVE PostHasSource'
  OBVIOUS
<1> USE Parts DEF Rest
<1>1. CASE Tick
  BY <1>1 DEF Tick, PostHasSource
<1>2. CASE ChangeTarget
  <2>1. "think" \in flags => "think" \in flags'
    BY <1>2 DEF ChangeTarget, async
  <2>2. UNCHANGED <<alive, after>> /\ (UNCHANGED post \/ Release)
    BY <1>2 DEF ChangeTarget, Prepare, Clear, around
  <2> QED BY <2>1, <2>2, SourceStays
<1>3. CASE ExecuteAsync
  <2> SUFFICES ASSUME pendingPost', alive'
               PROVE  after' > 0 \/ queuedIn' # "none" \/ waiting'
    BY DEF PostHasSource
  <2> QED BY <1>3, AskSettlesSource DEF ExecuteAsync, around
<1>4. CASE PrepareStep
  <2>1. "think" \in flags => "think" \in flags'
    BY <1>4 DEF PrepareStep, async
  <2>2. UNCHANGED <<alive, after>> /\ (UNCHANGED post \/ Release)
    BY <1>4 DEF PrepareStep, Prepare, Clear, around
  <2> QED BY <2>1, <2>2, SourceStays
<1>5. CASE CompleteStep
  <2>1. "think" \in flags => "think" \in flags'
    BY <1>5 DEF CompleteStep, Retry, async
  <2>2. UNCHANGED <<alive, after>> /\ (UNCHANGED post \/ Release)
    BY <1>5 DEF CompleteStep, Retry, Clear, around
  <2> QED BY <2>1, <2>2, SourceStays
<1>6. CASE AfterThink
  <2>1. outstanding \in BOOLEAN /\ Post(outstanding)
    BY <1>6 DEF AfterThink, SearchSound, SearchType
  <2> QED BY <2>1, PostSettlesSource DEF PostHasSource
<1>7. ASSUME NEW l \in Lane, ProcessPost(l) \/ CancelPost(l) PROVE PostHasSource'
  BY <1>7 DEF ProcessPost, CancelPost, PostHasSource, around, async
<1>8. CASE BecomeVisible
  BY <1>8 DEF BecomeVisible, PostHasSource, async, post
<1>9. ASSUME NEW change \in {"state", "decision"}, Change(change) PROVE PostHasSource'
  BY <1>9, SourceStays DEF Change, around, async
<1>10. CASE BucketRollsBack \/ BecomeHidden \/ Die \/ Settle \/ UNCHANGED vars
  BY <1>10 DEF BucketRollsBack, BecomeHidden, Die, Settle, vars, PostHasSource, around, async, post
<1> QED BY <1>1, <1>2, <1>3, <1>4, <1>5, <1>6, <1>7, <1>8, <1>9, <1>10 DEF Next

LEMMA SourceAtStart == Init => PostHasSource
  BY DEF Init, PostHasSource

(* No post-think is ever left pending with nobody to end it, whichever     *)
(* bucket, lane, search or queue was refused on the way                    *)
(* (trySchedulePostThink to executePostThink).                             *)
THEOREM NoPostThinkIsLost == Spec => []PostHasSource
<1> QED BY InitSound, NextKeeps, SourceAtStart, SourceKept, PTL DEF Spec

-----------------------------------------------------------------------------
(* Once things have settled a pending post-think comes nearer to its end   *)
(* with every step.  What is left of it: the entries in the queues, the    *)
(* ends of onThink_async, the calls of the search, which is repeated once  *)
(* if its candidates are stale, and the time in the bucket.  A new request *)
(* can make the search stale, but costs the bucket.                        *)
Stale(f) == ~f.newest \/ f.since = "state"

SearchLeft ==
    IF ~outstanding THEN 0
    ELSE IF \E f \in flights : f.stage = "prepare" THEN 3
    ELSE IF \E f \in flights : Stale(f) THEN 7 ELSE 2

AsyncLeft == IF running THEN (IF outstanding THEN 8 ELSE 6) ELSE IF flags # {} THEN 7 ELSE 0

Entries == queue["visible"] + queue["background"]

ThoughtLeft == Entries + 2 * after + SearchLeft + AsyncLeft

ThoughtShortens == settled /\ alive /\ pendingPost => ThoughtLeft' < ThoughtLeft

LEMMA LeftTypes == SearchLeft \in {0, 2, 3, 7} /\ AsyncLeft \in {0, 6, 7, 8}
  BY DEF SearchLeft, AsyncLeft

LEMMA EntriesType ==
  ASSUME PostType
  PROVE  Entries \in 0 .. 2 * MaxEntries
<1>1. queue["visible"] \in 0 .. MaxEntries /\ queue["background"] \in 0 .. MaxEntries
  BY DEF PostType, Lane
<1> QED BY <1>1, BoundsAssumption DEF Entries


LEMMA EnterAddsOne ==
  ASSUME PostType, lane \in Lane, settled, Enter
  PROVE  Entries' = Entries + 1
<1>1. queue["visible"] \in Nat /\ queue["background"] \in Nat
  BY DEF PostType, Lane
<1>2. queue' = [queue EXCEPT ![lane] = queue[lane] + 1]
  BY DEF Enter
<1>3. CASE lane = "visible"
  <2>1. queue'["visible"] = queue["visible"] + 1 /\ queue'["background"] = queue["background"]
    BY <1>2, <1>3 DEF PostType, Lane
  <2> QED BY <1>1, <2>1 DEF Entries
<1>4. CASE lane = "background"
  <2>1. queue'["visible"] = queue["visible"] /\ queue'["background"] = queue["background"] + 1
    BY <1>2, <1>4 DEF PostType, Lane
  <2> QED BY <1>1, <2>1 DEF Entries
<1> QED BY <1>3, <1>4 DEF Lane

LEMMA PostAdds ==
  ASSUME PostType, lane \in Lane, settled, NEW busy \in BOOLEAN, Post(busy)
  PROVE  Entries' \in {Entries, Entries + 1}
<1>1. CASE ~pendingPost \/ queuedIn # "none" \/ busy
  BY <1>1 DEF Post, post, Entries
<1>2. CASE pendingPost /\ queuedIn = "none" /\ ~busy
  BY <1>2, EnterAddsOne DEF Post
<1> QED BY <1>1, <1>2

LEMMA ReleaseAdds ==
  ASSUME PostType, lane \in Lane, settled, Release
  PROVE  Entries' \in {Entries, Entries + 1}
<1>1. CASE ~waiting \/ ~pendingPost \/ queuedIn # "none"
  BY <1>1 DEF Release, post, Entries
<1>2. CASE waiting /\ pendingPost /\ queuedIn = "none"
  BY <1>2, EnterAddsOne DEF Release
<1> QED BY <1>1, <1>2

LEMMA ThinkAdds ==
  ASSUME PostType, lane \in Lane, settled, after \in Nat, outstanding' \in BOOLEAN, Think
  PROVE  /\ after' \in Nat
         /\ \/ Entries' \in {Entries, Entries + 1} /\ after' = after
            \/ Entries' = Entries /\ after' = after + 1
<1>1. CASE UNCHANGED <<after, post>>
  BY <1>1 DEF post, Entries
<1>2. CASE after' = after + 1 /\ UNCHANGED post
  BY <1>2 DEF post, Entries
<1>3. CASE UNCHANGED after /\ Post(outstanding')
  BY <1>3, PostAdds
<1> QED BY <1>1, <1>2, <1>3 DEF Think

(* What the operations leave of the search.                                *)
LEMMA StartLeft ==
  ASSUME SearchSound, Start
  PROVE  SearchLeft' = 3
<1>1. outstanding' /\ NewCall("prepare") \in flights'
  BY DEF Start
<1>2. NewCall("prepare").stage = "prepare"
  BY DEF NewCall
<1> QED BY <1>1, <1>2 DEF SearchLeft

LEMMA ReplaceLeft ==
  ASSUME SearchSound, Replace
  PROVE  (SearchLeft = 3 /\ SearchLeft' = 3) \/ (SearchLeft \in {2, 7} /\ SearchLeft' = 7)
<1>1. PICK f \in flights : flights = {f}
  BY DEF SearchSound, OneContinuation, Replace
<1>2. PICK g : flights' = {g} /\ g = [f EXCEPT !.newest = FALSE]
  BY <1>1 DEF Replace, Outdated
<1>3. f \in Flight
  BY <1>1 DEF SearchSound, SearchType
<1>4. g.stage = f.stage /\ ~g.newest
  BY <1>2, <1>3 DEF Flight
<1>5. CASE f.stage = "prepare"
  <2>1. SearchLeft = 3
    BY <1>1, <1>5 DEF SearchLeft, Replace
  <2>2. SearchLeft' = 3
    BY <1>2, <1>4, <1>5 DEF SearchLeft, Replace
  <2> QED BY <2>1, <2>2
<1>6. CASE f.stage # "prepare"
  <2>1. SearchLeft \in {2, 7}
    BY <1>1, <1>6 DEF SearchLeft, Replace
  <2>2. SearchLeft' = 7
    BY <1>2, <1>4, <1>6 DEF SearchLeft, Stale, Replace
  <2> QED BY <2>1, <2>2
<1> QED BY <1>5, <1>6

LEMMA ClearLeft ==
  ASSUME NEW calls, Drop(calls)
  PROVE  SearchLeft' = 0
  BY DEF Drop, SearchLeft

LEMMA LaunchLeft ==
  ASSUME outstanding' = TRUE, flights' = {NewCall("complete")}
  PROVE  SearchLeft' = 2
  BY DEF SearchLeft, NewCall, Stale

(* The sum in the next state, of numbers.                                  *)
LEMMA LeftPrimed ==
  ASSUME NEW e, NEW a, NEW s, NEW r, Entries' = e, after' = a, SearchLeft' = s, AsyncLeft' = r
  PROVE  ThoughtLeft' = e + 2 * a + s + r
  BY DEF ThoughtLeft

(* Step by step.                                                           *)
LEMMA TickShortens == ASSUME IInv, PostHasSource, settled, alive, pendingPost, Tick PROVE ThoughtLeft' < ThoughtLeft
<1> USE Parts DEF Rest
<1>1. WorkDone
  BY DEF Tick
<1>2. ~outstanding
  BY <1>1 DEF WorkDone, SearchSound, OneContinuation
<1>3. queuedIn = "none"
  BY <1>1 DEF WorkDone, PostSound, PostType, QueuedHasEntry
<1>4. flags # {}
  <2>1. "think" \in flags \/ waiting
    BY <1>1, <1>3 DEF PostHasSource, WorkDone
  <2> QED BY <1>2, <2>1 DEF Awaited
<1>5. AsyncLeft = 7
  BY <1>1, <1>4 DEF AsyncLeft, WorkDone
<1>6. running' = TRUE /\ UNCHANGED <<pending, outstanding, flights, after, queue>>
  BY DEF Tick, SendAsync, search
<1>7. AsyncLeft' = 6
  BY <1>2, <1>6 DEF AsyncLeft
<1>8. SearchLeft' = SearchLeft /\ Entries' = Entries
  BY <1>6 DEF SearchLeft, Entries, Stale
<1>9. Entries \in Nat /\ SearchLeft \in Nat /\ after \in Nat
  BY EntriesType, LeftTypes DEF PostSound
<1> QED BY <1>5, <1>6, <1>7, <1>8, <1>9 DEF ThoughtLeft

LEMMA ExecuteAsyncShortens == ASSUME IInv, settled, alive, ExecuteAsync PROVE ThoughtLeft' < ThoughtLeft
<1> USE Parts DEF Rest
<1>1. Ask /\ running /\ ~running' /\ flags' = {}
  BY DEF ExecuteAsync
<1>2. AsyncLeft' = 0
  BY <1>1 DEF AsyncLeft
<1>3. Think /\ ~Refused
  BY <1>1 DEF Ask, Refused
<1>4. outstanding' \in BOOLEAN
  BY <1>1, AskKeeps DEF SearchSound, SearchType
<1>5. /\ after' \in Nat
      /\ \/ Entries' \in {Entries, Entries + 1} /\ after' = after
         \/ Entries' = Entries /\ after' = after + 1
  BY <1>3, <1>4, ThinkAdds DEF PostSound
<1>6. Entries \in Nat /\ SearchLeft \in Nat /\ after \in Nat
  BY EntriesType, LeftTypes DEF PostSound
<1>7. \/ SearchLeft' = SearchLeft /\ AsyncLeft \in {6, 8}
      \/ SearchLeft' = 3 /\ SearchLeft = 0 /\ AsyncLeft = 6
      \/ SearchLeft' = 7 /\ SearchLeft \in {2, 7} /\ AsyncLeft = 8
  <2>1. CASE Start
    <3>1. SearchLeft = 0 /\ AsyncLeft = 6
      BY <1>1, <2>1 DEF Start, SearchLeft, AsyncLeft
    <3> QED BY <2>1, <3>1, StartLeft
  <2>2. CASE Replace
    <3>1. AsyncLeft = 8
      BY <1>1, <2>2 DEF Replace, AsyncLeft
    <3> QED BY <2>2, <3>1, ReplaceLeft
  <2>3. CASE UNCHANGED search
    <3>1. SearchLeft' = SearchLeft
      BY <2>3 DEF search, SearchLeft, Stale
    <3>2. AsyncLeft \in {6, 8}
      BY <1>1 DEF AsyncLeft
    <3> QED BY <3>1, <3>2
  <2> QED BY <1>1, <1>3, <2>1, <2>2, <2>3 DEF Ask
<1>8. PICK e, a, s : e = Entries' /\ a = after' /\ s = SearchLeft'
  OBVIOUS
<1>9. ThoughtLeft' = e + 2 * a + s + 0
  BY <1>2, <1>8, LeftPrimed
<1>10. s \in Nat /\ s + 3 <= SearchLeft + AsyncLeft /\ AsyncLeft \in Nat
  BY <1>6, <1>7, <1>8
<1>11. e \in Nat /\ a \in Nat /\ e + 2 * a <= Entries + 2 * after + 2
  BY <1>5, <1>6, <1>8
<1> QED BY <1>6, <1>9, <1>10, <1>11 DEF ThoughtLeft

LEMMA PrepareStepShortens == ASSUME IInv, settled, alive, PrepareStep PROVE ThoughtLeft' < ThoughtLeft
<1> USE Parts DEF Rest
<1>1. PICK f \in flights : /\ f.stage = "prepare"
                           /\ IF ~outstanding \/ ~f.active \/ pending = "none"
                              THEN flights' = flights \ {f} /\ UNCHANGED <<pending, outstanding, post>>
                              ELSE IF pending = "decision" \/ ~alive
                              THEN Clear(flights \ {f})
                              ELSE Prepare(flights \ {f})
                           /\ UNCHANGED <<around, async, after>>
  BY DEF PrepareStep
<1>2. outstanding /\ f.active /\ pending # "none" /\ flights \ {f} = {}
  BY <1>1, DroppedLeft DEF SearchSound, OneContinuation
<1>3. SearchLeft = 3
  BY <1>1, <1>2 DEF SearchLeft
<1>4. AsyncLeft' = AsyncLeft \/ (AsyncLeft' = 6 /\ AsyncLeft = 8)
  BY <1>1, <1>2 DEF AsyncLeft, async
<1>5. /\ SearchLeft' \in {0, 2} /\ Entries' \in {Entries, Entries + 1}
      /\ SearchLeft' = 2 => Entries' = Entries
  <2>1. CASE Clear(flights \ {f})
    BY <2>1, ClearLeft, ReleaseAdds DEF Clear, PostSound
  <2>2. CASE outstanding' = TRUE /\ flights' = Dismissed(flights \ {f}) \cup {NewCall("complete")} /\ UNCHANGED post
    <3>1. flights' = {NewCall("complete")}
      BY <1>2, <2>2, NoCalls
    <3> QED BY <2>2, <3>1, LaunchLeft DEF Entries, post
  <2> QED BY <1>1, <1>2, <2>1, <2>2 DEF Prepare
<1>6. Entries \in Nat /\ after \in Nat /\ after' = after
  BY <1>1, EntriesType DEF PostSound
<1>7. PICK e, s, r : e = Entries' /\ s = SearchLeft' /\ r = AsyncLeft'
  OBVIOUS
<1>8. ThoughtLeft' = e + 2 * after + s + r
  BY <1>6, <1>7, LeftPrimed
<1>9. (s = 0 /\ e \in {Entries, Entries + 1}) \/ (s = 2 /\ e = Entries)
  BY <1>5, <1>7
<1>10. r \in Nat /\ r <= AsyncLeft /\ AsyncLeft \in Nat
  BY <1>4, <1>7, LeftTypes
<1> QED BY <1>3, <1>6, <1>8, <1>9, <1>10 DEF ThoughtLeft

LEMMA CompleteStepShortens == ASSUME IInv, settled, alive, CompleteStep PROVE ThoughtLeft' < ThoughtLeft
<1> USE Parts DEF Rest
<1>1. PICK f \in flights :
         /\ f.stage = "complete"
         /\ IF ~outstanding \/ ~f.active \/ pending = "none"
            THEN flights' = flights \ {f} /\ UNCHANGED <<async, pending, outstanding, post>>
            ELSE \/ /\ ~f.newest \/ (alive /\ f.since = "state")
                    /\ Retry(flights \ {f})
                 \/ /\ f.newest
                    /\ Clear(flights \ {f}) /\ UNCHANGED async
         /\ UNCHANGED <<around, after>>
  BY DEF CompleteStep
<1>2. outstanding /\ f.active /\ pending # "none" /\ flights = {f}
  BY <1>1, DroppedLeft DEF SearchSound, OneContinuation
<1>3. Entries \in Nat /\ after \in Nat /\ after' = after /\ AsyncLeft \in Nat
  BY <1>1, EntriesType, LeftTypes DEF PostSound
<1>4. CASE Stale(f) /\ Retry(flights \ {f})
  <2>1. SearchLeft = 7
    BY <1>1, <1>2, <1>4 DEF SearchLeft
  <2>2. ~outstanding' /\ running' /\ UNCHANGED post
    BY <1>4 DEF Retry, SendAsync
  <2>3. SearchLeft' = 0 /\ AsyncLeft' = 6 /\ Entries' = Entries
    BY <2>2 DEF SearchLeft, AsyncLeft, Entries, post
  <2> QED BY <1>3, <2>1, <2>3 DEF ThoughtLeft
<1>5. CASE Clear(flights \ {f}) /\ UNCHANGED async
  <2>1. SearchLeft \in {2, 7}
    BY <1>1, <1>2 DEF SearchLeft
  <2>2. SearchLeft' = 0 /\ Entries' \in {Entries, Entries + 1} /\ ~outstanding'
    BY <1>5, ClearLeft, ReleaseAdds DEF Clear, Drop, PostSound
  <2>3. AsyncLeft' = AsyncLeft \/ (AsyncLeft' = 6 /\ AsyncLeft = 8)
    BY <1>2, <1>5, <2>2 DEF AsyncLeft, async
  <2>4. PICK e, r : e = Entries' /\ r = AsyncLeft'
    OBVIOUS
  <2>5. ThoughtLeft' = e + 2 * after + 0 + r
    BY <1>3, <2>2, <2>4, LeftPrimed
  <2>6. e \in {Entries, Entries + 1} /\ r \in Nat /\ r <= AsyncLeft
    BY <1>3, <2>2, <2>3, <2>4
  <2> QED BY <1>3, <2>1, <2>5, <2>6 DEF ThoughtLeft
<1> QED BY <1>1, <1>2, <1>4, <1>5 DEF Stale

LEMMA AfterThinkShortens == ASSUME IInv, settled, AfterThink PROVE ThoughtLeft' < ThoughtLeft
<1> USE Parts DEF Rest
<1>1. after \in Nat /\ after > 0 /\ after' = after - 1
  BY DEF AfterThink
<1>2. Entries \in Nat /\ SearchLeft \in Nat /\ AsyncLeft \in Nat
  BY EntriesType, LeftTypes DEF PostSound
<1>3. Entries' \in {Entries, Entries + 1}
  BY PostAdds DEF AfterThink, PostSound, SearchSound, SearchType
<1>4. SearchLeft' = SearchLeft /\ AsyncLeft' = AsyncLeft
  BY DEF AfterThink, search, async, SearchLeft, AsyncLeft, Stale
<1>5. PICK e : e = Entries'
  OBVIOUS
<1>6. ThoughtLeft' = e + 2 * (after - 1) + SearchLeft + AsyncLeft
  BY <1>1, <1>4, <1>5, LeftPrimed
<1> QED BY <1>1, <1>2, <1>3, <1>5, <1>6 DEF ThoughtLeft

LEMMA ProcessPostShortens == ASSUME IInv, NEW l \in Lane, ProcessPost(l) PROVE ThoughtLeft' < ThoughtLeft
<1> USE Parts DEF Rest
<1>1. queue["visible"] \in Nat /\ queue["background"] \in Nat
  BY DEF PostSound, PostType, Lane
<1>2. Entries' = Entries - 1
  <2>1. CASE l = "visible"
    <3>1. queue'["visible"] = queue["visible"] - 1 /\ queue'["background"] = queue["background"]
      BY <2>1 DEF ProcessPost, PostSound, PostType, Lane
    <3> QED BY <1>1, <3>1 DEF Entries
  <2>2. CASE l = "background"
    <3>1. queue'["visible"] = queue["visible"] /\ queue'["background"] = queue["background"] - 1
      BY <2>2 DEF ProcessPost, PostSound, PostType, Lane
    <3> QED BY <1>1, <3>1 DEF Entries
  <2> QED BY <2>1, <2>2 DEF Lane
<1>3. Entries \in Nat /\ SearchLeft \in Nat /\ AsyncLeft \in Nat /\ after \in Nat
  BY EntriesType, LeftTypes DEF PostSound
<1>4. SearchLeft' = SearchLeft /\ AsyncLeft' = AsyncLeft /\ after' = after
  BY DEF ProcessPost, search, async, SearchLeft, AsyncLeft, Stale
<1> QED BY <1>2, <1>3, <1>4 DEF ThoughtLeft

LEMMA StepShortens == IInv /\ PostHasSource /\ [Next]_vars => [ThoughtShortens]_vars
<1> SUFFICES ASSUME IInv, PostHasSource, Next, settled, alive, pendingPost
             PROVE  ThoughtLeft' < ThoughtLeft
  BY DEF ThoughtShortens
<1>1. ~ChangeTarget /\ ~BucketRollsBack /\ ~BecomeVisible /\ ~BecomeHidden /\ ~Die /\ ~Settle
  BY DEF ChangeTarget, BucketRollsBack, BecomeVisible, BecomeHidden, Die, Settle
<1>2. (\A l \in Lane : ~CancelPost(l)) /\ \A change \in {"state", "decision"} : ~Change(change)
  BY DEF CancelPost, Change
<1> QED BY <1>1, <1>2, TickShortens, ExecuteAsyncShortens, PrepareStepShortens, CompleteStepShortens,
           AfterThinkShortens, ProcessPostShortens DEF Next

LEMMA ThoughtBounded == IInv => ThoughtLeft \in 0 .. 2 * MaxEntries + 2 * MaxAfter + 15
<1> SUFFICES ASSUME IInv PROVE ThoughtLeft \in 0 .. 2 * MaxEntries + 2 * MaxAfter + 15
  OBVIOUS
<1>1. Entries \in 0 .. 2 * MaxEntries /\ after \in 0 .. MaxAfter
  BY Parts, EntriesType DEF PostSound, Rest
<1>2. SearchLeft \in 0 .. 7 /\ AsyncLeft \in 0 .. 8
  BY LeftTypes
<1> QED BY <1>1, <1>2, BoundsAssumption DEF ThoughtLeft

(* Once things have settled, every step of a living monster with a         *)
(* post-think pending shortens what is left of it, which is bounded: it is *)
(* ended after so many steps at the latest.  This is what is safety in     *)
(* ThoughtEnds; that the steps are taken is its fairness.                  *)
THEOREM ThoughtsComeToAnEnd ==
  Spec => /\ [](ThoughtLeft \in 0 .. 2 * MaxEntries + 2 * MaxAfter + 15)
          /\ [][ThoughtShortens]_vars
<1> QED BY InitSound, NextKeeps, SourceAtStart, SourceKept, StepShortens, ThoughtBounded, PTL DEF Spec

=============================================================================
