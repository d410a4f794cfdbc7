---------------------------- MODULE MonsterThink ----------------------------
(***************************************************************************)
(* How a monster thinks (monster.cpp, creature.cpp, game.cpp).  Every tick *)
(* leaves one post-think pending, in which the monster attacks, and a flag *)
(* for the barrier phase, in which it decides.  Deciding may start a       *)
(* search for a target: the dispatcher copies the candidates, a worker     *)
(* ranks them, and the dispatcher selects one if nothing has changed       *)
(* meanwhile.  The post-think waits for the search and then passes through *)
(* one of two queues, for monsters that a player sees and for others.      *)
(*                                                                         *)
(* One monster, not a summon, and one that does not fall idle: setIdle     *)
(* takes a monster out of the lists of checkCreatures, and it is not       *)
(* ticked until it wakes.                                                  *)
(*                                                                         *)
(* Epochs and generations count up and are only compared with the present  *)
(* ones, so a copy is modelled by what has happened since: nothing, a      *)
(* change of the state or of the decision, a newer request.  The kind of a *)
(* search is left out; a request of another kind counts as a new one.      *)
(***************************************************************************)
EXTENDS Naturals

CONSTANTS MaxEntries,  \* bound: entries of this monster in one queue
          MaxAfter     \* bound: ends of onThink_async to come

ASSUME BoundsAssumption == MaxEntries \in Nat \ {0} /\ MaxAfter \in Nat \ {0}

Lane == {"visible", "background"}
Since == {"nothing", "state", "decision"}

VARIABLES
    alive,        \* isDead() is false
    lane,         \* isPlayerVisibleForScheduling()
    settled,      \* nothing is refused and nothing changes around the monster any more
    flags,        \* OnThink and TargetRanking of m_flagAsyncTask
    running,      \* AsyncTaskRunning: the monster is in a bucket of the barrier phase
    pending,      \* pendingTargetSearchCompute: what has changed since it was made
    outstanding,  \* targetSearchComputeOutstanding
    flights,      \* calls of prepare- and completeTargetSearchCompute to come
    after,        \* ends of onThink_async to come
    pendingPost,  \* pendingPostThink.isPending()
    queuedIn,     \* postThinkQueued and postThinkPlayerVisible
    waiting,      \* postThinkWaitingForTargetDecision
    queue         \* entries of the monster in the two queues

around == <<alive, lane, settled>>
async == <<flags, running>>
search == <<pending, outstanding, flights>>
post == <<pendingPost, queuedIn, waiting, queue>>
vars == <<around, async, search, after, post>>

(* A call to come: whether its generation is the newest and the active     *)
(* one, and what has changed since it took its copy of the candidates.     *)
Flight == [stage : {"prepare", "complete"}, since : Since, newest : BOOLEAN, active : BOOLEAN]

TypeOK ==
    /\ alive \in BOOLEAN /\ lane \in Lane /\ settled \in BOOLEAN
    /\ flags \subseteq {"think", "ranking"} /\ running \in BOOLEAN
    /\ pending \in Since \cup {"none"} /\ outstanding \in BOOLEAN
    /\ flights \subseteq Flight
    /\ after \in 0 .. MaxAfter
    /\ pendingPost \in BOOLEAN /\ queuedIn \in Lane \cup {"none"} /\ waiting \in BOOLEAN
    /\ queue \in [Lane -> 0 .. MaxEntries]

Init ==
    /\ alive = TRUE /\ lane \in Lane /\ settled = FALSE
    /\ flags = {} /\ running = FALSE
    /\ pending = "none" /\ outstanding = FALSE /\ flights = {}
    /\ after = 0
    /\ pendingPost = FALSE /\ queuedIn = "none" /\ waiting = FALSE
    /\ queue = [l \in Lane |-> 0]

-----------------------------------------------------------------------------
(* nextTargetSearchComputeGeneration and the assignments to                *)
(* activeTargetSearchComputeGeneration, as the calls to come see them.     *)
Outdated(calls) == {[f EXCEPT !.newest = FALSE] : f \in calls}
Dismissed(calls) == {[f EXCEPT !.active = FALSE] : f \in calls}

NewCall(stage) == [stage |-> stage, since |-> "nothing", newest |-> TRUE, active |-> TRUE]

(* sendAsyncTasks: a monster that is in a bucket is not put there again.   *)
(* When the bucket is not admitted to its lane the flags stay for the next *)
(* time.                                                                   *)
SendAsync == running' = TRUE \/ (~settled /\ ~running /\ running' = FALSE)

-----------------------------------------------------------------------------
(* queuePostThinkAfterAsync, for a value of targetSearchComputeOutstanding. *)
(* An entry that is refused takes the post-think back.                     *)
Enter ==
    /\ waiting' = FALSE
    /\ \/ /\ queue[lane] < MaxEntries
          /\ queue' = [queue EXCEPT ![lane] = @ + 1]
          /\ queuedIn' = lane
          /\ UNCHANGED pendingPost
       \/ /\ ~settled
          /\ pendingPost' = FALSE /\ queuedIn' = "none"
          /\ UNCHANGED queue

Post(busy) ==
    IF ~pendingPost \/ queuedIn # "none" THEN UNCHANGED post
    ELSE IF busy THEN waiting' = TRUE /\ UNCHANGED <<pendingPost, queuedIn, queue>>
    ELSE Enter

(* clearTargetSearchCompute: the search is dropped, whichever calls are    *)
(* still to come, and a post-think that waits for it is queued.  With      *)
(* releasePostThink false, in a retry, it goes on waiting.                 *)
Drop(calls) == outstanding' = FALSE /\ pending' = "none" /\ flights' = Dismissed(calls)

Release ==
    IF ~waiting THEN UNCHANGED post
    ELSE IF ~pendingPost \/ queuedIn # "none"
    THEN waiting' = FALSE /\ UNCHANGED <<pendingPost, queuedIn, queue>>
    ELSE Enter

\* Mutation: the end of a search does not release the post-think.
ClearOnly(calls) == Drop(calls) /\ UNCHANGED post

Clear(calls) == Drop(calls) /\ Release

Retry(calls) ==
    /\ outstanding' = FALSE /\ flights' = Dismissed(calls)
    /\ IF alive THEN /\ pending' = "nothing" /\ flags' = flags \cup {"ranking"} /\ SendAsync
       ELSE pending' = "none" /\ UNCHANGED async
    /\ UNCHANGED post

(* The rest of prepareTargetSearchCompute, beside other calls to come.  No *)
(* target, one target or a random choice end the search at once; a ranking *)
(* goes to the compute service, which may refuse it.                       *)
Prepare(others) ==
    \/ /\ outstanding' = TRUE /\ pending' = "nothing"
       /\ flights' = Dismissed(others) \cup {NewCall("complete")}
       /\ UNCHANGED post
    \/ Clear(others)

-----------------------------------------------------------------------------
(* requestTargetSearchCompute.  A request that stands already is not made  *)
(* again; while a search runs the newest request waits for its end.        *)
Stands == outstanding /\ pending = "nothing"

Replace ==
    /\ outstanding
    /\ pending' = "nothing" /\ flights' = Outdated(flights)
    /\ UNCHANGED outstanding

\* Mutation: a search that runs already is not noticed.
StartAnyway ==
    /\ outstanding' = TRUE /\ pending' = "nothing"
    /\ flights' = Dismissed(Outdated(flights)) \cup {NewCall("prepare")}

Start ==
    /\ ~outstanding
    /\ outstanding' = TRUE /\ pending' = "nothing"
    /\ flights' = Dismissed(Outdated(flights)) \cup {NewCall("prepare")}

(* The search of the change-target timer, which onThinkTarget hands to the *)
(* dispatcher: its preparation follows within the same call.               *)
ChangeTarget ==
    /\ alive /\ ~settled
    /\ IF outstanding THEN Replace /\ UNCHANGED post ELSE Prepare(Outdated(flights))
    /\ UNCHANGED <<around, async, after>>

-----------------------------------------------------------------------------
(* checkCreatures: onThink and trySchedulePostThink.  Once things have     *)
(* settled the work of a tick is done before the next tick.                *)
WorkDone == ~running /\ flights = {} /\ after = 0 /\ \A l \in Lane : queue[l] = 0

Tick ==
    /\ alive
    /\ settled => WorkDone
    /\ flags' = flags \cup {"think"}
    /\ SendAsync
    /\ pendingPost' = TRUE
    /\ UNCHANGED <<around, search, after, queuedIn, waiting, queue>>

(* What onExecuteAsyncTasks asks of the search: to rank again, because of  *)
(* the flag, or to search because the monster thinks.  A preparation that  *)
(* the dispatcher refuses ends the search, before the monster thinks.      *)
AsksAgain == "ranking" \in flags /\ pending # "none"
Asks == AsksAgain \/ "think" \in flags

(* The end of onThink_async queues the post-think: later, when the         *)
(* dispatcher takes it, or at once when it does not or the monster idles.  *)
Think ==
    IF "think" \notin flags THEN UNCHANGED <<after, post>>
    ELSE \/ after < MaxAfter /\ after' = after + 1 /\ UNCHANGED post
         \/ UNCHANGED after /\ Post(outstanding')

Refused ==
    /\ Asks /\ ~settled /\ ~outstanding
    /\ Drop(Outdated(flights))
    /\ IF ~waiting THEN Think
       ELSE Release /\ (UNCHANGED after \/ ("think" \in flags /\ after < MaxAfter /\ after' = after + 1))

Ask ==
    \/ Asks /\ Start /\ Think
    \/ (AsksAgain \/ (Asks /\ ~Stands)) /\ Replace /\ Think
    \/ ~AsksAgain /\ UNCHANGED search /\ Think
    \/ Refused

(* executeAsyncTasks, in the barrier phase.                                *)
ExecuteAsync ==
    /\ running
    /\ running' = FALSE /\ flags' = {}
    /\ IF alive THEN Ask ELSE UNCHANGED <<search, after, post>>
    /\ UNCHANGED around

(* rollbackAsyncTaskBucket, after the lane has refused to take the bucket  *)
(* again: the flags are kept.                                              *)
BucketRollsBack ==
    /\ running /\ ~settled
    /\ running' = FALSE
    /\ UNCHANGED <<around, flags, search, after, post>>

-----------------------------------------------------------------------------
(* prepareTargetSearchCompute, in the dispatcher.  It takes up the newest  *)
(* request, unless a decision was made since.                              *)
PrepareStep ==
    \E f \in flights :
        /\ f.stage = "prepare"
        /\ IF ~outstanding \/ ~f.active \/ pending = "none"
           THEN flights' = flights \ {f} /\ UNCHANGED <<pending, outstanding, post>>
           ELSE IF pending = "decision" \/ ~alive
           THEN Clear(flights \ {f})
           ELSE Prepare(flights \ {f})
        /\ UNCHANGED <<around, async, after>>

(* completeTargetSearchCompute, in the dispatcher: a newer request or      *)
(* candidates that have changed lead to a new attempt.  Everything else    *)
(* ends the search: a result that was cancelled, a decision made since, no *)
(* target left, or the selection.                                          *)
CompleteStep ==
    \E f \in flights :
        /\ f.stage = "complete"
        /\ IF ~outstanding \/ ~f.active \/ pending = "none"
           THEN flights' = flights \ {f} /\ UNCHANGED <<async, pending, outstanding, post>>
           ELSE \/ /\ ~f.newest \/ (alive /\ f.since = "state")
                   /\ Retry(flights \ {f})
                \/ /\ f.newest
                   /\ Clear(flights \ {f}) /\ UNCHANGED async
        /\ UNCHANGED <<around, after>>

-----------------------------------------------------------------------------
(* The end of onThink_async, in the dispatcher.                            *)
AfterThink ==
    /\ after > 0 /\ after' = after - 1
    /\ Post(outstanding)
    /\ UNCHANGED <<around, async, search>>

(* processMonsterPostThinkQueue reaches the monster: executePostThink.  An *)
(* entry of a queue that the monster has left finds nothing to do.         *)
ProcessPost(l) ==
    /\ queue[l] > 0
    /\ queue' = [queue EXCEPT ![l] = @ - 1]
    /\ IF queuedIn # l THEN UNCHANGED <<pendingPost, queuedIn, waiting>>
       ELSE /\ queuedIn' = "none"
            /\ IF outstanding THEN waiting' = TRUE /\ UNCHANGED pendingPost
               ELSE pendingPost' = FALSE /\ UNCHANGED waiting
    /\ UNCHANGED <<around, async, search, after>>

\* Mutation: the queue is emptied and its monsters are not told.
CancelEntries(l) ==
    /\ ~settled /\ queue[l] > 0
    /\ queue' = [queue EXCEPT ![l] = 0]
    /\ UNCHANGED <<around, async, search, after, pendingPost, queuedIn, waiting>>

(* scheduleMonsterPostThinkQueue is refused: cancelMonsterPostThinkQueue   *)
(* and, for every monster in it, cancelScheduledPostThink.                 *)
CancelPost(l) ==
    /\ ~settled /\ queue[l] > 0
    /\ queue' = [queue EXCEPT ![l] = 0]
    /\ IF queuedIn # l THEN UNCHANGED <<pendingPost, queuedIn, waiting>>
       ELSE pendingPost' = FALSE /\ queuedIn' = "none" /\ waiting' = FALSE
    /\ UNCHANGED <<around, async, search, after>>

-----------------------------------------------------------------------------
(* observeVisiblePlayerForScheduling: a post-think that is queued already  *)
(* moves to the queue of the visible monsters; its old entry stays.        *)
BecomeVisible ==
    /\ lane = "background" /\ ~settled
    /\ lane' = "visible"
    /\ IF queuedIn = "none" \/ ~pendingPost THEN UNCHANGED post
       ELSE IF outstanding
       THEN queuedIn' = "none" /\ waiting' = TRUE /\ UNCHANGED <<pendingPost, queue>>
       ELSE /\ waiting' = FALSE
            /\ \/ /\ queue["visible"] < MaxEntries
                  /\ queue' = [queue EXCEPT !["visible"] = @ + 1]
                  /\ queuedIn' = "visible"
                  /\ UNCHANGED pendingPost
               \/ /\ pendingPost' = FALSE /\ queuedIn' = "none"
                  /\ UNCHANGED queue
    /\ UNCHANGED <<alive, settled, async, search, after>>

BecomeHidden ==
    /\ lane = "visible" /\ ~settled
    /\ lane' = "background"
    /\ UNCHANGED <<alive, settled, async, search, after, post>>

(* Targets come and go, the monster walks while they are ranked, or it is  *)
(* given or loses a target: markTargetStateChanged, a new position and     *)
(* markTargetDecisionChanged.                                              *)
Later(since, change) == IF since = "decision" THEN since ELSE change

Change(change) ==
    /\ ~settled
    /\ pending' = IF pending = "none" THEN "none" ELSE Later(pending, change)
    /\ flights' = {IF f.stage = "prepare" THEN f ELSE [f EXCEPT !.since = Later(@, change)] : f \in flights}
    /\ UNCHANGED <<around, async, outstanding, after, post>>

Die ==
    /\ alive /\ ~settled
    /\ alive' = FALSE
    /\ UNCHANGED <<lane, settled, async, search, after, post>>

Settle ==
    /\ ~settled
    /\ settled' = TRUE
    /\ UNCHANGED <<alive, lane, async, search, after, post>>

Next ==
    \/ Tick \/ ChangeTarget \/ ExecuteAsync \/ BucketRollsBack
    \/ PrepareStep \/ CompleteStep \/ AfterThink
    \/ \E l \in Lane : ProcessPost(l) \/ CancelPost(l)
    \/ BecomeVisible \/ BecomeHidden
    \/ \E change \in {"state", "decision"} : Change(change)
    \/ Die \/ Settle

Spec == Init /\ [][Next]_vars

(* The dispatcher runs what is queued (AcceptedRuns of DispatcherLanes),   *)
(* the compute service answers every search it took (NoStarvation and      *)
(* ShutdownEnds of MonsterCompute), and checkCreatures is a cyclic event.  *)
FairSpec ==
    /\ Spec
    /\ WF_vars(Settle) /\ WF_vars(Tick) /\ WF_vars(ExecuteAsync)
    /\ WF_vars(PrepareStep) /\ WF_vars(CompleteStep) /\ WF_vars(AfterThink)
    /\ WF_vars(\E l \in Lane : ProcessPost(l))

-----------------------------------------------------------------------------
(* However requests, retries, refusals and changes follow each other, a    *)
(* search that is outstanding has exactly one call still to come, which is *)
(* its own, and a request to serve; no call is left of a search that was   *)
(* dropped.  With no call the monster would never search again, with two   *)
(* it would select twice.                                                  *)
OneContinuation ==
    IF outstanding THEN pending # "none" /\ \E f \in flights : f.active /\ flights = {f}
    ELSE flights = {}

(* A post-think that waits for a search has something to wait for: the     *)
(* search, or the retry that stands in the flags.  No later tick adds      *)
(* another post-think while it is pending.                                 *)
WaitingIsReleased ==
    waiting =>
        /\ pendingPost /\ queuedIn = "none"
        /\ alive => outstanding \/ (pending # "none" /\ "ranking" \in flags)

(* A post-think that counts as queued is pending and has an entry in the   *)
(* queue it counts for, whatever promotions and refusals there were.       *)
QueuedHasEntry == queuedIn # "none" => pendingPost /\ queue[queuedIn] > 0

(* Every post-think that a tick leaves is carried out or taken back, as    *)
(* long as the monster lives and is ticked: it attacks again, even when    *)
(* its bucket, its search or its queue was refused on the way.             *)
ThoughtEnds == pendingPost ~> ~pendingPost \/ ~alive

=============================================================================
