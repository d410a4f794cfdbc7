-------------------------- MODULE DispatcherLanes ---------------------------
(***************************************************************************)
(* What the dispatcher does with the tasks it accepts (dispatcher.cpp,     *)
(* task.cpp): admission to lanes of limited capacity, timers that run once *)
(* or in a cycle, stopping them, merging, promotion and the passes over    *)
(* the lanes.  When the dispatcher sleeps is in DispatcherWakeup; here a   *)
(* thread publishes in one step and the passes follow one another.         *)
(*                                                                         *)
(* Left out: telemetry, and the arithmetic by which the weighted scheduler *)
(* chooses among the ready lanes: any of them with budget left may be next.*)
(* A timer falls due at some time; due timers keep the order of their time.*)
(***************************************************************************)
EXTENDS Naturals, SequencesExt

CONSTANTS Thread,        \* threads that publish tasks
          Task,          \* names of tasks; free again once the task is gone
          Lane,          \* the lanes
          Background,    \* lanes cut short by the slice runtime
          Fair,          \* lanes with producer fairness
          Parallel,      \* lanes whose tasks run together behind a barrier
          LaneOf,        \* the lane of each task
          ProducerOf,    \* the producer token of each task
          Timed,         \* tasks of scheduleEvent
          Cycle,         \* those of them that repeat
          LaneCapacity,  \* how many slots a lane has
          LaneBudget,    \* laneTaskBudget
          MaxInbox       \* bound: unmerged tasks of a thread, for the checker

ASSUME LanesAssumption ==
    /\ IsFiniteSet(Task)
    /\ LaneCapacity \in Nat \ {0} /\ LaneBudget \in Nat \ {0} /\ MaxInbox \in Nat \ {0}
    /\ Background \subseteq Lane /\ Fair \subseteq Lane /\ Parallel \subseteq Lane
    /\ LaneOf \in [Task -> Lane]
    /\ ProducerOf \in [Task -> Nat]
    /\ Cycle \subseteq Timed /\ Timed \subseteq Task
    /\ \A t \in Timed : LaneOf[t] \notin Parallel

VARIABLES
    reserved,      \* reservedLaneSlots
    holding,       \* tasks whose dispatcherSlotReserved is set
    refs,          \* scheduledTasksRef
    cancelled,     \* timers that stopEvent cancelled
    inbox,         \* the tasks of each thread that are not merged yet
    lanes,         \* m_tasks
    lastProducer,  \* lastProducerTokens
    timers,        \* scheduledTasks that are not due
    due,           \* scheduledTasks that are due, the earliest first
    executed,      \* tasksExecuted of the pass
    phase,         \* where the dispatcher thread is in its loop
    shuttingDown,  \* the flag of that name
    ran,           \* the tasks whose function the last step called
    live           \* history: the tasks that were accepted and have been neither
                   \* stopped nor, unless they repeat, called since

slots == <<reserved, holding>>
marks == <<refs, cancelled>>
vars == <<slots, marks, inbox, lanes, lastProducer, timers, due, executed, phase, shuttingDown, ran, live>>

Init ==
    /\ reserved = [l \in Lane |-> 0]
    /\ holding = {} /\ refs = {} /\ cancelled = {}
    /\ inbox = [h \in Thread |-> <<>>]
    /\ lanes = [l \in Lane |-> <<>>]
    /\ lastProducer = [l \in Lane |-> 0]
    /\ timers = {} /\ due = <<>>
    /\ executed = [l \in Lane |-> 0]
    /\ phase = "merge"
    /\ shuttingDown = FALSE
    /\ ran = {} /\ live = {}

Queued == timers \cup ToSet(due) \cup (UNION {ToSet(inbox[h]) : h \in Thread})
                                 \cup (UNION {ToSet(lanes[l]) : l \in Lane})

-----------------------------------------------------------------------------
(* tryReserveLaneSlot and releaseDispatcherSlot: a task that holds no slot *)
(* gives none back.                                                        *)
HasSlot(l) == reserved[l] < LaneCapacity

Reserve(t) ==
    /\ HasSlot(LaneOf[t])
    /\ reserved' = [reserved EXCEPT ![LaneOf[t]] = @ + 1]
    /\ holding' = holding \cup {t}

HeldIn(gone, l) == {t \in gone \cap holding : LaneOf[t] = l}

\* Mutation: a slot is given back whether it is held or not.
ReleaseUnheld(gone) ==
    /\ reserved' = [l \in Lane |-> reserved[l] - Cardinality({t \in gone : LaneOf[t] = l})]
    /\ holding' = holding \ gone

Release(gone) ==
    /\ reserved' = [l \in Lane |-> reserved[l] - Cardinality(HeldIn(gone, l))]
    /\ holding' = holding \ gone

(* addEvent and its kin, scheduleEvent.  A refused task changes nothing.   *)
Post(h, t) ==
    /\ t \notin Queued \cup holding
    /\ ~shuttingDown
    /\ Len(inbox[h]) < MaxInbox
    /\ Reserve(t)
    /\ inbox' = [inbox EXCEPT ![h] = Append(@, t)]
    /\ refs' = refs \cup ({t} \cap Timed)
    /\ live' = live \cup {t}
    /\ ran' = {}
    /\ UNCHANGED <<cancelled, lanes, lastProducer, timers, due, executed, phase, shuttingDown>>

\* Mutation: a timer that fell due already is not marked.
StopWaiting(t) ==
    /\ t \in refs
    /\ cancelled' = cancelled \cup ({t} \ ToSet(due))
    /\ Release({t})
    /\ refs' = refs \ {t}
    /\ live' = live \ {t}
    /\ ran' = {}
    /\ UNCHANGED <<inbox, lanes, lastProducer, timers, due, executed, phase, shuttingDown>>

(* stopEvent: the slot is free at once, the entry stays where it is until  *)
(* its time and is passed over then.                                       *)
Stop(t) ==
    /\ t \in refs
    /\ cancelled' = cancelled \cup {t}
    /\ Release({t})
    /\ refs' = refs \ {t}
    /\ live' = live \ {t}
    /\ ran' = {}
    /\ UNCHANGED <<inbox, lanes, lastProducer, timers, due, executed, phase, shuttingDown>>

FallsDue(t) ==
    /\ t \in timers
    /\ timers' = timers \ {t}
    /\ due' = Append(due, t)
    /\ ran' = {}
    /\ UNCHANGED <<slots, marks, live, inbox, lanes, lastProducer, executed, phase, shuttingDown>>

Shutdown ==
    /\ ~shuttingDown
    /\ shuttingDown' = TRUE
    /\ ran' = {}
    /\ UNCHANGED <<slots, marks, live, inbox, lanes, lastProducer, timers, due, executed, phase>>

-----------------------------------------------------------------------------
(* mergeEvents, of one thread's queue.                                     *)
Of(l) == {t \in Task : LaneOf[t] = l}

\* The tasks of a queue that are in S, in their order.
Keep(tasks, S) ==
    LET kept[n \in 0 .. Len(tasks)] ==
            IF n = 0 THEN <<>>
            ELSE IF tasks[n] \in S THEN Append(kept[n - 1], tasks[n])
            ELSE kept[n - 1]
    IN  kept[Len(tasks)]

Plain(tasks, l) == Keep(tasks, Of(l) \ Timed)

MergeThread(h) ==
    /\ phase \in {"merge", "execute"}
    /\ inbox[h] # <<>>
    /\ inbox' = [inbox EXCEPT ![h] = <<>>]
    /\ lanes' = [l \in Lane |-> lanes[l] \o Plain(inbox[h], l)]
    /\ timers' = timers \cup (ToSet(inbox[h]) \cap Timed)
    /\ ran' = {}
    /\ UNCHANGED <<slots, marks, live, lastProducer, due, executed, phase, shuttingDown>>

(* The loop condition, asked at the start of a pass; the queues are merged *)
(* then.                                                                   *)
BeginPass ==
    /\ phase = "merge"
    /\ shuttingDown \/ \A h \in Thread : inbox[h] = <<>>
    /\ phase' = IF shuttingDown THEN "gone" ELSE "promote"
    /\ ran' = {}
    /\ UNCHANGED <<slots, marks, live, inbox, lanes, lastProducer, timers, due, executed, shuttingDown>>

(* promoteScheduledEvents; a promoted timer takes no slot of its own.      *)
Promote ==
    /\ phase = "promote"
    /\ lanes' = [l \in Lane |-> lanes[l] \o Keep(due, Of(l))]
    /\ due' = <<>>
    /\ executed' = [l \in Lane |-> 0]
    /\ phase' = "execute"
    /\ ran' = {}
    /\ UNCHANGED <<slots, marks, live, inbox, lastProducer, timers, shuttingDown>>

-----------------------------------------------------------------------------
Token(l, i) == ProducerOf[lanes[l][i]]

NextRound(l) ==
    LET later == {i \in DOMAIN lanes[l] : Token(l, i) > lastProducer[l]}
    IN  IF later # {} THEN later ELSE DOMAIN lanes[l]

\* Mutation: the order of the tokens does not go around.
LowestTokenFirst(l) ==
    CHOOSE i \in DOMAIN lanes[l] : \A j \in DOMAIN lanes[l] :
        Token(l, i) < Token(l, j) \/ (Token(l, i) = Token(l, j) /\ i <= j)

\* Mutation: the last task of the producer.
LatestOfProducer(l) ==
    CHOOSE i \in NextRound(l) :
        \A j \in NextRound(l) : Token(l, i) < Token(l, j) \/ (Token(l, i) = Token(l, j) /\ i >= j)

(* selectProducerFairIndex: the first task of the next producer that has   *)
(* one, in the order of the tokens, around from the last one served.       *)
FairIndex(l) ==
    CHOOSE i \in NextRound(l) :
        \A j \in NextRound(l) : Token(l, i) < Token(l, j) \/ (Token(l, i) = Token(l, j) /\ i <= j)

NextIndex(l) == IF l \in Fair THEN FairIndex(l) ELSE 1

(* A plain task, and a timer that does not repeat, give their slot back    *)
(* before they run; a cancelled timer runs nothing.                        *)
RunOnce(t) ==
    /\ t \notin Cycle
    /\ Release({t})
    /\ refs' = refs \ {t}
    /\ cancelled' = cancelled \ {t}
    /\ ran' = {t} \ cancelled
    /\ live' = live \ ran'
    /\ UNCHANGED timers

(* A cycle keeps its slot and goes back among the timers, unless it was    *)
(* stopped, before or by itself while it ran.                              *)
RunCycle(t) ==
    /\ t \in Cycle
    /\ \/ /\ t \notin cancelled
          /\ timers' = timers \cup {t}
          /\ UNCHANGED <<slots, refs, live>>
       \/ /\ Release({t})
          /\ refs' = refs \ {t}
          /\ live' = live \ {t}
          /\ UNCHANGED timers
    /\ cancelled' = cancelled \ {t}
    /\ ran' = {t} \ cancelled

HasBudget(l) == lanes[l] # <<>> /\ executed[l] < LaneBudget

(* executeSerialLane runs one task of lane l; a background lane may be cut *)
(* short for the rest of the pass.                                         *)
Serve(l) ==
    /\ phase = "execute"
    /\ l \notin Parallel
    /\ HasBudget(l)
    /\ LET t == lanes[l][NextIndex(l)]
       IN  /\ lanes' = [lanes EXCEPT ![l] = RemoveAt(@, NextIndex(l))]
           /\ lastProducer' = [lastProducer EXCEPT ![l] = ProducerOf[t]]
           /\ RunOnce(t) \/ RunCycle(t)
    /\ \/ executed' = [executed EXCEPT ![l] = @ + 1]
       \/ l \in Background /\ executed' = [executed EXCEPT ![l] = LaneBudget]
    /\ UNCHANGED <<inbox, due, phase, shuttingDown>>

(* executeBarrierLane gives back the slots of a batch and runs it at once. *)
ServeBarrier(l, n) ==
    /\ phase = "execute"
    /\ l \in Parallel
    /\ HasBudget(l)
    /\ n <= Len(lanes[l]) /\ n <= LaneBudget - executed[l]
    /\ LET batch == ToSet(SubSeq(lanes[l], 1, n))
       IN  Release(batch) /\ ran' = batch /\ live' = live \ batch
    /\ lanes' = [lanes EXCEPT ![l] = SubSeq(@, n + 1, Len(@))]
    /\ executed' = [executed EXCEPT ![l] = @ + n]
    /\ UNCHANGED <<marks, inbox, lastProducer, timers, due, phase, shuttingDown>>

(* executeReadyEvents ends when no lane with tasks has budget left.        *)
EndPass ==
    /\ phase = "execute"
    /\ \A l \in Lane : ~HasBudget(l)
    /\ phase' = "merge"
    /\ ran' = {}
    /\ UNCHANGED <<slots, marks, live, inbox, lanes, lastProducer, timers, due, executed, shuttingDown>>

-----------------------------------------------------------------------------
Pass ==
    \/ BeginPass
    \/ Promote
    \/ \E l \in Lane : Serve(l) \/ (\E n \in 1 .. LaneBudget : ServeBarrier(l, n))
    \/ EndPass

Next ==
    \/ \E h \in Thread, t \in Task : Post(h, t)
    \/ \E t \in Task : Stop(t) \/ FallsDue(t)
    \/ \E h \in Thread : MergeThread(h)
    \/ Shutdown
    \/ Pass

Spec == Init /\ [][Next]_vars

(* The dispatcher thread runs on and time passes.  Nobody is bound to post,*)
(* to stop a timer or to shut down.                                        *)
Fairness ==
    /\ WF_vars(Pass)
    /\ \A h \in Thread : WF_vars(MergeThread(h))
    /\ \A t \in Task : WF_vars(FallsDue(t))

FairSpec == Spec /\ Fairness

-----------------------------------------------------------------------------
(* The admission counter of a lane counts the tasks that hold a slot of    *)
(* it and stays within its capacity: the assert of releaseLaneSlot holds.  *)
SlotsCounted ==
    \A l \in Lane : /\ reserved[l] = Cardinality({t \in holding : LaneOf[t] = l})
                    /\ reserved[l] <= LaneCapacity

(* A task holds a slot from its admission until it runs or is stopped, a   *)
(* cycle until it is stopped: no lane fills up with slots of tasks that    *)
(* are gone, and nothing is queued beyond the slots.                       *)
SlotsExact ==
    /\ SlotsCounted
    /\ holding = Queued \ cancelled
    /\ refs = holding \cap Timed

(* A task that was stopped does not run any more, even one that was due or *)
(* promoted when it was stopped, and nothing runs that was not accepted or *)
(* runs twice for one acceptance; and what may still run is still queued:  *)
(* none is passed over because of a mark that was meant for another.  What *)
(* was stopped is remembered apart from the marks and the slots, which the *)
(* code sets and clears in other steps.                                    *)
StoppedNeverRuns ==
    /\ [](live \subseteq Queued)
    /\ [][ran' \subseteq live]_vars

(* Tasks of one producer run in the order in which they reached the lane.  *)
Before(t, l) == {lanes[l][i] : i \in {j \in DOMAIN lanes[l] : \E k \in DOMAIN lanes[l] :
                                          j < k /\ lanes[l][k] = t}}

ProducerOrder ==
    [][\A l \in Lane : \A t \in ran' \cap ToSet(lanes[l]) :
          \A u \in Before(t, l) : ProducerOf[u] = ProducerOf[t] => u \notin ToSet(lanes'[l])]_vars

(* Whatever was accepted runs, expires or is stopped, however busy its     *)
(* lane or another producer is, unless the server shuts down.              *)
AcceptedRuns ==
    \A t \in Task : t \in holding \ Cycle ~> (t \notin holding \/ shuttingDown)
=============================================================================
