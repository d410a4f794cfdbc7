-------------------------- MODULE DispatcherWakeup --------------------------
(***************************************************************************)
(* How the dispatcher thread falls asleep and is woken (dispatcher.cpp,    *)
(* dispatcher.hpp).  Threads publish tasks into queues of their own under  *)
(* the mutex of that queue and raise two atomic flags; the compute service *)
(* notifies without any of these mutexes; the dispatcher merges the queues,*)
(* runs its lanes, lowers one flag, looks around once more and sleeps.     *)
(* An action is one access to what the threads share.                      *)
(*                                                                         *)
(* The dispatcher holds dummyMutex except while it sleeps, but notify does *)
(* not take it: a signal may fall between the last test and the sleep.     *)
(* How many tasks there are does not matter here, only whether there are   *)
(* any; DispatcherLanes is about the tasks.  The two share no names, so    *)
(* that DispatcherProofs can extend both.                                  *)
(***************************************************************************)
EXTENDS Naturals

CONSTANTS Publisher,  \* the threads that publish tasks
          Slices      \* how many slices the budgets give a kind of work in a pass

ASSUME WakeupAssumption == Publisher # {} /\ Slices \in Nat \ {0}

\* What a slice runs: tasks of the lanes, or completions.
Kinds == {"tasks", "completions"}

VARIABLES
    inboxes,       \* the threads that have tasks not merged yet
    step,          \* where each thread is in addEvent or scheduleEvent
    unmerged,      \* hasUnmergedEvents
    pending,       \* hasPendingTasks
    closing,       \* shuttingDown
    completions,   \* the compute service has completions ready
    worker,        \* where its worker is in enqueueCompletion
    timerDue,      \* the first timer is due
    laneReady,     \* some lane of m_tasks has tasks
    budget,        \* the slices left to each kind of work in this pass
    stage,         \* where the dispatcher thread is in its loop
    todo           \* threads left to merge or to look at

flags == <<unmerged, pending, closing>>
compute == <<completions, worker>>
queues == <<inboxes, laneReady, timerDue>>
loop == <<stage, todo, budget>>
wakeupVars == <<flags, step, compute, queues, loop>>

MergeStages == {"merge", "mergeAgain", "mergeEnd"}

Stages == {"begin", "promote", "execute", "again", "end", "promoteEnd", "clear", "look",
           "lookAround", "raise", "test", "drowsy", "asleep", "gone"} \cup MergeStages

WakeupTypeOK ==
    /\ inboxes \subseteq Publisher
    /\ step \in [Publisher -> {"idle", "published", "flagged", "raising", "signalling"}]
    /\ unmerged \in BOOLEAN /\ pending \in BOOLEAN /\ closing \in BOOLEAN
    /\ completions \in BOOLEAN /\ timerDue \in BOOLEAN
    /\ worker \in {"idle", "completed", "raising", "signalling"}
    /\ laneReady \in BOOLEAN
    /\ stage \in Stages
    /\ todo \subseteq Publisher
    /\ budget \in [Kinds -> 0 .. Slices]

WakeupInit ==
    /\ inboxes = {}
    /\ step = [h \in Publisher |-> "idle"]
    /\ unmerged = FALSE /\ pending = FALSE /\ closing = FALSE
    /\ completions = FALSE /\ worker = "idle"
    /\ timerDue = FALSE
    /\ laneReady = FALSE
    /\ stage = "begin" /\ todo = {}
    /\ budget = [k \in Kinds |-> Slices]

-----------------------------------------------------------------------------
(* addEvent, scheduleEvent and their kin.  The thread locks its queue and  *)
(* puts the task there; it holds the mutex until notify has returned.      *)
Locked(h) == step[h] # "idle"

Publish(h) ==
    /\ ~Locked(h)
    /\ ~closing
    /\ inboxes' = inboxes \cup {h}
    /\ step' = [step EXCEPT ![h] = "published"]
    /\ UNCHANGED <<flags, compute, laneReady, timerDue, loop>>

\* Mutation: publishing does not ask for a merge.
RaiseNothing(h) ==
    /\ step[h] = "published"
    /\ step' = [step EXCEPT ![h] = "flagged"]
    /\ UNCHANGED <<flags, compute, queues, loop>>

(* notifyThreadTaskPublished raises the flag of the merge,                 *)
RaiseUnmerged(h) ==
    /\ step[h] = "published"
    /\ step' = [step EXCEPT ![h] = "flagged"]
    /\ unmerged' = TRUE
    /\ UNCHANGED <<pending, closing, compute, queues, loop>>

(* then notify loads the other.  Only who finds it down stores TRUE and    *)
(* signals: the load and the store are two accesses, and several threads   *)
(* may find it down.                                                       *)
AfterLoad == IF pending THEN "idle" ELSE "raising"

Notify(h) ==
    /\ step[h] = "flagged"
    /\ step' = [step EXCEPT ![h] = AfterLoad]
    /\ UNCHANGED <<flags, compute, queues, loop>>

Raise(h) ==
    /\ step[h] = "raising"
    /\ step' = [step EXCEPT ![h] = "signalling"]
    /\ pending' = TRUE
    /\ UNCHANGED <<unmerged, closing, compute, queues, loop>>

(* notify_one makes the dispatcher test its predicate again if it sleeps;  *)
(* otherwise the signal is lost.                                           *)
Signalled == stage' = IF stage = "asleep" THEN "test" ELSE stage

Signal(h) ==
    /\ step[h] = "signalling"
    /\ step' = [step EXCEPT ![h] = "idle"]
    /\ Signalled
    /\ UNCHANGED <<flags, compute, queues, todo, budget>>

(* A worker of the compute service enqueues a completion and calls the     *)
(* notifier, which is notify.                                              *)
WorkerCompletes ==
    /\ worker = "idle"
    /\ worker' = "completed"
    /\ completions' = TRUE
    /\ UNCHANGED <<flags, step, queues, loop>>

WorkerNotifies ==
    /\ worker = "completed"
    /\ worker' = AfterLoad
    /\ UNCHANGED <<flags, step, completions, queues, loop>>

WorkerRaises ==
    /\ worker = "raising"
    /\ worker' = "signalling"
    /\ pending' = TRUE
    /\ UNCHANGED <<unmerged, closing, step, completions, queues, loop>>

WorkerSignals ==
    /\ worker = "signalling"
    /\ worker' = "idle"
    /\ Signalled
    /\ UNCHANGED <<flags, step, completions, queues, todo, budget>>

(* The server always has a timer armed (the recurring events of the game), *)
(* and there is a time when it is due.                                     *)
TimerFallsDue ==
    /\ ~timerDue
    /\ timerDue' = TRUE
    /\ UNCHANGED <<flags, step, compute, inboxes, laneReady, loop>>

(* shutdown: the flag, then notify_all.                                    *)
RaiseShutdown ==
    /\ ~closing
    /\ closing' = TRUE
    /\ Signalled
    /\ UNCHANGED <<unmerged, pending, step, compute, queues, todo, budget>>

-----------------------------------------------------------------------------
(* mergeEvents at one of its three places in a pass: the flag is lowered   *)
(* before the queues are emptied, each under its mutex.                    *)
MergeFlag(from, merging, after) ==
    /\ stage = from
    /\ unmerged' = FALSE
    /\ stage' = IF unmerged THEN merging ELSE after
    /\ todo' = IF unmerged THEN Publisher ELSE {}
    /\ UNCHANGED <<pending, closing, step, compute, queues, budget>>

\* Mutation: the flag is lowered again once the queues are empty.
LowerAfterwards(h, merging, after) ==
    /\ stage = merging
    /\ h \in todo
    /\ ~Locked(h)
    /\ laneReady' = (laneReady \/ h \in inboxes)
    /\ inboxes' = inboxes \ {h}
    /\ todo' = todo \ {h}
    /\ stage' = IF todo = {h} THEN after ELSE stage
    /\ unmerged' = (unmerged /\ todo # {h})
    /\ UNCHANGED <<pending, closing, step, compute, timerDue, budget>>

MergeInbox(h, merging, after) ==
    /\ stage = merging
    /\ h \in todo
    /\ ~Locked(h)
    /\ laneReady' = (laneReady \/ h \in inboxes)
    /\ inboxes' = inboxes \ {h}
    /\ todo' = todo \ {h}
    /\ stage' = IF todo = {h} THEN after ELSE stage
    /\ UNCHANGED <<flags, step, compute, timerDue, budget>>

MergeQueue(h) ==
    \/ MergeInbox(h, "merge", "promote")
    \/ MergeInbox(h, "mergeAgain", "execute")
    \/ MergeInbox(h, "mergeEnd", "promoteEnd")

MergeEvents ==
    \/ MergeFlag("begin", "merge", "promote")
    \/ MergeFlag("again", "mergeAgain", "execute")
    \/ MergeFlag("end", "mergeEnd", "promoteEnd")
    \/ \E h \in Publisher : MergeQueue(h)

(* promoteScheduledEvents: the timer is moved into its lane.               *)
PromoteScheduledEvents ==
    /\ stage \in {"promote", "promoteEnd"}
    /\ laneReady' = (laneReady \/ timerDue)
    /\ timerDue' = FALSE
    /\ stage' = IF stage = "promote" THEN "execute" ELSE "clear"
    /\ UNCHANGED <<flags, step, compute, inboxes, todo, budget>>

(* executeReadyEvents: slices, each followed by a merge, until what is     *)
(* ready has used up its budget.  A slice may leave some of what is ready,  *)
(* and a slice of tasks may be the last of its lane in this pass.          *)
Ready(k) == (IF k = "tasks" THEN laneReady ELSE completions) /\ budget[k] > 0

SliceOfTasks ==
    /\ stage = "execute"
    /\ Ready("tasks")
    /\ laneReady' \in BOOLEAN
    /\ \E left \in {0, budget["tasks"] - 1} : budget' = [budget EXCEPT !["tasks"] = left]
    /\ stage' = "again"
    /\ UNCHANGED <<flags, step, compute, inboxes, timerDue, todo>>

SliceOfCompletions ==
    /\ stage = "execute"
    /\ Ready("completions")
    /\ completions' \in BOOLEAN
    /\ budget' = [budget EXCEPT !["completions"] = @ - 1]
    /\ stage' = "again"
    /\ UNCHANGED <<flags, step, worker, queues, todo>>

\* Mutation: the pass ends when the lanes are empty.
PassEndsEarly ==
    /\ stage = "execute"
    /\ ~Ready("tasks")
    /\ stage' = "end"
    /\ budget' = [k \in Kinds |-> Slices]
    /\ UNCHANGED <<flags, step, compute, queues, todo>>

PassEnds ==
    /\ stage = "execute"
    /\ \A k \in Kinds : ~Ready(k)
    /\ stage' = "end"
    /\ budget' = [k \in Kinds |-> Slices]
    /\ UNCHANGED <<flags, step, compute, queues, todo>>

(* checkPendingTasks: the flag is lowered, then come the completions and   *)
(* the lanes, then every queue under its mutex.                            *)
LowerPending ==
    /\ stage = "clear"
    /\ pending' = FALSE
    /\ stage' = "look"
    /\ UNCHANGED <<unmerged, closing, step, compute, queues, todo, budget>>

\* Mutation: the last look forgets the completions.
LookAtLanes ==
    /\ stage = "look"
    /\ stage' = IF laneReady THEN "raise" ELSE "lookAround"
    /\ todo' = Publisher
    /\ UNCHANGED <<flags, step, compute, queues, budget>>

Look ==
    /\ stage = "look"
    /\ stage' = IF completions \/ laneReady THEN "raise" ELSE "lookAround"
    /\ todo' = Publisher
    /\ UNCHANGED <<flags, step, compute, queues, budget>>

LookAt(h) ==
    /\ stage = "lookAround"
    /\ h \in todo
    /\ ~Locked(h)
    /\ todo' = todo \ {h}
    /\ stage' = CASE h \in inboxes -> "raise"
                  [] h \notin inboxes /\ todo = {h} -> "test"
                  [] OTHER -> stage
    /\ UNCHANGED <<flags, step, compute, queues, budget>>

RaisePending ==
    /\ stage = "raise"
    /\ pending' = TRUE
    /\ stage' = "test"
    /\ UNCHANGED <<unmerged, closing, step, compute, queues, todo, budget>>

\* Mutation: only who is about to sleep asks whether the server shuts down.
TestPendingOnly ==
    /\ stage = "test"
    /\ stage' = IF pending THEN "begin" ELSE IF closing THEN "gone" ELSE "drowsy"
    /\ UNCHANGED <<flags, step, compute, queues, todo, budget>>

(* The test of the flag, the predicate of wait_for and the loop condition. *)
Test ==
    /\ stage = "test"
    /\ stage' = IF closing THEN "gone" ELSE IF pending THEN "begin" ELSE "drowsy"
    /\ UNCHANGED <<flags, step, compute, queues, todo, budget>>

(* The predicate was false; whatever was raised since, the thread sleeps.  *)
FallAsleep ==
    /\ stage = "drowsy"
    /\ stage' = "asleep"
    /\ UNCHANGED <<flags, step, compute, queues, todo, budget>>

(* wait_for ends when the first timer is due.                              *)
TimeOut ==
    /\ stage = "asleep"
    /\ timerDue
    /\ stage' = IF closing THEN "gone" ELSE "begin"
    /\ UNCHANGED <<flags, step, compute, queues, todo, budget>>

-----------------------------------------------------------------------------
Loop ==
    \/ MergeEvents
    \/ PromoteScheduledEvents
    \/ SliceOfTasks
    \/ SliceOfCompletions
    \/ PassEnds
    \/ LowerPending
    \/ Look
    \/ \E h \in Publisher : LookAt(h)
    \/ RaisePending
    \/ Test
    \/ FallAsleep
    \/ TimeOut

GoesOn(h) == RaiseUnmerged(h) \/ Notify(h) \/ Raise(h) \/ Signal(h)

WakeupNext ==
    \/ \E h \in Publisher : Publish(h) \/ GoesOn(h)
    \/ WorkerCompletes
    \/ WorkerNotifies
    \/ WorkerRaises
    \/ WorkerSignals
    \/ TimerFallsDue
    \/ RaiseShutdown
    \/ Loop

WakeupSpec == WakeupInit /\ [][WakeupNext]_wakeupVars

(* The dispatcher thread runs on, who is inside addEvent or notify goes on,*)
(* and time passes.  Nobody is bound to publish or to shut down.  A queue's*)
(* mutex is contended by two threads at most, and who waits for it gets it.*)
WakeupFairness ==
    /\ WF_wakeupVars(Loop)
    /\ \A h \in Publisher : WF_wakeupVars(GoesOn(h))
    /\ \A h \in Publisher : SF_wakeupVars(MergeQueue(h) \/ LookAt(h))
    /\ WF_wakeupVars(WorkerNotifies \/ WorkerRaises \/ WorkerSignals)
    /\ WF_wakeupVars(TimerFallsDue)

FairWakeupSpec == WakeupSpec /\ WakeupFairness

-----------------------------------------------------------------------------
(* Nobody sleeps over work: when the dispatcher sleeps, or is about to,    *)
(* and the pending flag is down, its lanes are empty, and whatever was     *)
(* published or completed is about to be notified.  With the flag up it    *)
(* sleeps only if a signal fell between its last test and its sleep.       *)
SleepsOverNothing ==
    stage \in {"drowsy", "asleep"} /\ ~pending =>
        /\ ~laneReady
        /\ \A h \in inboxes : step[h] \in {"published", "flagged", "raising"}
        /\ completions => worker \in {"completed", "raising"}

(* The merge overlooks no queue: while one is not empty the flag is up, or *)
(* the merge has yet to come to it, or the flag is about to be raised.     *)
FlagCoversInbox ==
    \A h \in inboxes :
        \/ unmerged
        \/ stage \in MergeStages /\ h \in todo
        \/ step[h] = "published"

(* What is published is merged, although a signal may be lost: a timer     *)
(* ends every sleep.                                                       *)
PublishedIsMerged ==
    \A h \in Publisher : h \in inboxes ~> (h \notin inboxes \/ stage = "gone")

(* Completions are taken in a pass, or already were in the current one,    *)
(* also when the worker that brought them found the flag up and sent no    *)
(* signal.                                                                 *)
CompletionsAreTaken ==
    completions ~> (~completions \/ budget["completions"] < Slices \/ stage = "gone")

(* shutdown ends the loop, even when its signal is lost.                   *)
ShutdownIsSeen == closing ~> stage = "gone"
=============================================================================
