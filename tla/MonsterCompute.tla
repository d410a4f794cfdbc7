--------------------------- MODULE MonsterCompute ---------------------------
(***************************************************************************)
(* The service that computes for monsters beside the dispatcher            *)
(* (monster_compute_service.cpp): the dispatcher's thread submits requests *)
(* of two priorities, workers run them, and the same thread drains the     *)
(* completions and runs them.  One mutex guards the state; an action is    *)
(* one section under that mutex, or one call made between two of them.     *)
(*                                                                         *)
(* A queue is first in, first out and its entries differ only in their     *)
(* priority here, so a queue of one priority is its length.  Left out: the *)
(* tokens and statistics, which nothing in the service reads back, and     *)
(* what the work computes.  A start whose thread creation fails ends in    *)
(* the state it began in and is not a step.                                *)
(***************************************************************************)
EXTENDS Naturals, Sequences, FiniteSets

CONSTANTS Worker,     \* the threads of the service
          Caller,     \* runs the work itself when the host is too small
          Idle,       \* what a thread runs that runs no request
          Capacity,   \* config.capacity after the clamp
          DrainLimit  \* the most completions one drain asks for

Priority == {"visible", "background"}
Thread == Worker \cup {Caller}

ASSUME ComputeAssumption ==
    /\ Capacity \in Nat \ {0}
    /\ DrainLimit \in Nat \ {0}
    /\ IsFiniteSet(Worker)
    /\ Caller \notin Worker
    /\ Idle \notin Priority

\* Background requests leave this much of the capacity to visible ones.
VisibleReserve == Capacity \div 4

VARIABLES
    state,                \* "stopped", "running" or "stopping"
    inlineMode,           \* no workers: the caller of submit runs the work
    stopper,              \* where the call of shutdown is
    requests,             \* sizes of visibleRequests and backgroundRequests
    streak,               \* visibleStreak
    completions,          \* sizes of visibleCompletions, backgroundCompletions
    completionStreak,     \* completionVisibleStreak
    active,               \* the priority of the request each thread runs
    outstanding,          \* the counter of that name
    outstandingOf,        \* visibleOutstanding, backgroundOutstanding
    activeRequests,       \* the counter of that name
    completionsInFlight,  \* the counter of that name
    alive,                \* worker threads that have not returned
    waiting,              \* worker threads asleep on workAvailable
    notifying,            \* submit has yet to call notify_one
    taking,               \* completions the drain still takes under the mutex
    pending,              \* the batch the drain has taken
    at                    \* the first of the batch that has not run

service == <<state, inlineMode, stopper>>
queues == <<requests, streak, completions, completionStreak>>
counters == <<outstanding, outstandingOf, activeRequests, completionsInFlight>>
threads == <<alive, waiting, notifying>>
drain == <<taking, pending, at>>
vars == <<service, queues, active, counters, threads, drain>>

TypeOK ==
    /\ state \in {"stopped", "running", "stopping"}
    /\ inlineMode \in BOOLEAN
    /\ stopper \in {"none", "waking", "joining"}
    /\ requests \in [Priority -> Nat]
    /\ completions \in [Priority -> Nat]
    /\ streak \in 0 .. 3
    /\ completionStreak \in 0 .. 3
    /\ active \in [Thread -> Priority \cup {Idle}]
    /\ outstanding \in Nat
    /\ outstandingOf \in [Priority -> Nat]
    /\ activeRequests \in Nat
    /\ completionsInFlight \in Nat
    /\ alive \subseteq Worker
    /\ waiting \subseteq alive
    /\ notifying \in BOOLEAN
    /\ taking \in Nat
    /\ pending \in Seq(Priority)
    /\ at \in 1 .. Len(pending) + 1

Init ==
    /\ state = "stopped"
    /\ inlineMode = TRUE
    /\ stopper = "none"
    /\ requests = [p \in Priority |-> 0]
    /\ completions = [p \in Priority |-> 0]
    /\ streak = 0
    /\ completionStreak = 0
    /\ active = [h \in Thread |-> Idle]
    /\ outstanding = 0
    /\ outstandingOf = [p \in Priority |-> 0]
    /\ activeRequests = 0
    /\ completionsInFlight = 0
    /\ alive = {}
    /\ waiting = {}
    /\ notifying = FALSE
    /\ taking = 0
    /\ pending = <<>>
    /\ at = 1

-----------------------------------------------------------------------------
MutexFree == taking = 0

\* Only the dispatcher's thread submits and drains.  A completion that it runs
\* may submit, so a batch under way does not keep it from submitting.
DispatcherFree == ~notifying /\ active[Caller] = Idle

Both(size) == size["visible"] + size["background"]

\* Mutation: visible entries first, however many there were.
VisibleFirst(size, run) == IF size["visible"] > 0 THEN "visible" ELSE "background"

(* selectNextPriority: visible first, but after three of them in a row a   *)
(* background entry that is there.                                         *)
Selected(size, run) ==
    IF size["visible"] > 0 /\ (size["background"] = 0 \/ run < 3)
    THEN "visible" ELSE "background"

StreakAfter(size, run) ==
    CASE Selected(size, run) = "background" -> 0
      [] OTHER -> IF run < 3 THEN run + 1 ELSE 3

(* start: the workers come up while the mutex is held, so none of them has *)
(* run before state says Running; few says that the host has too few cores *)
(* for a worker (resolveWorkerCount).                                      *)
Start(few) ==
    /\ MutexFree
    /\ state = "stopped"
    /\ state' = "running"
    /\ inlineMode' = few
    /\ alive' = IF few THEN {} ELSE Worker
    /\ streak' = 0
    /\ completionStreak' = 0
    /\ UNCHANGED <<stopper, requests, completions, active, counters, waiting, notifying, drain>>

\* Mutations: no place is kept for visible requests; one request too many.
Unreserved(p) == outstanding < Capacity

Overfull(p) ==
    /\ outstanding <= Capacity
    /\ p = "background" => outstandingOf[p] < Capacity - VisibleReserve

HasRoom(p) ==
    /\ outstanding < Capacity
    /\ p = "background" => outstandingOf[p] < Capacity - VisibleReserve

\* Mutation: requests are accepted as long as the service is not stopped.
AcceptingWhileUp == state # "stopped"

Accepting == state = "running"

(* submit, up to its unlock; the refusals change nothing.                  *)
Submit(p) ==
    /\ MutexFree
    /\ DispatcherFree
    /\ Accepting
    /\ HasRoom(p)
    /\ outstanding' = outstanding + 1
    /\ outstandingOf' = [outstandingOf EXCEPT ![p] = @ + 1]
    /\ \/ /\ inlineMode
          /\ active' = [active EXCEPT ![Caller] = p]
          /\ activeRequests' = activeRequests + 1
          /\ UNCHANGED <<requests, notifying>>
       \/ /\ ~inlineMode
          /\ requests' = [requests EXCEPT ![p] = @ + 1]
          /\ notifying' = TRUE
          /\ UNCHANGED <<active, activeRequests>>
    /\ UNCHANGED <<service, streak, completions, completionStreak, completionsInFlight,
                   alive, waiting, drain>>

(* submit, after its unlock: workAvailable.notify_one().                   *)
NotifyOne ==
    /\ notifying
    /\ notifying' = FALSE
    /\ \/ waiting = {} /\ UNCHANGED waiting
       \/ \E w \in waiting : waiting' = waiting \ {w}
    /\ UNCHANGED <<service, queues, active, counters, alive, drain>>

-----------------------------------------------------------------------------
(* workerLoop under the mutex: a worker that is awake and idle leaves,     *)
(* falls asleep or takes a request (popNextRequest).                       *)
Awake(w) == MutexFree /\ w \in alive \ waiting /\ active[w] = Idle

WorkerExits(w) ==
    /\ Awake(w)
    /\ state # "running"
    /\ alive' = alive \ {w}
    /\ UNCHANGED <<service, queues, active, counters, waiting, notifying, drain>>

WorkerSleeps(w) ==
    /\ Awake(w)
    /\ state = "running"
    /\ Both(requests) = 0
    /\ waiting' = waiting \cup {w}
    /\ UNCHANGED <<service, queues, active, counters, alive, notifying, drain>>

WorkerTakes(w, p) ==
    /\ Awake(w)
    /\ state = "running"
    /\ Both(requests) > 0
    /\ p = Selected(requests, streak)
    /\ requests' = [requests EXCEPT ![p] = @ - 1]
    /\ streak' = StreakAfter(requests, streak)
    /\ active' = [active EXCEPT ![w] = p]
    /\ activeRequests' = activeRequests + 1
    /\ UNCHANGED <<service, completions, completionStreak, outstanding, outstandingOf,
                   completionsInFlight, threads, drain>>

\* Mutation: the thread stays counted as active.
CompleteStaysActive(h) ==
    /\ MutexFree
    /\ active[h] # Idle
    /\ completions' = [completions EXCEPT ![active[h]] = @ + 1]
    /\ active' = [active EXCEPT ![h] = Idle]
    /\ UNCHANGED <<service, requests, streak, completionStreak, counters, threads, drain>>

(* executeRequest and enqueueCompletion: work that throws is completed     *)
(* with its failure completion, so both ends of the work are this step.    *)
Complete(h) ==
    /\ MutexFree
    /\ active[h] # Idle
    /\ completions' = [completions EXCEPT ![active[h]] = @ + 1]
    /\ active' = [active EXCEPT ![h] = Idle]
    /\ activeRequests' = activeRequests - 1
    /\ UNCHANGED <<service, requests, streak, completionStreak, outstanding, outstandingOf,
                   completionsInFlight, threads, drain>>

-----------------------------------------------------------------------------
(* drainCompletions takes its batch under the mutex, one completion after  *)
(* the other; DrainBegin locks and the last DrainTake unlocks.             *)
DrainBegin(limit) ==
    /\ MutexFree
    /\ DispatcherFree
    /\ pending = <<>>
    /\ Both(completions) > 0
    /\ taking' = IF limit < Both(completions) THEN limit ELSE Both(completions)
    /\ UNCHANGED <<service, queues, active, counters, threads, pending, at>>

DrainTake(p) ==
    /\ taking > 0
    /\ p = Selected(completions, completionStreak)
    /\ completions' = [completions EXCEPT ![p] = @ - 1]
    /\ completionStreak' = StreakAfter(completions, completionStreak)
    /\ pending' = Append(pending, p)
    /\ taking' = taking - 1
    /\ completionsInFlight' = completionsInFlight + (IF taking = 1 THEN Len(pending) + 1 ELSE 0)
    /\ UNCHANGED <<service, requests, streak, active, outstanding, outstandingOf,
                   activeRequests, threads, at>>

(* The loop over the batch: the completion runs without the mutex, an      *)
(* exception it throws is only counted, then the counters go down.         *)
Deliver ==
    /\ MutexFree
    /\ DispatcherFree
    /\ at <= Len(pending)
    /\ outstanding' = outstanding - 1
    /\ outstandingOf' = [outstandingOf EXCEPT ![pending[at]] = @ - 1]
    /\ completionsInFlight' = completionsInFlight - 1
    /\ IF at = Len(pending)
       THEN pending' = <<>> /\ at' = 1
       ELSE pending' = pending /\ at' = at + 1
    /\ UNCHANGED <<service, queues, active, activeRequests, threads, taking>>

-----------------------------------------------------------------------------
(* shutdown, its first section; a second caller waits for the first.       *)
StopBegin ==
    /\ MutexFree
    /\ state = "running"
    /\ state' = "stopping"
    /\ stopper' = "waking"
    /\ outstanding' = outstanding - Both(requests)
    /\ outstandingOf' = [p \in Priority |-> outstandingOf[p] - requests[p]]
    /\ requests' = [p \in Priority |-> 0]
    /\ UNCHANGED <<inlineMode, streak, completions, completionStreak, active,
                   activeRequests, completionsInFlight, threads, drain>>

(* request_stop on every worker and workAvailable.notify_all().            *)
StopWakes ==
    /\ stopper = "waking"
    /\ stopper' = "joining"
    /\ waiting' = {}
    /\ UNCHANGED <<state, inlineMode, queues, active, counters, alive, notifying, drain>>

\* Mutation: shutdown does not wait for the batch of the drain.
Impatient ==
    /\ MutexFree
    /\ stopper = "joining"
    /\ alive = {}
    /\ activeRequests = 0

(* shutdown, its last section: once the workers are joined and nothing     *)
(* runs, the completions that nobody drained are discarded.                *)
Quiet ==
    /\ MutexFree
    /\ stopper = "joining"
    /\ alive = {}
    /\ activeRequests = 0
    /\ completionsInFlight = 0

StopEnd ==
    /\ Quiet
    /\ state' = "stopped"
    /\ stopper' = "none"
    /\ outstanding' = outstanding - Both(completions)
    /\ outstandingOf' = [p \in Priority |-> outstandingOf[p] - completions[p]]
    /\ completions' = [p \in Priority |-> 0]
    /\ UNCHANGED <<inlineMode, requests, streak, completionStreak, active,
                   activeRequests, completionsInFlight, threads, drain>>

WorkerStep(w) ==
    \/ WorkerExits(w)
    \/ WorkerSleeps(w)
    \/ \E p \in Priority : WorkerTakes(w, p)

DrainStep ==
    \/ DrainBegin(DrainLimit)
    \/ \E p \in Priority : DrainTake(p)
    \/ Deliver

StopStep == StopWakes \/ StopEnd

Next ==
    \/ \E few \in BOOLEAN : Start(few)
    \/ \E p \in Priority : Submit(p)
    \/ NotifyOne
    \/ \E w \in Worker : WorkerStep(w)
    \/ \E h \in Thread : Complete(h)
    \/ \E limit \in 1 .. DrainLimit : DrainBegin(limit)
    \/ \E p \in Priority : DrainTake(p)
    \/ Deliver
    \/ StopBegin
    \/ StopStep

Spec == Init /\ [][Next]_vars

(* What runs on its own: the threads of the service, the callers inside    *)
(* submit or shutdown, and the dispatcher, which drains in its passes.     *)
(* Workers contend for the mutex with the drain, hence their strong        *)
(* fairness: who asks for it again and again gets it.  Nobody is bound to  *)
(* submit, to start or to shut down.                                       *)
Fairness ==
    /\ WF_vars(NotifyOne \/ Complete(Caller))
    /\ \A w \in Worker : SF_vars(WorkerStep(w) \/ Complete(w))
    /\ WF_vars(DrainStep)
    /\ WF_vars(StopStep)

FairSpec == Spec /\ Fairness

-----------------------------------------------------------------------------
Busy == {h \in Thread : active[h] # Idle}

ActiveOf(p) == Cardinality({h \in Thread : active[h] = p})

BatchOf(p) == Cardinality({i \in at .. Len(pending) : pending[i] = p})

(* What the service really holds of a priority: in its queue, with a       *)
(* thread, ready, and in the batch of the drain.                           *)
HeldOf(p) == requests[p] + ActiveOf(p) + completions[p] + BatchOf(p)

(* The counters count what is there: submit, popNextRequest,               *)
(* enqueueCompletion, drainCompletions and the two ends of shutdown each   *)
(* keep a share of them, in sections of their own.                         *)
CountersExact ==
    /\ \A p \in Priority : outstandingOf[p] = HeldOf(p)
    /\ outstanding = Both(outstandingOf)
    /\ activeRequests = Cardinality(Busy)
    /\ completionsInFlight = IF taking > 0 THEN 0 ELSE Len(pending) + 1 - at

(* No assert of the service can fail: there is room for the completion of  *)
(* a request that runs, a counter is positive when it goes down, the drain *)
(* finds as many completions as it counted, and nothing is outstanding     *)
(* after the last discard of shutdown.                                     *)
AssertsHold ==
    /\ Busy # {} => Both(completions) < Capacity /\ activeRequests > 0
    /\ taking <= Both(completions)
    /\ MutexFree /\ at <= Len(pending) =>
          /\ outstanding > 0
          /\ outstandingOf[pending[at]] > 0
          /\ completionsInFlight > 0
    /\ \A p \in Priority : requests[p] <= outstandingOf[p]
    /\ Quiet => /\ outstanding = Both(completions)
                /\ \A p \in Priority : outstandingOf[p] = completions[p]

(* Background requests can never keep a visible one out: it is refused     *)
(* only when visible requests alone use up the reserve.                    *)
VisibleAdmitted ==
    state = "running" /\ outstandingOf["visible"] < VisibleReserve => HasRoom("visible")

(* The service is a ledger of its requests: nothing is lost or settled     *)
(* twice, nothing is dropped while it runs, and it starts again empty.     *)
Ledger == INSTANCE WorkLedger WITH Class <- Priority, open <- state = "running",
                                   held <- [p \in Priority |-> HeldOf(p)]

IsLedger == Ledger!Spec

(* Neither priority starves in a queue, however many requests of the other *)
(* keep coming, and no request is left while every worker sleeps.          *)
NoStarvation ==
    \A p \in Priority :
        /\ <>[](requests[p] > 0) => []<><<\E w \in Worker : WorkerTakes(w, p)>>_vars
        /\ <>[](completions[p] > 0) => []<><<DrainTake(p)>>_vars

(* shutdown returns: the workers leave, the batch is run, the rest dropped.*)
ShutdownEnds == state = "stopping" ~> state = "stopped"
=============================================================================
