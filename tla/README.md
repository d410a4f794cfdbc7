# Greyhaven and its server: a verification project

The repository holds two programs.

- **Greyhaven**, a single-player tile RPG: Lua simulation modules under a Defold
  script (`src/main/game_manager.script`). One thread runs everything. The engine
  calls `update` once per frame and `on_input` once per key; each runs to its end,
  and the event bus (`src/core/events.lua`) delivers events inside the call that
  emits them. Its hard behaviours are *interleavings of frames and keys* (a step
  takes several frames, a route many, a conversation as long as the player
  likes), *asserts that end a handler half-way*, and *save files*, which mix a
  saved part of the state with an authored rest at a moment nobody chose.
- **Canary**, the C++ server Greyhaven grew out of (`src/src`). Its game rules run
  on one thread, the dispatcher. Around it there are threads: a pool, the threads
  that publish tasks, the workers of a compute service for monsters. Its hard
  behaviours are *the seams between those threads and the dispatcher* (flags,
  signals, admission, shutdown) and *work that is split over several tasks*, with
  other tasks in between (a monster's thought, the return of expired offers).

Contents: [inventory](#inventory), [modules](#modules), [runs](#runs),
[bounds](#bounds), [fairness](#fairness), [proofs](#proofs),
[what the code and its documents disagree about](#disagreements),
[what is not modelled](#what-is-not-modelled), [what could follow](#what-could-follow).

## Inventory

### The game

| Component | State | Operations | What is hard | Correct when |
|---|---|---|---|---|
| Items: `items/container`, `inventory`, `equipment`, `world/world_items`, `simulation/item_transfers` | slots in order; item or nothing per equipment slot; placement id → item and tile | pickup, drop, equip, unequip | partial merges at a full inventory; two owners inside one transfer; asserts on ids | each item id has one owner; nothing is lost or created |
| Save files: `state/save_data`, `save_manager`, `world_state` | one snapshot on disk, surviving the process | capture, validate, the `restore_*` functions; F5, F9, F8, start | written at one moment and read at any later one; static and dynamic items are told apart by id; restores assert | what is accepted can be loaded; loading gives back what was saved |
| Tile world: `world/world`, `interaction`, `actions`, `transitions` | reservation per tile; open doors | `is_walkable`, `move_actor`, door, stairs, talk | doors close without looking; stairs during a step | reservations match positions; nobody is in a wall or a closed door |
| Movement: `simulation/movement` | position, facing, step in progress, drawn position | begin, update, teleport | logic moves at once, the picture over several frames; death in mid-step | the picture agrees with the logic; steps end |
| Routes: `simulation/movement_controller`, `pathfinding` | path, next index, status | find_path, set_path, cancel, update | a route computed once and followed while the world changes; replaced in mid-step | every move is one free cardinal step; routes settle |
| Combat: `combat/*` | health, cooldown | apply_damage, try_attack, update | events, bindings and quest actions run inside the damage | a death is announced once |
| Quests, actions, bindings | status and progress; none of their own | start, advance, complete, create; run a list up to its first failure | called by replies, bindings and keys in any order; half-executed lists | never regress; always restorable |
| Dialogue: `dialogue/dialogue`, `conditions` | node of the active session | begin, visible replies, choose, close | conditions checked before the action they protect; consumes the keyboard but not time | every visible reply has a key and succeeds |
| Session: `main/game_manager` | references to all services | `create_session`, `update`, `on_input` | rebuilds everything in place, one service after the other | a load never ends half-way |
| Perception, rendering, registries, factions, codec, panels | none, or constant tables | | ties of the trace; the pool's limit | not modelled |

`on_input` calls interaction, transfers, equipment, attacks, dialogue, quests and
save; `update` calls attacks, movement and the movement controller, in that order,
then begins the player's step. Death reaches the quest through the event bus:
`apply_damage` emits `actor_died`, the binding runs `advance_quest`.

### The server

| Component | State | Operations | What is hard | Correct when |
|---|---|---|---|---|
| Monster compute service: `game/scheduling/monster_compute_service` | two request queues, two completion queues, counters, state, workers | start, submit, worker loop, drainCompletions, shutdown | six sections under one mutex share five counters; shutdown waits for sleeping workers and for a batch the dispatcher is running | counters count; nothing is lost or done twice; no priority starves; shutdown returns |
| Dispatcher, sleeping and waking: `dispatcher.cpp/.hpp` | `hasPendingTasks`, `hasUnmergedEvents`, one queue per thread, condition variable | addEvent, notify, mergeEvents, the pass, checkPendingTasks, wait | notify does not take the mutex of the condition variable; flags are lowered before the look around | nobody sleeps over work it was told of; shutdown is seen |
| Dispatcher, lanes and timers: `dispatcher.cpp`, `dispatcher_policy.hpp`, `task.*` | slots per lane, queues, timers, references to timers | addEvent, scheduleEvent, cycleEvent, stopEvent, the pass | a slot is reserved in one place and given back in five; a timer is stopped when it is due, promoted, or running | admission exact; the stopped never run; order within a producer; no starvation |
| Weighted scheduler, adaptive budgets | weights and deficits | choose the next lane | arithmetic | not modelled |
| Monster thinking: `creatures/monsters/monster.cpp`, `creature.cpp`, `game.cpp` | async flags, bucket, search with generation and epoch, post-think and its two queues | onThink, prepare/complete search, post-think, visibility | every stage can be refused, superseded or come late; one that stays pending suppresses all later ones | one continuation per search; each post-think ends |
| Market: `game.cpp`, `io/iomarket.cpp` | table of offers; goods and gold of players; results under way | create, cancel, accept, check and process expired offers | rows read on one thread are used later on another | nothing is cloned; trades are paid; what expires returns |
| Player saving: `save_manager` | time stamp per player | schedule, save, saveAll | a map without a mutex; waiting on one's own pool | not modelled |
| Network and protocol, game rules, Lua interface, start-up | | | wide data, little control across calls | not modelled |

Threads publish to the dispatcher through `addEvent`; the dispatcher's pass runs
the lanes and drains the compute service; a monster's think goes through both,
three times. The pool reads the market's table and posts the rows to the
dispatcher.

## Modules

### The game

**Items.** `Container` holds the operators of `items/container.lua`; the merge
loop of `add_item` is written as the one function that relates its successive
values of `remaining`, so that the provers can reason about it without
recursion. `ItemOwnership` makes them a state machine: `inv`, `equipped` and
`ground` are the container's slots, the equipment record and
`world.world_items`; its four actions are the four transfers, each whole,
including the partial pickup and the unequip that keeps what was merged.
A call that answers a failure changes nothing and is a stuttering step.
`ItemLedger` is the abstract promise (units of a kind move between *carried*,
*worn* and *world*, nothing else happens), and `SavedLedger` the same with a file
in it, which may write down what is so, and make it so again later.
`ItemOwnershipRefinement` maps the items with their save file to it by counting
units: unit `u` of a stack is there if the stack has at least `u`, so that an
owner's quantity is the size of a set.

**Saved items.** `SavedItems` adds the file and the keys F5, F9, F8, and the
restart. `Capture`, `Valid` and the `Restored…` operators are `capture`,
`validate` and the restore functions; `Restorable` collects their asserts.
`RestoredInventory` adds the saved stacks one after the other, as
`inventory.restore` does, and `ok` remembers whether its asserts held.

**Tile world.** `TileWorld` has the record `world` (position, facing, step,
drawn position per actor; reservation per tile), the open doors, the dead, the
villager's `route` and whether a conversation is `talking`. `Frame(d)` is the
whole of `update` with direction `d` held: the player's interpolation, the
controller's turn (`Walked`), then the player's next step. The other actions
are the handlers behind the interact and debug keys, death, and a caller of
`set_path` other than the debug key (`SupplyRoute`). Path finding is modelled by
its answer: any of the shortest free routes.

**Path finding.** `RouteQuery` is the promise: one answer, a shortest route or
the right reason. `Pathfinding` is the A* of `find_path`, one action per turn of
its loop: an entry is skipped, expanded, found to be the goal or refused for the
limit. The binary heap is the set of its entries; `less` orders them totally, so
`pop` is "the least". `free` stands for `world:is_walkable`. The map does not
change during a search, because the whole search is one call.

**Saved world.** `SavedWorld` adds the file to `TileWorld`: player, facing, death and
doors are saved, everybody else starts again at home. `CastAssumption` says that nobody but
the player has a door for his authored tile: a door shut in a file would otherwise
shut such an actor in when `create_session` puts him back. The properties of the
tile world are checked and proved of this specification, so that they hold of
loaded sessions as of played ones.

**Story.** `Story` models health and cooldowns, flags and quest, the dialogue
node, and their part of the file. An attack, the death it causes, the bindings
and their actions are one step, as in the code. Positions are reduced to who is
`near` the player and who is straight `ahead`; what walking does to the two is
left open. `Actions` is what `world_actions.validate` lets through, and
`ContentAssumption` that the authored bindings and replies are made of it.

### The server

**`MonsterCompute`**, one action per section under the service's mutex, or per
call made between two of them. A queue is first in, first out and its entries
differ only in their priority, so a queue of one priority is its length; tokens
and statistics, which nothing in the service reads back, are left out. `active`
says what each thread is running, `pending` and `at` are the batch of
`drainCompletions` and the place in it, `taking` counts what the drain has still
to take while it holds the mutex (`MutexFree` is false meanwhile). `shutdown`
is `StopBegin`, the wake-up of the workers (`StopWakes`), and, once they have
left and no batch is under way (`Quiet`), `StopEnd`. `WorkLedger` is the abstract
executor: it holds what it accepted until it settles it, and drops work only by
closing. `IsLedger` is the refinement.

**`DispatcherWakeup`**, one action per *access* to what threads share: a
publishing thread fills its queue, raises `hasUnmergedEvents`, loads
`hasPendingTasks` and, if it found it down, stores it (`Raise`) and signals; the
dispatcher merges queue by queue, promotes timers, runs slices of tasks and
completions, lowers the flag, looks around (lanes, compute service, queue by
queue), tests and falls asleep. `FallAsleep` is a step after `Test`, because
`notify` takes no mutex: a signal in between is lost. Only whether there is work
matters here, not what. Some timer is always armed, since the server's own cycles
never end, so every sleep has an end.

**`DispatcherLanes`** is about the tasks themselves: admission to a lane
(`Reserve`), publishing, timers that run once or in a cycle, `stopEvent`,
promotion, passes with budgets, fairness among producers (`FairIndex`: the next
token around the last one served), tasks behind a barrier. `live` is not in the
code: it remembers what was accepted and neither ran nor was stopped since, apart
from the marks and slots by which the code decides. The test of
`shuttingDown` and the publishing are one step. A task name is free again once
the task is gone. The weighted deficit round robin's arithmetic, adaptive
budgets, task costs and the reserve of the creature bucket are left out: any
ready lane with budget may be next, so nothing shown here depends on the
arithmetic. `SlotsExact` has three parts: the counter of a lane counts the slots
held (`SlotsCounted`), a slot is held by what is queued and was not stopped, and
a reference to a timer is kept as long as it can be stopped.

**`Market`.** The handlers run on the dispatcher and read and write the table at
once, so each is one action. `CheckExpired` is the SELECT on the pool, which puts
its rows into `batches`; `ProcessExpired` is the later task. One kind of goods
(tier 0, not the store coin); a player's gold is what he carries and what is in
the bank, the locker is depot and inbox. `Worth` is what an offer holds back for its owner:
gold for an offer to buy, goods for one to sell. The removal that finds too little half
way is the second disjunct of selling. `Settled` says that an offer was paid: one
side has given its price to the other for each piece by which it is shorter.
Handlers that refuse before they change
anything take no step.

**`MonsterThink`.** One monster that is not a summon and does not fall idle
(`setIdle` takes an idle monster out of the lists of `checkCreatures`; here it is
ticked for as long as it lives). A tick leaves a post-think
pending and asks for the barrier phase (`ExecuteAsync`), where it may start a
search; the search goes to a worker and comes back to the dispatcher
(`PrepareStep`, `CompleteStep`), and the post-think goes through the queue of
visible or of hidden monsters (`ProcessPost`, `CancelPost`). Any hand-over may be
refused. Epochs and generations count up and are only compared with the present
ones, so a copy is modelled by what has changed since. `settled`, `Settle` and
`WorkDone` are not in the code: they let `ThoughtEnds` speak of a world in which,
from some time on, nothing is refused and nothing moves.

`MCSavedItems`, `MCTileWorld`, `MCPathfinding`, `MCStory`, `MCMonsterCompute`,
`MCDispatcherWakeup`, `MCDispatcherLanes`, `MCMarket` and `MCMonsterThink` give
the constants their values for TLC. Operators introduced by a comment "Mutation"
are wrong variants of the operator after them: put in its place, each makes a
property fail.

## Runs

| Run | States | Shows |
|---|---|---|
| `saved_items` | 12 428 | in every order of transfers, saves, loads, resets and restarts: `UniqueOwnership`, `CanonicalStacks`, `UnstackablesSurvive`; `ImplementsLedger`: play conserves quantities and a load restores those of the file; every state can be saved and gives each owner its items back (`OwnersComeBack`), and every file loads at any later time (`FileLoads`) |
| `round_trip` | | …but not every item its tile (violation; see [A](#disagreements)) |
| `tile_world` | 23 579 | reservations, doors, picture and the legality of every move, over all interleavings of frames, keys, deaths, routes, saves in the doorway and loads; under a fair frame steps finish and routes settle (`MotionSettles`) |
| `saved_game_loads` | | a file written on an absent creature's tile cannot be loaded (violation; see [B](#disagreements)) |
| `pathfinding` | 260 600 | `ImplementsQuery`: `find_path` answers, with a shortest route or the right reason; `TreeIsSound`: parents lead back to the start |
| `story` | 55 480 | the quest never regresses, is earned once per death and restorable (`QuestIsSound`); no visible reply fails or lacks a key (`RepliesWork`); the shipped dialogue keeps its contracts (an `ASSUME`) |
| `monster_compute` | 83 770 | exact counters, no failing assert, a reserve for visible requests, the refinement `IsLedger`; no priority starves, `shutdown` returns |
| `dispatcher_wakeup` | 121 916 | nobody sleeps over announced work, the merge overlooks no queue; what is published, completed or shut down is seen although signals get lost |
| `dispatcher_lanes` | 99 391 | slots are exact, what was stopped never runs however it waited, producers keep their order, what is accepted runs |
| `market` | 83 019 | nothing is cloned (while no offer of a result under way is accepted in part), every trade is paid at the price of its offer, expired offers return |
| `market_clone` | | …and goods or gold *are* made when one is (violation at depth 6; see [Disagreements](#disagreements)) |
| `monster_think` | 54 744 | one continuation per search, nothing waits without a releaser, nothing counts as queued without an entry, every post-think ends |

## Bounds

- *Items*: herbs, which stack, and the sword, which does not and can be worn; the
  map's other items are of one sort or the other. The herb stack is 4 instead of
  20, and the two authored stacks 3 and 2 instead of 15 and 10, so that picking up
  still fills one stack and overflows into a second; the inventory has 2 slots,
  as in the game, so that it can be full when the sword is taken off. Two tiles
  suffice to tell "where it was authored" from "elsewhere". The sword lies under an
  authored id that is no item's default id, the herbs under their default id: both
  cases of the save format.
- *Tile world*: ten ground tiles with one wall, one door, two stairs; two
  actors, the player and the routed one, the only ones that ever move.
  `StepFrames = 2` gives a step a beginning, a middle and an end; the game takes
  about nine frames. `MaxRoute = 4` is longer than any shortest route on that
  map. `SavedOn` bounds where the player may be when F5 is pressed: in `tile_world`
  in the doorway, where position and door meet in the file, before or in the middle
  of a step and with the villager anywhere; in `saved_game_loads` anywhere.
  Loading is not restricted. In the proofs `SavedOn` is any set of tiles.
- *Path finding*: every set of free tiles on a map of 4 by 3, every goal, asked
  for from each tile of the left column. Smaller maps have no room for a tile
  that is found again in fewer steps, which is where stale entries come from.
  The limit of 8 visited tiles is below the longest searches and above those in
  which stale entries occur.
- *Story*: the shipped dialogue, quest and binding unchanged in structure; the
  objective's target is 2 instead of 1 so that progress and completion differ,
  health is 1 and 2, damage 1 or 3 (exact kill and overkill), a cooldown lasts
  one frame.
- *Monster compute*: two workers and the case without any; a capacity of four,
  the smallest with a reserve; batches of up to two, so that a batch is under way
  while more is ready. The streak of three that protects the background is
  unchanged.
- *Dispatcher*: two publishing threads (one being merged, one publishing), one
  slice per kind of work. On the lanes: one publishing thread, a plain task and a
  one-shot timer of one producer, a cycle of another, a task behind a barrier; two
  slots, so that the third of them is refused; a budget of two; at most two
  unmerged tasks (`MaxInbox`). No lane of the server is at once fair to producers
  and cut short; the serial lane of the run is, to see both on a small instance.
- *Market*: two players, two offers, amounts and prices up to 2, so that an offer
  can be accepted in part once; one of them has a piece in the stash and one in
  the locker, so that a removal takes from both and can fail on the second; at
  most two results of the job under way (`MaxBatches`).
- *Monster think*: two entries in one queue (`MaxEntries`: seen, lost and seen
  again before the queue is processed), one end of `onThink_async` to come
  (`MaxAfter`).

Counters of the code are bounded by these constants or by the guards named after
them; no run needs a state constraint. Runs with `CHECK_DEADLOCK FALSE` are those
that really may stop: an answered query, a server that has shut down, a market in
which everything is spent, a dead monster.

## Fairness

In the game only the frame is fair: `WF_savedVars(PlayFrame)` in `SavedWorld`, and
`WF_vars(AFrame)` in `TileWorld` alone. The engine
calls `update` for as long as the process runs, with whatever direction is held.
Nothing is assumed of the keyboard: keys may never be pressed, or so often that
something is undone for ever; that is why settling is conditional on the route
not being replaced for ever. `Pathfinding` has `WF_vars(SearchNext)`: a function
that is called runs on.

In the server:

- `MonsterCompute`: a thread inside `submit`, `shutdown` or a completion goes on
  (WF); the dispatcher drains in its passes (WF). Workers contend for the mutex
  with the drain, so they get *strong* fairness: who asks for a mutex again and
  again gets it. That is what a fair mutex gives, and with a drain of bounded
  length what the usual ones give in practice. Nobody has to submit, to start or
  to shut down.
- `DispatcherWakeup`: the loop goes on, who is inside `addEvent` or `notify`, a
  publisher or a worker and at whichever access of it, goes on, time passes (WF).
  Strong fairness only for taking a queue's mutex. Signals may be lost without
  limit.
- `DispatcherLanes`: passes, merges and time (WF). Nobody has to post or stop.
- `Market`: the job, a cyclic event, runs and its task is run (WF). Players do as
  they like.
- `MonsterThink`: ticks (a cyclic event), queued tasks and the service's answers
  (WF). These are no new assumptions: `AcceptedRuns`, `NoStarvation` and
  `ShutdownEnds` of the other modules say so. `WF_vars(Settle)` restricts the
  claim to worlds that come to rest: with a lane that refuses every task for
  ever, no thought can end.

## Proofs

`tlapm` checks the eight modules `…Proofs` for all constants that satisfy the
named ASSUMEs. Every invariant and action property that a passing run checks is
proved; so are two of the three refinements whole, and of the third what is
safety. TLC checked each inductive invariant, and each measure below, on the
run's instance first.

Liveness under fairness cannot be proved here, but most of what makes it true is
safety, and is: nobody who has work is left without somebody to go on with it, and
there is a number that falls with every step and has a bound. These theorems
(*safety parts* below) leave to fairness only that the steps are taken.

- **`ItemOwnershipProofs`**. The first part says what `AddItem` and `WithoutSlot`
  return: a sequence of legal stacks within capacity, ids the old ones or the
  incoming one, the incoming id only if units are left, canonical stacks canonical,
  unstackable items unchanged or not taken at all.
  - *Ownership*: `IInv` is `TypeOK`, `UniqueOwnership`, `CanonicalStacks` and
    `PlacementsNamed` together. `UniqueOwnership` alone is not inductive: `drop`
    writes under the default id of the dropped item, and only `PlacementsNamed`
    says that no other item lies under that id. That no transfer's assert fails
    follows; `UnstackablesSurvive` is a second induction under it.
  - *Saved files* (`LoadingDuplicatesNothing`, `AcceptedFilesLoad`,
    `SavingIsComplete`): `PlayInv` adds that what is worn fits its slot and that
    finitely many items lie about. `SavedInv` is `PlayInv` now and `Kept(file)`:
    what is on disk was valid and, whenever it is loaded, passes every assert and
    gives a session in which `PlayInv` holds. That cannot be had from the present
    state, which may be many moves away from the save; it is shown once, when the
    file is written (`CaptureIsKept`). Its core is that re-adding canonical stacks
    in their order merges none of them (an induction over the slots).
  - *Quantities* (`QuantitiesAreConserved`): the refinement of `SavedLedger`. A
    merge spreads the units of a stack over several others (`MergedUnits`, by
    induction over the slots), and taking a slot out moves the later ones up, which
    a bijection of places shows to change no count (`Rearranged`). Needs `PlayInv`
    before and after the step. What a file is worth in the ledger is what the session
    it would be loaded into holds.

  Assumed: default ids are distinct for distinct items; an authored placement id is
  the default id of its own item or of none; authored items have distinct ids; the
  starter inventory fits and is canonical, as `inventory.restore` asserts of it;
  there are finitely many slots and placements.
- **`TileWorldProofs`**. `Sound(w, o)` says of a world record and a set of open
  doors that positions and reservations agree, nobody is shut in, and everybody is
  drawn where it goes. It is followed through `Begun`, `Advanced`, `Teleported` and
  `Walked`, because one frame applies several of them in a row and the property
  must hold between them: the player's step is decided on the world the villager's
  step has just changed. `MovesStayLegal` proves the action property from the same
  invariant. Closing a door preserves `NobodyShutIn` only because `find_target`
  answers the actor on the tile, and `OccupancyExact` turns "no actor found" into
  "nobody there". `CompletedMeansArrived` is what is safety in `MotionSettles`; it
  needs `Follows`: a walker that has set off on its route is on the tile of it that
  it took last (a step that began before the route was assigned counts for none).
  `MotionIsBounded` is the other half of it, and the safety part of what a fair
  frame gives: a step is a frame shorter after every frame, and a route that is not
  replaced has at most `StepFrames + 1` frames to go per tile. `FoundRoutesNeverAbort`
  closes disagreement [D](#disagreements) from the other side: as long as `set_path`
  gets nothing but found routes (`Leads`: each next tile is a neighbour of the one
  before), no frame fails the assert of `movement.begin`.
  For sessions that were loaded (`LoadedSessionsSound`) the invariant adds that a
  file puts the player on free ground and not in one of the doors that are closed in
  it. That a file can be loaded at all does not follow: see [B](#disagreements).
  Assumed of the map: nobody starts in a wall, a closed door or on somebody else;
  doors and stairs do not share a tile; `CastAssumption`.
- **`PathfindingProofs`**. `IInv` adds to the type and `TreeIsSound` that the
  heap knows its tiles (`EntriesKnown`): an entry whose number is the tile's also
  has the tile's cost. Without it an expansion could give its neighbours a cost
  that does not fit their parent's. `AnswersAreRight` says that every answer is
  one `RouteQuery` allows, on any map: the argument is Dijkstra's, for a heap with
  stale entries and an estimate. Costs are lengths of some way (`CostsReached`); a
  tile is closed at its distance (`CostsExact`); what is beside a closed tile is
  known, at one step more at most (`Relaxed`); and what is known and not closed has
  an entry that counts (`Queued`). From the last two, some entry lies on a shortest
  way to any tile not yet closed (`OpenAhead`); the estimate is never too high
  (`EstimateIsLower`), so the least entry cannot have come by a detour
  (`LeastIsExact`). An empty heap then means that all reachable tiles are closed,
  and `visited` counts closed tiles. `SearchEnds` is the safety part of "the query
  always answers": a search that has not answered can take a turn, and each turn
  uses up an entry or closes a tile, of which an expansion opens at most four. Only
  assumed: the map has a tile, the limit is positive.
- **`MonsterComputeProofs`**, for any number of workers, any capacity and any
  batch: `CountersExact`, `AssertsHold`, `VisibleAdmitted`. `IInv` adds to the
  counters their bounds (`Bounded`, from which the reserve follows) and what is
  known between two sections (`Between`): how much the drain still takes is there, a
  stopped service has no workers, one that is not running has no requests. Without
  the second the drain could ask for more than it counted. `ComputeIsLedger` is the
  refinement: what the ledger holds is what the counters say (`HeldCounted`), so a
  section that moves a request between queue, worker and batch is no step of it.
  Three safety parts: `NoRequestOversleeps` (no wake-up is lost between an unlock
  and its `notify_one`; needs `Awakened`, which says who may be asleep in which
  state), `NonePassedOverLong` (the streaks, for any load) and `ShutdownShortens`
  (while the service stops somebody can go on, and every step of anybody leaves
  less).
  Assumed: finitely many workers, a positive capacity.
- **`DispatcherProofs`** holds the proofs about both models of the dispatcher.
  - *Lanes*, for any tasks, lanes, threads and limits: `IInv` says that the
    counters count (`Counted`), that each task is queued in one place, once, and in
    its own lane (`Placed`), and that the marks agree with the queues (`Marked`:
    what is queued holds a slot unless it was stopped, and what was stopped is a
    timer and still queued). `SlotsAreExact` follows; so does
    `StoppedTasksNeverRun`, whose point is that a stopped timer stays where it is
    and must be recognised in each of four places: a mark lost or cleared early on
    the way would part the marks from the history `live`. `ProducersKeepTheirOrder` needs
    `Placed` too: with a task twice in a lane, serving the first copy would
    overtake the second. The safety parts of `AcceptedRuns`: what is accepted gives
    up its slot only as it runs or is stopped (`AcceptedRunsOnce`), nothing that
    comes later gets ahead of it, and a round of the producers skips none that
    waits (`LanesAreServedInTurn`), and a pass over the lanes ends (`PassesEnd`).
  - *Wake-up*, for any set of threads and any number of slices: `FlagCoversInbox` is
    inductive with the type; `SleepsOverNothing` is not. It follows from
    `LookedAround`: while the flag the last look lowered is still down, that look is
    right about everything it has passed, and whoever has brought something since
    has yet to raise the flag. `LoopComesRound` is the safety part of
    `ShutdownIsSeen`: every step of the dispatcher brings it nearer to the test of
    its flags, nobody else's step delays it, and from there it turns back only if
    it has not found the server shutting down. A slice weighs more than the merge
    of all queues after it, hence the product in the bound.
- **`MonsterThinkProofs`**, for all bounds: `OneContinuation`, `WaitingIsReleased`
  and `QueuedHasEntry`. With the type they are inductive together: a wait is
  released because the search it waits for has its continuation, and what waits is
  not queued, so its release may queue it. On top of them stand the safety parts of
  `ThoughtEnds`: whatever was refused, a pending post-think has a source that will
  end it (`NoPostThinkIsLost`); and once things have settled every step leaves less
  of the thought (`ThoughtsComeToAnEnd`). The measure weighs a stale search, which
  will be repeated, by what its repetition costs.
- **`MarketProofs`**, for any finite sets of players and offers and any prices:
  `MarketMakesNothing` and `EveryTradeIsPaid`, under `~PartialInFlight`.
  `EveryTradeIsPaid` goes through the handlers and says of each who gains what
  (`Outcome`): an acceptance settles one offer at its own price, between its owner
  and the one who accepts. Neither theorem holds without the hypothesis: the run
  `market_clone` is the counterexample ([Disagreements](#disagreements)), and
  `market` has the same restriction. The inductive invariant is `TypeOK /\
  RowsCurrent`: a row read by the job still tells the worth and the owner of its
  offer when the task that uses it runs, if the offer is still listed. That is
  exactly what a partial acceptance breaks. Gold and goods are sums over players
  and offers; the lemmas say how such a sum changes when one term does, by
  induction over finite subsets.
- **`StoryProofs`**, for any dialogue, bindings, objectives and damage:
  `QuestStaysSound` and `SavedQuestsLoad`. A list of actions runs up to its first
  failure, so the quest may be left half-way; `Coherent` holds after each action:
  what `quest_state.create` asks for, and that a quest nobody has started has no
  progress. Without the latter `start`, which resets progress, could take some
  away, as it could from a loaded file; hence the invariant says it of the file
  too. Assumed: what the validation of content at start-up establishes.
  `RepliesAlwaysWork` is about dialogues whose nodes have *contracts*: conditions
  under which every visible reply succeeds and leads to a node whose contract then
  holds, and some visible reply, of four at most, ends the talk. That is a check of
  single replies; the theorem is that it suffices, because no handler changes flags
  or quest in the middle of a talk without closing it. Not every dialogue has
  contracts. The shipped one does: `MCStory` writes them down (accepting needs the
  quest not started, finishing needs it active), and its `ASSUME` has TLC check
  them for all flags and every quest that `Coherent` allows (`PossibleFacts`),
  reached or not.

Recursive definitions are written as recursive functions, or are folds of the
library; what they compute is proved by induction over a *set* of numbers, or of
finite subsets, for which the well-founded orderings of the library suffice.

Only model-checked: liveness, which is beyond this prover.

- `AcceptedRuns`, `MotionSettles`, `NoStarvation`, `ShutdownEnds`, `ShutdownIsSeen`,
  `ThoughtEnds`, and in `ImplementsQuery` that an answer comes: their safety parts
  are the theorems named above, and what remains is that fair steps are taken;
- `PublishedIsMerged` and `CompletionsAreTaken`, for which `MergeOverlooksNothing`,
  `NobodySleepsOverWork` and `LoopComesRound` say all but that time passes and that
  a mutex asked for again and again is got;
- `ExpiredReturn`, which follows from the two actions of the job and their fairness.

## Disagreements

What the code does and a document, comment or test says otherwise:

- **The market clones**, run `market_clone`. `checkExpiredOffers`
  (`src/src/io/iomarket.cpp`) reads the amounts of the expired offers on a thread
  of the pool, and `processExpiredOffers` returns these amounts in a later task. It
  asks `moveOfferToHistory` only whether the offer still exists. An offer accepted
  in part in between still does, with a smaller amount: the amount of the old row
  goes back to its owner, a part of it having been sold. The handlers' own comments
  (`src/src/game/game.cpp`, 10796) say that a player may lose but "will not clone".
  In `market` the constant `PartialInFlight` excludes exactly this, and every
  other interleaving is free of it.
- **A.** An authored item picked up and dropped elsewhere is back on its authored
  tile after a load. `save_data.capture` (`src/state/save_data.lua:57`) compares
  quantity and state of what bears the static placement id, not its position, and a
  dropped item takes its default id, which in the shipped map is that same id;
  `src/docs/save-format.md:49` says its coordinates are stored. Run `round_trip`:
  `RoundTrip` says that loading what was saved a moment ago changes nothing, and
  fails. What does come back is `OwnersComeBack`.
- **B.** Save on the villager's authored tile after it has walked off, and the file
  cannot be loaded: `creatures.spawn` (`src/creatures/creatures.lua:42`) asserts in
  the middle of `create_session`, which has by then given up the old session;
  `src/docs/save-format.md:72` says that F9 "validates and reconstructs a new session
  before replacing runtime references". Since `init` loads the file too, the game
  cannot be started until the file is gone. Run `saved_game_loads`:
  `SavedGameLoads` says that what F5 wrote can be loaded, and fails.
- **C.** `src/docs/actions.md:9` says that reporting advances the quest; no reply
  does. Killing the rat before accepting the quest leaves it unfinishable until the
  session is rebuilt, since nothing else advances it but a debug key.
- **D.** `set_path` is documented and tested (`src/docs/pathfinding.md:35`,
  `src/tests/run.lua:1451`) to refuse steps that are not adjacent. It asks
  `direction.from_delta` (`src/simulation/movement_controller.lua:57`), which knows
  a direction for every non-zero offset; `movement.begin` then fails its assertion
  inside the frame. The game's only caller passes A*'s routes, so play is not
  affected, and `tile_world` supplies none but those.
- `Dispatcher::safeCall` is documented (`src/src/game/scheduling/dispatcher.hpp`,
  158 to 169) to redirect a call from any other thread to the dispatcher; it
  redirects only from a barrier-parallel task (`dispatcher.cpp`, 1182).
- `checkCreatures` says that post-thinks follow the decisions of their tick. When
  the server is so late that two ticks overlap, the end of an earlier think can
  queue the post-think of a later tick before its decisions. The monster attacks
  once with its older target; `MonsterThink` allows it.

## What is not modelled

**Of the game.** Rendering, panels, view models, notices, the debug view and the
interior events read the state and never write it. Registries, definition
validation and the map loader run once on shipped tables; what they establish is
assumed of the constants. `save_codec`: a snapshot is a value, and
`save_manager.load` refuses a damaged file. The item-id allocator: no handler of
the game allocates an id. Actors other than player, villager and rat; no other
exists in the map, and the rat never moves. The chest: its handler toggles a flag
nothing reads but the picture. Items, tiles and story are separate state machines:
they share the player's position and death; each module leaves that input open, so
it allows at least what the composition does.

**Of the server.** The C++ code has some 180 000 lines, and most of them are
rules over content data (items, conditions, spells, the wheel, hunting tasks),
packet formats (`protocolgame.cpp`) and bindings for Lua. They run on one thread,
keep little control from one call to the next, and depend on tables of thousands
of entries. A model of them would repeat the tables, or would abstract them until
nothing was left to be wrong; so the models cover a small share of the lines, and
are where threads and delayed calls meet. Of the parts near the models these are left out:

- the weighted deficit round robin and the adaptive budgets (any choice of a ready
  lane is modelled; bounds on latency would need real time);
- player saving: `m_playerMap` has no mutex and is written by several threads, so
  its outcomes have no description; `saveAll`, a task of the pool, waits for tasks
  of the same pool; the market's table is written at once and the players later, so
  a crash between the two can separate an offer from its goods;
- failing database statements: cancelling an offer pays before
  `moveOfferToHistory`, whose answer it does not look at;
- the computation of follow paths (`monster.cpp`, 3567 to 3818), which has the
  pattern of the target search: prepare, compute, complete, with epochs;
- summons, the removal of a monster, its falling idle and waking (`setIdle`), and
  the Lua think event;
- start-up, configuration, accounts, the key-value store, login and network.

Data packs, tests and deployment are not part of the running programs.

## What could follow

1. Removal of a monster while a search, a bucket entry or a queued post-think
   refers to it: the weak references of `MonsterThink`.
2. Follow paths next to the target search: both use the async flags and the
   bucket of one monster.
3. `MonsterThink` over `DispatcherLanes` and `MonsterCompute` as one system, to
   discharge its fairness formally instead of by citing their properties.
4. A crash in `Market`: which of the orders of writing table and players loses,
   which clones.
5. In the game: one session of items, tiles and story, with what lies on door and
   stair tiles (`simulation/interaction.lua:13`), and the trace of
   `world/line_of_sight.lua` as a pure function.
6. Proofs: a composed model (3) would need the invariants of `DispatcherProofs` and
   `MonsterComputeProofs` for instances of their modules; they are stated so that
   the same leaves serve. The measures of the safety parts could then be added up
   into one bound for a monster's thought.
