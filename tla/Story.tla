------------------------------- MODULE Story -------------------------------
(***************************************************************************)
(* How a quest moves: combat (combat/registry.lua, health.lua,             *)
(* attacks.lua), the event binding that turns a death into quest progress  *)
(* (event_bindings/event_bindings.lua), the world actions it and the       *)
(* dialogue choices run (actions/world_actions.lua), the quest service     *)
(* (quests/quests.lua), the conversation (dialogue/dialogue.lua with       *)
(* conditions/conditions.lua), and what a save keeps of all that.          *)
(*                                                                         *)
(* Events are delivered synchronously, so an attack, the death it causes,  *)
(* the bindings that death triggers and their actions are one step. Where  *)
(* the actors stand is reduced to who is next to the player and who is     *)
(* straight ahead; TileWorld models the tiles.                             *)
(***************************************************************************)
EXTENDS Integers, Sequences, FiniteSets

CONSTANTS
    Player, Rat, Villager, Nobody,
    MaxHealth,   \* [fighters -> health points]
    Damage,      \* [fighters -> SUBSET Nat]: what a hit takes, after weapon and armor
    Cooldown,    \* [fighters -> frames between two attacks]
    FlagIds,     \* world flags
    Target,      \* [objectives of the quest -> target]
    Bindings,    \* sequence of action lists bound to the death of a rat, in id order
    Replies,     \* authored dialogue: [node, id, next, conditions, actions]
    StartNode, Closed,
    NoSave

Fighters == {Player, Rat}
Objectives == DOMAIN Target

ASSUME StoryAssumption ==
    /\ MaxHealth \in [Fighters -> Nat \ {0}]
    /\ Damage \in [Fighters -> SUBSET (Nat \ {0})]
    /\ Cooldown \in [Fighters -> Nat \ {0}]
    /\ Target \in [Objectives -> Nat \ {0}]

\* What world_actions.validate lets through: an authored action names a flag
\* or the quest, and advances an objective it has by a positive amount.
Actions ==
    [type : {"set_flag"}, id : FlagIds, value : BOOLEAN]
        \cup [type : {"start_quest", "complete_quest"}]
        \cup [type : {"advance_quest"}, objective : Objectives, amount : Nat \ {0}]

ASSUME ContentAssumption ==
    /\ Bindings \in Seq(Seq(Actions))
    /\ \A c \in Replies : c.node # Closed /\ c.actions \in Seq(Actions)

VARIABLES
    health,    \* [Fighters -> 0..MaxHealth]: CombatState, dead at 0
    cooling,   \* [Fighters -> frames until the next attack]
    facts,     \* [flags, status, progress]: WorldState flags and QuestState
    node,      \* node of the active DialogueSession, or Closed
    near,      \* actors next to the player
    ahead,     \* the actor the player faces, or Nobody
    file       \* the snapshot on disk, or NoSave

vars == <<health, cooling, facts, node, near, ahead, file>>

Others == {Rat, Villager}
Dead(a) == health[a] = 0
Placed == near \in SUBSET Others /\ ahead \in near \cup {Nobody}

NoFacts == [flags |-> {}, status |-> "not_started", progress |-> [o \in Objectives |-> 0]]

Init ==
    /\ health = MaxHealth
    /\ cooling = [a \in Fighters |-> 0]
    /\ facts = NoFacts
    /\ node = Closed
    /\ Placed
    /\ file = NoSave

-----------------------------------------------------------------------------
\* quests.start, advance_objective and complete: what they answer, and the
\* quest afterwards. Progress is clamped at the target.
Done(f, o) == f.progress[o] = Target[o]
Lesser(a, b) == IF a <= b THEN a ELSE b

MayStart(f) == f.status = "not_started"
MayAdvance(f, o) == f.status = "active" /\ ~Done(f, o)
MayComplete(f) == f.status = "active" /\ \A o \in Objectives : Done(f, o)

Started(f) == [f EXCEPT !.status = "active", !.progress = [o \in Objectives |-> 0]]
AdvancedBy(f, o, amount) == [f EXCEPT !.progress[o] = Lesser(Target[o], @ + amount)]
Completed(f) == [f EXCEPT !.status = "completed"]
Flagged(f, id, value) == [f EXCEPT !.flags = IF value THEN @ \cup {id} ELSE @ \ {id}]

\* world_actions.execute_one.
Succeeds(act, f) ==
    CASE act.type = "set_flag"       -> TRUE
      [] act.type = "start_quest"    -> MayStart(f)
      [] act.type = "advance_quest"  -> MayAdvance(f, act.objective)
      [] act.type = "complete_quest" -> MayComplete(f)

Result(act, f) ==
    CASE act.type = "set_flag"       -> Flagged(f, act.id, act.value)
      [] act.type = "start_quest"    -> Started(f)
      [] act.type = "advance_quest"  -> AdvancedBy(f, act.objective, act.amount)
      [] act.type = "complete_quest" -> Completed(f)

\* world_actions.execute_all: the list stops at the first failure; what was
\* done before it stays done.
Execute(run, act) ==
    IF run.ok /\ Succeeds(act, run.facts)
    THEN [run EXCEPT !.facts = Result(act, run.facts)]
    ELSE [run EXCEPT !.ok = FALSE]

Executed(acts, f) ==
    LET run[n \in 0..Len(acts)] ==
          IF n = 0 THEN [ok |-> TRUE, facts |-> f] ELSE Execute(run[n - 1], acts[n])
    IN  run[Len(acts)]

\* event_bindings.handle for the death of a rat: every matching binding
\* runs, whether or not the one before it failed.
AfterBinding(f, acts) == Executed(acts, f).facts

Mourned(f) ==
    LET after[n \in 0..Len(Bindings)] ==
          IF n = 0 THEN f ELSE AfterBinding(after[n - 1], Bindings[n])
    IN  after[Len(Bindings)]

-----------------------------------------------------------------------------
\* Mutation: damage to the dead is not refused.
HurtAgain(a, amount) ==
    /\ health' = [health EXCEPT ![a] = IF @ > amount THEN @ - amount ELSE 0]
    /\ facts' = IF a = Rat /\ amount >= health[a] THEN Mourned(facts) ELSE facts

\* combat.registry.apply_damage, with the actor_died event it emits. Damage
\* to the dead is refused.
Hurt(a, amount) ==
    /\ ~Dead(a)
    /\ health' = [health EXCEPT ![a] = IF @ > amount THEN @ - amount ELSE 0]
    /\ facts' = IF a = Rat /\ amount >= health[a] THEN Mourned(facts) ELSE facts

\* attacks.try_attack, between actors at rest.
Strike(attacker, target) ==
    /\ ~Dead(attacker)
    /\ cooling[attacker] = 0
    /\ Rat \in near
    /\ \E amount \in Damage[attacker] : Hurt(target, amount)
    /\ cooling' = [cooling EXCEPT ![attacker] = Cooldown[attacker]]
    /\ UNCHANGED <<node, near, ahead, file>>

\* Mutation: a conversation does not consume the other keys.
Unheard == TRUE

\* An active conversation consumes every key but its own.
Quiet == node = Closed

\* The attack key and the debug keys for the rat's attack and for damage to
\* it.
PlayerAttacks == Quiet /\ ahead = Rat /\ Strike(Player, Rat)
RatAttacks == Quiet /\ Strike(Rat, Player)
DebugDamage ==
    /\ Quiet
    /\ \E amount \in Damage[Player] : Hurt(Rat, amount)
    /\ UNCHANGED <<cooling, node, near, ahead, file>>

\* attacks.update, once per frame.
Frame ==
    /\ cooling' = [a \in Fighters |-> IF cooling[a] > 0 THEN cooling[a] - 1 ELSE 0]
    /\ UNCHANGED <<health, facts, node, near, ahead, file>>

\* The player walks or turns; the villager, sent away by the debug path,
\* also walks during a conversation.
PlayerWalks ==
    /\ Quiet /\ ~Dead(Player)
    /\ near' \in SUBSET Others /\ ahead' \in near' \cup {Nobody}
    /\ UNCHANGED <<health, cooling, facts, node, file>>

VillagerWalks ==
    /\ near' \in {near \ {Villager}, near \cup {Villager}}
    /\ ahead' \in {IF ahead = Villager THEN Nobody ELSE ahead}
                    \cup (IF Villager \in near' \ near /\ ahead = Nobody THEN {Villager} ELSE {})
    /\ UNCHANGED <<health, cooling, facts, node, file>>

-----------------------------------------------------------------------------
\* conditions.evaluate.
Holds(c, f) ==
    CASE c.type = "flag"            -> (c.id \in f.flags) = c.equals
      [] c.type = "quest_status"    -> f.status = c.equals
      [] c.type = "quest_objective" -> (f.status # "not_started" /\ Done(f, c.objective)) = c.complete

Meets(f, conditions) == \A cond \in conditions : Holds(cond, f)

\* dialogue.get_current: the visible choices of the current node.
Visible(n, f) == { c \in Replies : c.node = n /\ Meets(f, c.conditions) }
Available == Visible(node, facts)

\* dialogue.begin, from the interact key.
BeginTalk ==
    /\ Quiet /\ ~Dead(Player)
    /\ ahead = Villager
    /\ node' = StartNode
    /\ UNCHANGED <<health, cooling, facts, near, ahead, file>>

\* dialogue.choose: the actions first, the transition only if they succeed.
Choose(c) ==
    /\ c \in Available
    /\ LET run == Executed(c.actions, facts)
       IN  /\ facts' = run.facts
           /\ node' = IF run.ok THEN c.next ELSE node
    /\ UNCHANGED <<health, cooling, near, ahead, file>>

\* dialogue.close, from the escape key.
CloseTalk ==
    /\ ~Quiet
    /\ node' = Closed
    /\ UNCHANGED <<health, cooling, facts, near, ahead, file>>

\* The debug keys for the flag and the quest.
DebugFlag(id) ==
    /\ Quiet
    /\ facts' = Flagged(facts, id, id \notin facts.flags)
    /\ UNCHANGED <<health, cooling, node, near, ahead, file>>

DebugActions ==
    { [type |-> "start_quest"], [type |-> "complete_quest"] }
        \cup { [type |-> "advance_quest", objective |-> o, amount |-> 1] : o \in Objectives }

DebugQuest ==
    /\ Quiet
    /\ \E act \in DebugActions : Succeeds(act, facts) /\ facts' = Result(act, facts)
    /\ UNCHANGED <<health, cooling, node, near, ahead, file>>

-----------------------------------------------------------------------------
\* quests.validate_snapshot, which quests.create asserts.
ValidQuest(f) ==
    /\ \A o \in Objectives : f.progress[o] \in 0..Target[o]
    /\ f.status = "completed" => \A o \in Objectives : Done(f, o)

\* create_session: every creature is spawned with full health; no cooldown
\* and no conversation survives. Where the player was saved is not kept here.
Session(f, points) ==
    /\ ValidQuest(f)
    /\ facts' = f
    /\ health' = [MaxHealth EXCEPT ![Player] = points]
    /\ cooling' = [a \in Fighters |-> 0]
    /\ node' = Closed
    /\ near' \in SUBSET Others /\ ahead' \in near' \cup {Nobody}

Restored == IF file = NoSave THEN Session(NoFacts, MaxHealth[Player])
            ELSE Session(file.facts, file.points)

\* F5, F9, F8, and the end and restart of the process.
Save == Quiet /\ file' = [facts |-> facts, points |-> health[Player]]
              /\ UNCHANGED <<health, cooling, facts, node, near, ahead>>
Load == Quiet /\ file # NoSave /\ Restored /\ UNCHANGED file
Reset == Quiet /\ Session(NoFacts, MaxHealth[Player]) /\ file' = NoSave
Restart == Restored /\ UNCHANGED file

Rebuild == Load \/ Reset \/ Restart

Next ==
    \/ PlayerAttacks
    \/ RatAttacks
    \/ DebugDamage
    \/ Frame
    \/ PlayerWalks
    \/ VillagerWalks
    \/ BeginTalk
    \/ \E c \in Replies : Choose(c)
    \/ CloseTalk
    \/ \E id \in FlagIds : DebugFlag(id)
    \/ DebugQuest
    \/ Save
    \/ Load
    \/ Reset
    \/ Restart

Spec == Init /\ [][Next]_vars

-----------------------------------------------------------------------------
\* dialogue.choose answers with a failure when an action of the reply fails.
\* The authored conditions prevent that: they are checked one or two nodes
\* before the action they protect, and still hold when the reply is chosen.
RepliesSucceed == \A c \in Available : Executed(c.actions, facts).ok

\* docs/dialogue.md: "Number keys 1-4 select visible choices". No node ever
\* shows a reply that has no key, whatever the quest and the flags say, and
\* one of the replies leaves the conversation.
RepliesHaveKeys ==
    ~Quiet => /\ Cardinality(Available) <= 4
              /\ \E c \in Available : c.next = Closed

\* Every reply on show can be chosen and does what it says.
RepliesWork == RepliesSucceed /\ RepliesHaveKeys

\* What an author can see without playing. A contract of a node is a set of
\* conditions that hold whenever the conversation stands there. A dialogue
\* keeps its contracts when nothing is asked of the first node and, from any
\* quest that meets the contract of a node, every visible reply succeeds and
\* meets the contract of the node it leads to, the replies have keys, and
\* one of them leaves.
Progresses ==
    { p \in [Objectives -> UNION { 0..Target[o] : o \in Objectives }] :
        \A o \in Objectives : p[o] <= Target[o] }
PossibleFacts ==
    { f \in [flags : SUBSET FlagIds, status : {"not_started", "active", "completed"},
             progress : Progresses] :
        /\ f.status = "not_started" => \A o \in Objectives : f.progress[o] = 0
        /\ f.status = "completed" => \A o \in Objectives : Done(f, o) }

KeepsContract(contracts, c, f) ==
    LET run == Executed(c.actions, f)
    IN  /\ run.ok
        /\ c.next # Closed => c.next \in DOMAIN contracts /\ Meets(run.facts, contracts[c.next])

Contracted(contracts) ==
    /\ StartNode \in DOMAIN contracts /\ contracts[StartNode] = {}
    /\ \A n \in DOMAIN contracts, f \in PossibleFacts :
          Meets(f, contracts[n]) =>
            /\ \A c \in Visible(n, f) : KeepsContract(contracts, c, f)
            /\ Cardinality(Visible(n, f)) <= 4
            /\ \E c \in Visible(n, f) : c.next = Closed

\* docs/combat.md: damage "emits `actor_damaged` followed once by
\* `actor_died`". The quest advances when the rat dies and never again for
\* the same death; the only other sources are the debug key, a reply that
\* says so and a loaded game.
ProgressIsEarned ==
    [][ (\E o \in Objectives : facts'.progress[o] > facts.progress[o]) =>
            \/ ~Dead(Rat) /\ health'[Rat] = 0
            \/ \E o \in Objectives : DebugQuest /\ MayAdvance(facts, o)
            \/ ~Quiet
            \/ Rebuild ]_vars

Rank(status) == CASE status = "not_started" -> 0 [] status = "active" -> 1 [] OTHER -> 2

\* docs/quests.md: "Rejected operations never emit events or reset progress".
\* Without loading, resetting or restarting, a quest only moves forward and
\* no objective loses progress.
QuestOnlyAdvances ==
    [][ \/ Rebuild
        \/ /\ Rank(facts'.status) >= Rank(facts.status)
           /\ \A o \in Objectives : facts'.progress[o] >= facts.progress[o] ]_vars

\* The quest moves in one direction and only for a reason.
QuestIsSound == ProgressIsEarned /\ QuestOnlyAdvances

=============================================================================
