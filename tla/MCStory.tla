------------------------------ MODULE MCStory ------------------------------
(***************************************************************************)
(* The shipped quest, binding and dialogue for TLC, with health and        *)
(* cooldowns scaled down and the objective's target raised from 1 to 2, so *)
(* that progress, clamping and completion are different moments.           *)
(***************************************************************************)
EXTENDS Story

MCTarget == [o \in {"investigate"} |-> 2]
MCMaxHealth == [a \in {"player", "rat"} |-> IF a = "player" THEN 1 ELSE 2]
MCDamage == [a \in {"player", "rat"} |-> IF a = "player" THEN {1, 3} ELSE {1}]
MCCooldown == [a \in {"player", "rat"} |-> 1]
MCFlagIds == {"met", "test"}

\* event_bindings/binding_defs.lua.
MCBindings == << << [type |-> "advance_quest", objective |-> "investigate", amount |-> 1] >> >>

\* dialogue/dialogue_defs.lua.
Reply(n, id, next, conditions, actions) ==
    [node |-> n, id |-> id, next |-> next, conditions |-> conditions, actions |-> actions]
Flag(id) == { [type |-> "flag", id |-> id, equals |-> TRUE] }
Status(s) == { [type |-> "quest_status", equals |-> s] }
Reported == { [type |-> "quest_objective", objective |-> "investigate", complete |-> TRUE] }
Meet == << [type |-> "set_flag", id |-> "met", value |-> TRUE] >>

MCReplies ==
    { Reply("greeting", "ask_place", "about_place", {}, Meet),
      Reply("greeting", "ask_rat", "rat_problem", Flag("test"), <<>>),
      Reply("greeting", "offer_rat_problem", "quest_offer", Status("not_started"), <<>>),
      Reply("greeting", "active_rat_problem", "quest_active", Status("active"), <<>>),
      Reply("greeting", "completed_rat_problem", "quest_completed", Status("completed"), <<>>),
      Reply("about_place", "met_before", "greeting", Flag("met"), <<>>),
      Reply("about_place", "leave", "closed", {}, Meet),
      Reply("quest_offer", "accept_rat_problem", "greeting", {}, << [type |-> "start_quest"] >>),
      Reply("quest_active", "finish_rat_problem", "greeting", Reported, << [type |-> "complete_quest"] >>) }
    \cup { Reply(n, "back", "greeting", {}, <<>>) :
             n \in {"rat_problem", "about_place", "quest_offer", "quest_active", "quest_completed"} }
    \cup { Reply(n, "leave", "closed", {}, <<>>) :
             n \in {"greeting", "rat_problem", "quest_offer", "quest_active", "quest_completed"} }

\* Two replies act on the quest, and their nodes say what they rely on.
MCContracts ==
    [n \in { c.node : c \in MCReplies } |->
       CASE n = "quest_offer"     -> Status("not_started")
         [] n = "quest_active"    -> Status("active")
         [] OTHER                 -> {}]

\* The shipped dialogue keeps these contracts: the hypothesis of the theorem
\* that RepliesWork holds in every behaviour.
ASSUME ShippedDialogueIsContracted == Contracted(MCContracts)
=============================================================================
