---------------------------- MODULE StoryProofs -----------------------------
(***************************************************************************)
(* The quest of Story, whatever the authored bindings and dialogue do to   *)
(* it: it moves in one direction and only for a reason, and every file the *)
(* game writes is one that it loads.                                       *)
(***************************************************************************)
EXTENDS Story, TLAPS, WellFoundedInduction

Statuses == {"not_started", "active", "completed"}
Quests == [flags : SUBSET FlagIds, status : Statuses, progress : [Objectives -> Nat]]

\* What validate_snapshot asks for, and that a quest nobody has started has
\* no progress: start, which resets the progress, takes none away.
Coherent(f) ==
    /\ f \in Quests
    /\ ValidQuest(f)
    /\ f.status = "not_started" => \A o \in Objectives : f.progress[o] = 0

IInv ==
    /\ Coherent(facts)
    /\ file # NoSave => Coherent(file.facts) /\ file.points \in Nat
    /\ health \in [Fighters -> Nat]

\* g comes after f in the life of a quest.
NotBefore(g, f) ==
    /\ Coherent(g)
    /\ Rank(g.status) >= Rank(f.status)
    /\ \A o \in Objectives : g.progress[o] >= f.progress[o]

LEMMA RankIsNat == ASSUME NEW f \in Quests PROVE Rank(f.status) \in Nat
BY DEF Rank, Quests, Statuses

LEMMA NotBeforeItself == ASSUME NEW f, Coherent(f) PROVE NotBefore(f, f)
<1>1. Rank(f.status) \in Nat /\ \A o \in Objectives : f.progress[o] \in Nat
  BY RankIsNat DEF Coherent, Quests
<1>2. QED
  BY <1>1 DEF NotBefore

LEMMA NotBeforeChains ==
  ASSUME NEW f, NEW g, NEW h, Coherent(f), NotBefore(g, f), NotBefore(h, g)
  PROVE  NotBefore(h, f)
<1>1. f \in Quests /\ g \in Quests /\ h \in Quests
  BY DEF NotBefore, Coherent
<1>2. Rank(f.status) \in Nat /\ Rank(g.status) \in Nat /\ Rank(h.status) \in Nat
  BY <1>1, RankIsNat
<1>3. \A o \in Objectives : f.progress[o] \in Nat /\ g.progress[o] \in Nat /\ h.progress[o] \in Nat
  BY <1>1 DEF Quests
<1>4. \A o \in Objectives : h.progress[o] >= f.progress[o]
  BY <1>3 DEF NotBefore
<1>5. Rank(h.status) >= Rank(f.status)
  BY <1>2 DEF NotBefore
<1>6. QED
  BY <1>4, <1>5 DEF NotBefore

-----------------------------------------------------------------------------
(* One action.                                                             *)
LEMMA FlaggedKeeps ==
  ASSUME NEW f, Coherent(f), NEW id \in FlagIds, NEW value \in BOOLEAN
  PROVE  NotBefore(Flagged(f, id, value), f) /\ Flagged(f, id, value).progress = f.progress
<1> DEFINE g == Flagged(f, id, value)
<1>1. f \in Quests
  BY DEF Coherent
<1>2. /\ g \in Quests /\ g.status = f.status /\ g.progress = f.progress
  BY <1>1 DEF Flagged, Quests
<1> HIDE DEF g
<1>3. Coherent(g)
  BY <1>2 DEF Coherent, ValidQuest, Done
<1>4. NotBefore(g, g)
  BY <1>3, NotBeforeItself
<1>5. NotBefore(g, f)
  BY <1>2, <1>4 DEF NotBefore
<1>6. QED
  BY <1>2, <1>5 DEF g

LEMMA StartedKeeps ==
  ASSUME NEW f, Coherent(f), MayStart(f)
  PROVE  /\ NotBefore(Started(f), f)
         /\ \A o \in Objectives : Started(f).progress[o] = f.progress[o]
<1> DEFINE g == Started(f)
<1>1. f \in Quests /\ f.status = "not_started" /\ \A o \in Objectives : f.progress[o] = 0
  BY DEF Coherent, MayStart
<1>2. g \in Quests /\ g.status = "active" /\ g.progress = [o \in Objectives |-> 0]
  BY <1>1 DEF Started, Quests, Statuses
<1> HIDE DEF g
<1>3. Coherent(g)
  BY <1>2, StoryAssumption DEF Coherent, ValidQuest, Done
<1>4. NotBefore(g, f)
  BY <1>1, <1>2, <1>3 DEF NotBefore, Rank
<1>5. QED
  BY <1>1, <1>2, <1>4 DEF g

LEMMA AdvancedKeeps ==
  ASSUME NEW f, Coherent(f), NEW o \in Objectives, NEW amount \in Nat, MayAdvance(f, o)
  PROVE  NotBefore(AdvancedBy(f, o, amount), f)
<1> DEFINE g == AdvancedBy(f, o, amount)
           more == Lesser(Target[o], f.progress[o] + amount)
<1>1. f \in Quests /\ f.status = "active" /\ ValidQuest(f)
  BY DEF Coherent, MayAdvance
<1>2. /\ f.progress[o] \in 0..Target[o] /\ Target[o] \in Nat /\ f.progress \in [Objectives -> Nat]
  BY <1>1, StoryAssumption DEF ValidQuest, Quests
<1>3. more \in Nat /\ more >= f.progress[o] /\ more <= Target[o]
  BY <1>2 DEF Lesser
<1>4. g = [f EXCEPT !.progress = [f.progress EXCEPT ![o] = more]]
  BY <1>1 DEF AdvancedBy, Quests
<1> HIDE DEF g, more
<1>5. /\ g \in Quests /\ g.status = "active" /\ g.progress = [f.progress EXCEPT ![o] = more]
  BY <1>1, <1>2, <1>3, <1>4 DEF Quests
<1>6. \A p \in Objectives : /\ g.progress[p] \in Nat /\ g.progress[p] >= f.progress[p]
                            /\ g.progress[p] <= Target[p]
  BY <1>1, <1>2, <1>3, <1>5, StoryAssumption DEF ValidQuest, Quests
<1>7. Coherent(g)
  BY <1>5, <1>6, StoryAssumption DEF Coherent, ValidQuest
<1>8. Rank(g.status) >= Rank(f.status)
  BY <1>1, <1>5 DEF Rank
<1>9. NotBefore(g, f)
  BY <1>6, <1>7, <1>8 DEF NotBefore
<1>10. QED
  BY <1>9 DEF g

LEMMA CompletedKeeps ==
  ASSUME NEW f, Coherent(f), MayComplete(f)
  PROVE  NotBefore(Completed(f), f) /\ Completed(f).progress = f.progress
<1> DEFINE g == Completed(f)
<1>1. f \in Quests /\ f.status = "active" /\ ValidQuest(f) /\ \A o \in Objectives : Done(f, o)
  BY DEF Coherent, MayComplete
<1>2. g \in Quests /\ g.status = "completed" /\ g.progress = f.progress
  BY <1>1 DEF Completed, Quests, Statuses
<1> HIDE DEF g
<1>3. Coherent(g)
  BY <1>1, <1>2 DEF Coherent, ValidQuest, Done
<1>4. \A o \in Objectives : g.progress[o] >= f.progress[o]
  BY <1>1, <1>2 DEF Quests
<1>5. NotBefore(g, f)
  BY <1>1, <1>2, <1>3, <1>4 DEF NotBefore, Rank
<1>6. QED
  BY <1>2, <1>5 DEF g

LEMMA ResultKeeps ==
  ASSUME NEW f, Coherent(f), NEW act \in Actions, Succeeds(act, f)
  PROVE  NotBefore(Result(act, f), f)
<1>1. CASE act \in [type : {"set_flag"}, id : FlagIds, value : BOOLEAN]
  <2>1. act.type = "set_flag" /\ act.id \in FlagIds /\ act.value \in BOOLEAN
    BY <1>1
  <2>2. Result(act, f) = Flagged(f, act.id, act.value)
    BY <2>1 DEF Result
  <2>3. QED
    BY <2>1, <2>2, FlaggedKeeps
<1>2. CASE act \in [type : {"start_quest", "complete_quest"}]
  <2>1. act.type \in {"start_quest", "complete_quest"}
    BY <1>2
  <2>2. CASE act.type = "start_quest"
    BY <2>2, StartedKeeps DEF Succeeds, Result
  <2>3. CASE act.type = "complete_quest"
    BY <2>3, CompletedKeeps DEF Succeeds, Result
  <2>4. QED
    BY <2>1, <2>2, <2>3
<1>3. CASE act \in [type : {"advance_quest"}, objective : Objectives, amount : Nat \ {0}]
  <2>1. act.type = "advance_quest" /\ act.objective \in Objectives /\ act.amount \in Nat
    BY <1>3
  <2>2. MayAdvance(f, act.objective) /\ Result(act, f) = AdvancedBy(f, act.objective, act.amount)
    BY <2>1 DEF Succeeds, Result
  <2>3. QED
    BY <2>1, <2>2, AdvancedKeeps
<1>4. QED
  BY <1>1, <1>2, <1>3 DEF Actions

-----------------------------------------------------------------------------
(* Lists of actions, and the lists bound to a death.                       *)
LEMMA NatSetInduction ==
  ASSUME NEW Q, 0 \in Q, \A k \in Nat : k \in Q => k + 1 \in Q
  PROVE  Nat \subseteq Q
<1>1. SUFFICES ASSUME Nat \ Q # {} PROVE FALSE
  OBVIOUS
<1> DEFINE R == {ss \in Nat \X Nat : ss[1] < ss[2]}
<1>2. IsWellFoundedOn(R, Nat)
  BY NatLessThanWellFounded DEF OpToRel
<1>3. PICK m \in Nat \ Q : \A k \in Nat \ Q : <<k, m>> \notin R
  BY <1>1, <1>2, WFMin
<1>4. m # 0 /\ m - 1 \in Nat
  BY <1>3
<1>5. <<m - 1, m>> \in R
  BY <1>4
<1>6. m - 1 \in Q
  BY <1>3, <1>4, <1>5
<1>7. QED
  BY <1>3, <1>4, <1>6

RunStep(acts, f, run, n) ==
    IF n = 0 THEN [ok |-> TRUE, facts |-> f] ELSE Execute(run[n - 1], acts[n])

LEMMA RunExists ==
  ASSUME NEW acts, NEW f, Len(acts) \in Nat
  PROVE  \E run : run = [n \in 0..Len(acts) |-> RunStep(acts, f, run, n)]
<1> DEFINE Solved(k) == \E run : run = [n \in 0..k |-> RunStep(acts, f, run, n)]
           Good == { k \in Nat : Solved(k) }
<1>1. Solved(0)
  <2> DEFINE run == [n \in 0..0 |-> [ok |-> TRUE, facts |-> f]]
  <2>1. run = [n \in 0..0 |-> RunStep(acts, f, run, n)]
    BY DEF RunStep
  <2> HIDE DEF run
  <2>2. QED
    BY <2>1
<1>2. ASSUME NEW k \in Nat, Solved(k)
      PROVE  Solved(k + 1)
  <2>1. PICK run : run = [n \in 0..k |-> RunStep(acts, f, run, n)]
    BY <1>2
  <2> DEFINE longer == [n \in 0..(k + 1) |-> RunStep(acts, f, run, n)]
  <2>2. \A n \in 0..k : longer[n] = run[n]
    BY <2>1
  <2>3. \A n \in 0..(k + 1) : n = 0 \/ n - 1 \in 0..k
    OBVIOUS
  <2>4. \A n \in 0..(k + 1) : RunStep(acts, f, run, n) = RunStep(acts, f, longer, n)
    <3> HIDE DEF longer
    <3> QED BY <2>2, <2>3 DEF RunStep
  <2>5. longer = [n \in 0..(k + 1) |-> RunStep(acts, f, longer, n)]
    BY <2>4
  <2> HIDE DEF longer
  <2>6. QED
    BY <2>5
<1>3. Len(acts) \in Good
  <2>1. 0 \in Good /\ \A k \in Nat : k \in Good => k + 1 \in Good
    <3> HIDE DEF Solved
    <3> QED BY <1>1, <1>2
  <2> HIDE DEF Good
  <2>2. Nat \subseteq Good
    BY <2>1, NatSetInduction
  <2>3. QED
    BY <2>2
<1>4. QED
  BY <1>3

\* execute_all, wherever it stops, leaves the quest coherent and no further
\* back than it was.
LEMMA ExecutedKeeps ==
  ASSUME NEW acts \in Seq(Actions), NEW f, Coherent(f)
  PROVE  NotBefore(Executed(acts, f).facts, f)
<1> DEFINE run == CHOOSE r : r = [n \in 0..Len(acts) |-> RunStep(acts, f, r, n)]
           Good == { n \in Nat : n \in 0..Len(acts) =>
                       /\ run[n] = [ok |-> run[n].ok, facts |-> run[n].facts]
                       /\ NotBefore(run[n].facts, f) }
<1>1. Len(acts) \in Nat /\ \A n \in 1..Len(acts) : acts[n] \in Actions
  OBVIOUS
<1>2. Executed(acts, f) = run[Len(acts)]
  BY DEF Executed, RunStep
<1>3. run = [n \in 0..Len(acts) |-> RunStep(acts, f, run, n)]
  BY <1>1, RunExists
<1> HIDE DEF run
<1>4. 0 \in Good
  <2>1. run[0] = [ok |-> TRUE, facts |-> f]
    BY <1>1, <1>3 DEF RunStep
  <2>2. QED
    BY <2>1, NotBeforeItself
<1>5. ASSUME NEW k \in Nat, k \in Good
      PROVE  k + 1 \in Good
  <2>1. SUFFICES ASSUME k + 1 \in 0..Len(acts)
                 PROVE  /\ run[k + 1] = [ok |-> run[k + 1].ok, facts |-> run[k + 1].facts]
                        /\ NotBefore(run[k + 1].facts, f)
    OBVIOUS
  <2>2. k + 1 \in 1..Len(acts) /\ k \in 0..Len(acts) /\ (k + 1) - 1 = k /\ k + 1 # 0
    BY <1>1, <2>1
  <2>3. run[k + 1] = Execute(run[k], acts[k + 1]) /\ acts[k + 1] \in Actions
    BY <1>1, <1>3, <2>1, <2>2 DEF RunStep
  <2> DEFINE now == run[k]
             act == acts[k + 1]
  <2>4. /\ now = [ok |-> now.ok, facts |-> now.facts]
        /\ NotBefore(now.facts, f) /\ Coherent(now.facts)
    BY <1>5, <2>2 DEF NotBefore
  <2> HIDE DEF now, act, Good
  <2>5. CASE now.ok /\ Succeeds(act, now.facts)
    <3>1. Execute(now, act) = [ok |-> now.ok, facts |-> Result(act, now.facts)]
      BY <2>4, <2>5 DEF Execute
    <3>2. NotBefore(Result(act, now.facts), f)
      BY <2>3, <2>4, <2>5, ResultKeeps, NotBeforeChains DEF act
    <3>3. QED
      BY <2>3, <3>1, <3>2 DEF now, act
  <2>6. CASE ~(now.ok /\ Succeeds(act, now.facts))
    <3>1. Execute(now, act) = [ok |-> FALSE, facts |-> now.facts]
      BY <2>4, <2>6 DEF Execute
    <3>2. QED
      BY <2>3, <2>4, <3>1 DEF now, act
  <2>7. QED
    BY <2>5, <2>6
<1>6. Nat \subseteq Good
  <2> HIDE DEF Good
  <2> QED BY <1>4, <1>5, NatSetInduction
<1>7. NotBefore(run[Len(acts)].facts, f)
  <2>1. Len(acts) \in Good /\ Len(acts) \in 0..Len(acts)
    <3> HIDE DEF Good
    <3> QED BY <1>1, <1>6
  <2>2. QED
    BY <2>1
<1>8. QED
  BY <1>2, <1>7

MournStep(f, after, n) == IF n = 0 THEN f ELSE AfterBinding(after[n - 1], Bindings[n])

LEMMA MournExists ==
  ASSUME NEW f
  PROVE  \E after : after = [n \in 0..Len(Bindings) |-> MournStep(f, after, n)]
<1> DEFINE Solved(k) == \E after : after = [n \in 0..k |-> MournStep(f, after, n)]
           Good == { k \in Nat : Solved(k) }
<1>1. Solved(0)
  <2> DEFINE after == [n \in 0..0 |-> f]
  <2>1. after = [n \in 0..0 |-> MournStep(f, after, n)]
    BY DEF MournStep
  <2> HIDE DEF after
  <2>2. QED
    BY <2>1
<1>2. ASSUME NEW k \in Nat, Solved(k)
      PROVE  Solved(k + 1)
  <2>1. PICK after : after = [n \in 0..k |-> MournStep(f, after, n)]
    BY <1>2
  <2> DEFINE longer == [n \in 0..(k + 1) |-> MournStep(f, after, n)]
  <2>2. \A n \in 0..k : longer[n] = after[n]
    BY <2>1
  <2>3. \A n \in 0..(k + 1) : n = 0 \/ n - 1 \in 0..k
    OBVIOUS
  <2>4. \A n \in 0..(k + 1) : MournStep(f, after, n) = MournStep(f, longer, n)
    <3> HIDE DEF longer
    <3> QED BY <2>2, <2>3 DEF MournStep
  <2>5. longer = [n \in 0..(k + 1) |-> MournStep(f, longer, n)]
    BY <2>4
  <2> HIDE DEF longer
  <2>6. QED
    BY <2>5
<1>3. Len(Bindings) \in Nat
  BY ContentAssumption
<1>4. Len(Bindings) \in Good
  <2>1. 0 \in Good /\ \A k \in Nat : k \in Good => k + 1 \in Good
    <3> HIDE DEF Solved
    <3> QED BY <1>1, <1>2
  <2> HIDE DEF Good
  <2>2. Nat \subseteq Good
    BY <2>1, NatSetInduction
  <2>3. QED
    BY <1>3, <2>2
<1>5. QED
  BY <1>4

\* So do all the bindings of a death, one after the other.
LEMMA MournedKeeps ==
  ASSUME NEW f, Coherent(f)
  PROVE  NotBefore(Mourned(f), f)
<1> DEFINE after == CHOOSE a : a = [n \in 0..Len(Bindings) |-> MournStep(f, a, n)]
           Good == { n \in Nat : n \in 0..Len(Bindings) => NotBefore(after[n], f) }
<1>1. Len(Bindings) \in Nat /\ \A n \in 1..Len(Bindings) : Bindings[n] \in Seq(Actions)
  BY ContentAssumption
<1>2. Mourned(f) = after[Len(Bindings)]
  BY DEF Mourned, MournStep
<1>3. after = [n \in 0..Len(Bindings) |-> MournStep(f, after, n)]
  BY MournExists
<1> HIDE DEF after
<1>4. 0 \in Good
  <2>1. after[0] = f
    BY <1>1, <1>3 DEF MournStep
  <2>2. QED
    BY <2>1, NotBeforeItself
<1>5. ASSUME NEW k \in Nat, k \in Good
      PROVE  k + 1 \in Good
  <2>1. SUFFICES ASSUME k + 1 \in 0..Len(Bindings) PROVE NotBefore(after[k + 1], f)
    OBVIOUS
  <2>2. k + 1 \in 1..Len(Bindings) /\ k \in 0..Len(Bindings) /\ (k + 1) - 1 = k /\ k + 1 # 0
    BY <1>1, <2>1
  <2>3. NotBefore(after[k], f) /\ Coherent(after[k])
    BY <1>5, <2>2 DEF NotBefore
  <2>4. after[k + 1] = Executed(Bindings[k + 1], after[k]).facts
    BY <1>3, <2>1, <2>2 DEF MournStep, AfterBinding
  <2>5. Bindings[k + 1] \in Seq(Actions)
    BY <1>1, <2>2
  <2>6. NotBefore(after[k + 1], after[k])
    BY <2>3, <2>4, <2>5, ExecutedKeeps
  <2>7. QED
    BY <2>3, <2>6, NotBeforeChains
<1>6. Nat \subseteq Good
  <2> HIDE DEF Good
  <2> QED BY <1>4, <1>5, NatSetInduction
<1>7. NotBefore(after[Len(Bindings)], f)
  BY <1>1, <1>6
<1>8. QED
  BY <1>2, <1>7

-----------------------------------------------------------------------------
(* A step of the game.                                                     *)
Raised == \E o \in Objectives : facts'.progress[o] > facts.progress[o]

\* What a step that does not rebuild the session does to the quest.
Forward ==
    /\ NotBefore(facts', facts)
    /\ Raised => \/ ~Dead(Rat) /\ health'[Rat] = 0
                 \/ \E o \in Objectives : DebugQuest /\ MayAdvance(facts, o)
                 \/ ~Quiet

LEMMA StillKeeps ==
  ASSUME IInv, facts' = facts
  PROVE  Forward
<1>1. NotBefore(facts, facts) /\ \A o \in Objectives : facts.progress[o] \in Nat
  BY NotBeforeItself DEF IInv, Coherent, Quests
<1>2. ~Raised
  BY <1>1 DEF Raised
<1>3. QED
  BY <1>1, <1>2 DEF Forward

LEMMA HurtKeeps ==
  ASSUME IInv, NEW a \in Fighters, NEW amount \in Nat, Hurt(a, amount)
  PROVE  Forward /\ health' \in [Fighters -> Nat]
<1>1. health \in [Fighters -> Nat] /\ health[a] \in Nat /\ Rat \in Fighters
  BY DEF IInv, Fighters
<1>2. health' = [health EXCEPT ![a] = IF health[a] > amount THEN health[a] - amount ELSE 0]
  BY DEF Hurt
<1>3. health' \in [Fighters -> Nat]
  BY <1>1, <1>2
<1>4. CASE a = Rat /\ amount >= health[a]
  <2>1. ~Dead(Rat) /\ health'[Rat] = 0
    BY <1>1, <1>2, <1>4 DEF Hurt
  <2>2. NotBefore(facts', facts)
    BY <1>4, MournedKeeps DEF Hurt, IInv
  <2>3. QED
    BY <1>3, <2>1, <2>2 DEF Forward
<1>5. CASE ~(a = Rat /\ amount >= health[a])
  <2>1. facts' = facts
    BY <1>5 DEF Hurt
  <2>2. QED
    BY <1>3, <2>1, StillKeeps
<1>6. QED
  BY <1>4, <1>5

LEMMA StrikeKeeps ==
  ASSUME IInv, NEW a \in Fighters, NEW b \in Fighters, Strike(a, b)
  PROVE  Forward /\ health' \in [Fighters -> Nat] /\ file' = file
<1>1. PICK amount \in Damage[a] : Hurt(b, amount)
  BY DEF Strike
<1>2. amount \in Nat
  BY <1>1, StoryAssumption
<1>3. QED
  BY <1>1, <1>2, HurtKeeps DEF Strike

LEMMA DebugQuestKeeps ==
  ASSUME IInv, DebugQuest
  PROVE  Forward
<1>1. PICK act \in DebugActions : Succeeds(act, facts) /\ facts' = Result(act, facts)
  BY DEF DebugQuest
<1>2. Coherent(facts)
  BY DEF IInv
<1>3. CASE act = [type |-> "start_quest"]
  <2>1. act.type = "start_quest"
    BY <1>3
  <2>2. MayStart(facts) /\ facts' = Started(facts)
    BY <1>1, <2>1 DEF Succeeds, Result
  <2>3. /\ NotBefore(facts', facts) /\ \A o \in Objectives : facts'.progress[o] = facts.progress[o]
    BY <1>2, <2>2, StartedKeeps
  <2>4. ~Raised
    BY <1>2, <2>3 DEF Raised, Coherent, Quests
  <2>5. QED
    BY <2>3, <2>4 DEF Forward
<1>4. CASE act = [type |-> "complete_quest"]
  <2>1. act.type = "complete_quest"
    BY <1>4
  <2>2. MayComplete(facts) /\ facts' = Completed(facts)
    BY <1>1, <2>1 DEF Succeeds, Result
  <2>3. NotBefore(facts', facts) /\ facts'.progress = facts.progress
    BY <1>2, <2>2, CompletedKeeps
  <2>4. ~Raised
    BY <1>2, <2>3 DEF Raised, Coherent, Quests
  <2>5. QED
    BY <2>3, <2>4 DEF Forward
<1>5. ASSUME NEW o \in Objectives, act = [type |-> "advance_quest", objective |-> o, amount |-> 1]
      PROVE  Forward
  <2>1. act.type = "advance_quest" /\ act.objective = o /\ act.amount = 1
    BY <1>5
  <2>2. MayAdvance(facts, o) /\ facts' = AdvancedBy(facts, o, 1)
    BY <1>1, <2>1 DEF Succeeds, Result
  <2>3. NotBefore(facts', facts)
    BY <1>2, <2>2, AdvancedKeeps
  <2>4. QED
    BY <2>2, <2>3 DEF Forward
<1>6. QED
  BY <1>1, <1>3, <1>4, <1>5 DEF DebugActions

LEMMA ChooseKeeps ==
  ASSUME IInv, NEW c \in Replies, Choose(c)
  PROVE  Forward
<1>1. c.node = node /\ c.node # Closed /\ c.actions \in Seq(Actions)
  BY ContentAssumption DEF Choose, Available, Visible
<1>2. ~Quiet
  BY <1>1 DEF Quiet
<1>3. NotBefore(facts', facts)
  BY <1>1, ExecutedKeeps DEF Choose, IInv
<1>4. QED
  BY <1>2, <1>3 DEF Forward

LEMMA SessionKeeps ==
  ASSUME NEW f, Coherent(f), NEW points \in Nat, Session(f, points)
  PROVE  Coherent(facts') /\ health' \in [Fighters -> Nat]
BY StoryAssumption DEF Session, Fighters

LEMMA RebuildKeeps ==
  ASSUME IInv, Rebuild
  PROVE  IInv'
<1>1. Coherent(NoFacts)
  BY StoryAssumption DEF NoFacts, Coherent, Quests, Statuses, ValidQuest, Done
<1>2. MaxHealth[Player] \in Nat
  BY StoryAssumption DEF Fighters
<1>3. CASE Reset
  <2>1. Coherent(facts') /\ health' \in [Fighters -> Nat] /\ file' = NoSave
    BY <1>1, <1>2, <1>3, SessionKeeps DEF Reset
  <2>2. QED
    BY <2>1 DEF IInv
<1>4. CASE Restored /\ UNCHANGED file
  <2>1. Coherent(facts') /\ health' \in [Fighters -> Nat]
    BY <1>1, <1>2, <1>4, SessionKeeps DEF Restored, IInv
  <2>2. QED
    BY <1>4, <2>1 DEF IInv
<1>5. QED
  BY <1>3, <1>4 DEF Rebuild, Load, Restart

LEMMA SaveKeeps ==
  ASSUME IInv, Save
  PROVE  Forward /\ IInv'
<1>1. /\ file' = [facts |-> facts, points |-> health[Player]]
      /\ facts' = facts /\ health' = health /\ health[Player] \in Nat
  BY DEF Save, IInv, Fighters
<1>2. QED
  BY <1>1, StillKeeps DEF IInv

LEMMA StepKeeps ==
  ASSUME IInv, [Next]_vars
  PROVE  IInv' /\ (Rebuild \/ Forward)
<1>1. ASSUME Forward, health' \in [Fighters -> Nat], file' = file
      PROVE  IInv'
  BY <1>1 DEF IInv, Forward, NotBefore
<1>2. health \in [Fighters -> Nat]
  BY DEF IInv
<1>3. CASE PlayerAttacks \/ RatAttacks
  <2>1. \E a, b \in Fighters : Strike(a, b)
    BY <1>3 DEF PlayerAttacks, RatAttacks, Fighters
  <2>2. QED
    BY <1>1, <2>1, StrikeKeeps
<1>4. CASE DebugDamage
  <2>1. PICK amount \in Damage[Player] : Hurt(Rat, amount)
    BY <1>4 DEF DebugDamage
  <2>2. amount \in Nat /\ Rat \in Fighters
    BY <2>1, StoryAssumption DEF Fighters
  <2>3. QED
    BY <1>1, <1>4, <2>1, <2>2, HurtKeeps DEF DebugDamage
<1>5. CASE Frame \/ PlayerWalks \/ VillagerWalks \/ BeginTalk \/ CloseTalk \/ UNCHANGED vars
  <2>1. facts' = facts /\ health' = health /\ file' = file
    BY <1>5 DEF Frame, PlayerWalks, VillagerWalks, BeginTalk, CloseTalk, vars
  <2>2. QED
    BY <1>1, <1>2, <2>1, StillKeeps
<1>6. CASE \E c \in Replies : Choose(c)
  <2>1. PICK c \in Replies : Choose(c)
    BY <1>6
  <2>2. health' = health /\ file' = file
    BY <2>1 DEF Choose
  <2>3. QED
    BY <1>1, <1>2, <2>1, <2>2, ChooseKeeps
<1>7. CASE \E id \in FlagIds : DebugFlag(id)
  <2>1. PICK id \in FlagIds : DebugFlag(id)
    BY <1>7
  <2>2. /\ facts' = Flagged(facts, id, id \notin facts.flags)
        /\ health' = health /\ file' = file /\ Coherent(facts)
    BY <2>1 DEF DebugFlag, IInv
  <2>3. NotBefore(facts', facts) /\ facts'.progress = facts.progress
    BY <2>2, FlaggedKeeps
  <2>4. ~Raised
    BY <2>2, <2>3 DEF Raised, Coherent, Quests
  <2>5. Forward
    BY <2>3, <2>4 DEF Forward
  <2>6. QED
    BY <1>1, <1>2, <2>2, <2>5
<1>8. CASE DebugQuest
  <2>1. health' = health /\ file' = file
    BY <1>8 DEF DebugQuest
  <2>2. QED
    BY <1>1, <1>2, <1>8, <2>1, DebugQuestKeeps
<1>9. CASE Save
  BY <1>9, SaveKeeps
<1>10. CASE Load \/ Reset \/ Restart
  BY <1>10, RebuildKeeps DEF Rebuild
<1>11. QED
  BY <1>3, <1>4, <1>5, <1>6, <1>7, <1>8, <1>9, <1>10 DEF Next

LEMMA InitCoherent == Init => IInv
<1> SUFFICES ASSUME Init PROVE IInv
  OBVIOUS
<1>1. Coherent(facts)
  BY StoryAssumption DEF Init, NoFacts, Coherent, Quests, Statuses, ValidQuest, Done
<1>2. QED
  BY <1>1, StoryAssumption DEF Init, IInv

\* quests.validate_snapshot, which create_session asserts, never stops the
\* game: it accepts the quest as it is at any time, and whatever was saved.
THEOREM SavedQuestsLoad ==
  Spec => [](ValidQuest(facts) /\ (file # NoSave => ValidQuest(file.facts)))
<1>1. IInv => ValidQuest(facts) /\ (file # NoSave => ValidQuest(file.facts))
  BY DEF IInv, Coherent
<1>2. IInv /\ [Next]_vars => IInv'
  BY StepKeeps
<1>3. QED
  BY <1>1, <1>2, InitCoherent, PTL DEF Spec

\* Whatever actions are bound to the death and to the replies, progress is
\* made by a death, once, by the debug key or by a reply, and without loading,
\* resetting or restarting no quest falls back and no objective loses any.
THEOREM QuestStaysSound == Spec => QuestIsSound
<1> DEFINE Earned ==
             Raised => \/ ~Dead(Rat) /\ health'[Rat] = 0
                       \/ \E o \in Objectives : DebugQuest /\ MayAdvance(facts, o)
                       \/ ~Quiet
                       \/ Rebuild
           Advances ==
             \/ Rebuild
             \/ /\ Rank(facts'.status) >= Rank(facts.status)
                /\ \A o \in Objectives : facts'.progress[o] >= facts.progress[o]
<1>1. IInv /\ [Next]_vars => IInv'
  BY StepKeeps
<1>2. IInv /\ [Next]_vars => [Earned]_vars
  <2> SUFFICES ASSUME IInv, Next PROVE Earned
    BY DEF vars
  <2>1. Rebuild \/ Forward
    BY StepKeeps
  <2>2. QED
    BY <2>1 DEF Forward
<1>3. IInv /\ [Next]_vars => [Advances]_vars
  <2> SUFFICES ASSUME IInv, Next PROVE Advances
    BY DEF vars
  <2>1. Rebuild \/ Forward
    BY StepKeeps
  <2>2. QED
    BY <2>1 DEF Forward, NotBefore
<1>4. QED
  BY <1>1, <1>2, <1>3, InitCoherent, PTL DEF Spec, QuestIsSound, ProgressIsEarned, QuestOnlyAdvances, Raised

-----------------------------------------------------------------------------
(* The conversation. What the player does outside it waits for it to end,  *)
(* so the quest moves by its replies alone, and the contract of the node   *)
(* it stands at goes on holding.                                           *)
InContract(contracts) ==
    ~Quiet => node \in DOMAIN contracts /\ Meets(facts, contracts[node])

LEMMA CoherentIsPossible == ASSUME NEW f, Coherent(f) PROVE f \in PossibleFacts
<1>1. f \in Quests /\ ValidQuest(f)
  BY DEF Coherent
<1>2. f.progress \in [Objectives -> Nat] /\ \A o \in Objectives : f.progress[o] \in 0..Target[o]
  BY <1>1 DEF Quests, ValidQuest
<1>3. f.progress \in Progresses
  <2>1. \A o \in Objectives : f.progress[o] \in UNION { 0..Target[p] : p \in Objectives }
    BY <1>2
  <2>2. f.progress \in [Objectives -> UNION { 0..Target[p] : p \in Objectives }]
    BY <1>2, <2>1
  <2>3. \A o \in Objectives : f.progress[o] <= Target[o]
    BY <1>2, StoryAssumption
  <2>4. QED
    BY <2>2, <2>3 DEF Progresses
<1>4. QED
  BY <1>1, <1>3 DEF PossibleFacts, Quests, Statuses, Coherent, ValidQuest

\* A reply that can be chosen keeps its node's contract.
LEMMA ChooseInContract ==
  ASSUME NEW contracts, Contracted(contracts), IInv, InContract(contracts),
         NEW c \in Replies, Choose(c)
  PROVE  InContract(contracts)'
<1>1. c \in Visible(node, facts) /\ c.node = node /\ ~Quiet
  BY ContentAssumption DEF Choose, Available, Visible, Quiet
<1>2. node \in DOMAIN contracts /\ Meets(facts, contracts[node]) /\ facts \in PossibleFacts
  BY <1>1, CoherentIsPossible DEF InContract, IInv
<1>3. KeepsContract(contracts, c, facts)
  BY <1>1, <1>2 DEF Contracted
<1>4. facts' = Executed(c.actions, facts).facts /\ node' = c.next
  BY <1>3 DEF Choose, KeepsContract
<1>5. node' # Closed => node' \in DOMAIN contracts /\ Meets(facts', contracts[node'])
  BY <1>3, <1>4 DEF KeepsContract
<1>6. QED
  BY <1>5 DEF InContract, Quiet

LEMMA StepInContract ==
  ASSUME NEW contracts, Contracted(contracts), IInv, InContract(contracts), [Next]_vars
  PROVE  InContract(contracts)'
<1>1. CASE PlayerAttacks \/ RatAttacks \/ DebugDamage \/ PlayerWalks \/ DebugQuest \/ Save
            \/ \E id \in FlagIds : DebugFlag(id)
  <2>1. node = Closed /\ node' = node
    BY <1>1 DEF PlayerAttacks, RatAttacks, Strike, DebugDamage, PlayerWalks, DebugQuest, Save,
                DebugFlag, Quiet
  <2>2. QED
    BY <2>1 DEF InContract, Quiet
<1>2. CASE Frame \/ VillagerWalks \/ UNCHANGED vars
  <2>1. node' = node /\ facts' = facts
    BY <1>2 DEF Frame, VillagerWalks, vars
  <2>2. QED
    BY <2>1 DEF InContract, Quiet
<1>3. CASE BeginTalk
  <2>1. node' = StartNode
    BY <1>3 DEF BeginTalk
  <2>2. QED
    BY <2>1 DEF InContract, Contracted, Meets
<1>4. CASE \E c \in Replies : Choose(c)
  BY <1>4, ChooseInContract
<1>5. CASE CloseTalk \/ Load \/ Reset \/ Restart
  <2>1. node' = Closed
    BY <1>5 DEF CloseTalk, Load, Reset, Restart, Restored, Session
  <2>2. QED
    BY <2>1 DEF InContract, Quiet
<1>6. QED
  BY <1>1, <1>2, <1>3, <1>4, <1>5 DEF Next

\* Whatever the player, the rat and the villager do in the meantime: if the
\* authored dialogue keeps its contracts, one reply at a time, then no visible
\* reply ever fails, none lacks a key and one always leaves. The contracts of
\* the shipped dialogue are in MCStory.
THEOREM RepliesAlwaysWork ==
  ASSUME NEW contracts, Contracted(contracts)
  PROVE  Spec => []RepliesWork
<1>1. Init => IInv /\ InContract(contracts)
  BY InitCoherent DEF Init, InContract, Quiet
<1>2. IInv /\ InContract(contracts) /\ [Next]_vars => (IInv /\ InContract(contracts))'
  BY StepKeeps, StepInContract
<1>3. IInv /\ InContract(contracts) => RepliesWork
  <2> SUFFICES ASSUME IInv, InContract(contracts) PROVE RepliesWork
    OBVIOUS
  <2>1. CASE Quiet
    <3>1. Available = {}
      BY <2>1, ContentAssumption DEF Quiet, Available, Visible
    <3>2. QED
      BY <2>1, <3>1 DEF RepliesWork, RepliesSucceed, RepliesHaveKeys
  <2>2. CASE ~Quiet
    <3>1. node \in DOMAIN contracts /\ Meets(facts, contracts[node]) /\ facts \in PossibleFacts
      BY <2>2, CoherentIsPossible DEF InContract, IInv
    <3>2. /\ \A c \in Available : KeepsContract(contracts, c, facts)
          /\ Cardinality(Available) <= 4
          /\ \E c \in Available : c.next = Closed
      BY <3>1 DEF Contracted, Available
    <3>3. QED
      BY <3>2 DEF RepliesWork, RepliesSucceed, RepliesHaveKeys, KeepsContract
  <2>3. QED
    BY <2>1, <2>2
<1>4. QED
  BY <1>1, <1>2, <1>3, PTL DEF Spec

=============================================================================
