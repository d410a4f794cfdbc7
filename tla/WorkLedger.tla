----------------------------- MODULE WorkLedger -----------------------------
(***************************************************************************)
(* What an executor that accepts work of several classes promises: it      *)
(* holds what it accepted, at most Capacity pieces at a time, until it     *)
(* settles them one by one; it drops work only by closing or once it is    *)
(* closed; and it opens again only when nothing is left of its last life.  *)
(***************************************************************************)
EXTENDS Naturals, FiniteSetsExt

CONSTANTS Class,      \* the classes of work
          Capacity    \* the most that may be held

VARIABLES open,       \* does the executor accept work?
          held        \* how much of each class is accepted and not settled

ledger == <<open, held>>

Load(of) == MapThenSumSet(LAMBDA c : of[c], Class)

Init == open = FALSE /\ held = [c \in Class |-> 0]

Open == /\ ~open
        /\ \A c \in Class : held[c] = 0
        /\ open' = TRUE
        /\ UNCHANGED held

Accept(c) == /\ open
             /\ Load(held) < Capacity
             /\ held' = [held EXCEPT ![c] = @ + 1]
             /\ UNCHANGED open

Settle(c) == /\ held[c] > 0
             /\ held' = [held EXCEPT ![c] = @ - 1]
             /\ UNCHANGED open

Drop == /\ open' = FALSE
        /\ held' \in [Class -> Nat]
        /\ \A c \in Class : held'[c] <= held[c]

Next == Open \/ (\E c \in Class : Accept(c) \/ Settle(c)) \/ Drop

Spec == Init /\ [][Next]_ledger
=============================================================================
