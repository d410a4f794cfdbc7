--------------------------- MODULE MCMonsterThink ---------------------------
(* Two entries in one queue: the monster is seen, lost from sight and seen *)
(* again before its queue is processed.                                    *)
EXTENDS MonsterThink
=============================================================================
