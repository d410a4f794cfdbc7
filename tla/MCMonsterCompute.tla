-------------------------- MODULE MCMonsterCompute --------------------------
(* Two workers, a capacity of four, so that one place is kept for visible  *)
(* requests, and batches of up to two completions.                         *)
EXTENDS MonsterCompute
=============================================================================
