------------------------------ MODULE MCMarket ------------------------------
(* Two players; each can offer, accept, and run out of goods and of gold.  *)
EXTENDS Market

CONSTANTS ann, bob

MCPurse == [p \in Player |-> 3]
MCStash == [p \in Player |-> IF p = ann THEN 1 ELSE 0]
MCLocker == [p \in Player |-> IF p = ann THEN 1 ELSE 0]
=============================================================================
