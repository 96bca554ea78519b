--------------------------- MODULE MCGenerations ----------------------------
(* A sync of the repository removes one of its two declarations.           *)
EXTENDS Generations

MCGraphNodes == [g \in 0..MaxGraph |-> IF g = 1 THEN Nodes ELSE {"n2"}]
=============================================================================
