------------------------------ MODULE MCWatch -------------------------------
(* A root with one file in a watched directory and one in a new one.       *)
EXTENDS Watch

MCDirOf  == [f \in Files |-> IF f = "a" THEN "D" ELSE "E"]
MCBroken == {<<"a", 1>>}
=============================================================================
