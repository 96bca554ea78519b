----------------------------- MODULE MCExtHost ------------------------------
(* Two goroutines share one extension.                                     *)
EXTENDS ExtHost
=============================================================================
