----------------------------- MODULE MCEditSaga -----------------------------
(* Two files with two contents that parse and one that does not.           *)
EXTENDS EditSaga
=============================================================================
