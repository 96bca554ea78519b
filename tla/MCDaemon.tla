------------------------------ MODULE MCDaemon ------------------------------
(* Two daemons, at one time or one after the other, and two connections.   *)
EXTENDS Daemon
=============================================================================
