---------------------------- MODULE MCMcpSession ----------------------------
(* A stdio client and one HTTP request at a time.                          *)
EXTENDS McpSession
=============================================================================
