----------------------------- MODULE MCPipeline -----------------------------
(* Small instances of Pipeline for TLC. *)
EXTENDS Pipeline, TLC

CONSTANTS c1, c2, s1, s2

\* On a server with a password a connection starts with AUTH and PING.
SetupAndPing == <<Setup, PingServ>>

\* Without a password, database number and cluster there is only the PING.
PingOnly == <<PingServ>>

Symmetry == Permutations(Client) \cup Permutations(Server)
=============================================================================
