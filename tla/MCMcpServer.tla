---------------------------- MODULE MCMcpServer ----------------------------
(* Instances of McpServer for TLC: one client talks, and a second process  *)
(* races the first to open the store.                                      *)
EXTENDS McpServer

CONSTANTS s1, s2

MCServers == {s1, s2}
MCMaxLines == [s \in MCServers |-> IF s = s1 THEN 2 ELSE 0]

=============================================================================
