---------------------------- MODULE MCMcpServer -----------------------------
(***************************************************************************)
(* Instances of McpServer for TLC.                                         *)
(***************************************************************************)
EXTENDS McpServer, TLC

CONSTANTS c1, c2, l1, l2, r1, r2, s1, g1

(* Client ids are alike, and so are handlers; logins are not (AnyLogin). *)
Alike == Permutations({c1, c2}) \cup Permutations({r1, r2})
=============================================================================
