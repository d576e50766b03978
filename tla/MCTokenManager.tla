--------------------------- MODULE MCTokenManager ---------------------------
(***************************************************************************)
(* Instances of TokenManager for TLC.                                      *)
(***************************************************************************)
EXTENDS TokenManager, TLC

CONSTANTS loop, c1

LoopAndOneCall == {loop, c1}
=============================================================================
