----------------------------- MODULE MCPowerMgr -----------------------------
(* A callback registered for good and two that come and go, in any order,   *)
(* so that one may refuse with others before and after it and one in the    *)
(* middle of the list may leave.  A queue of three messages, where the code *)
(* has eight: a fourth would be lost.                                       *)
EXTENDS PowerMgr
=============================================================================
