---------------------------- MODULE MCUserAccess ----------------------------
(***************************************************************************)
(* Instance for TLC.  Three passwords are enough for one to be fresh, as   *)
(* the server and the Secret hold two at most.                             *)
(***************************************************************************)
EXTENDS UserAccess, TLC

CONSTANTS orders, p1, p2, p3, gift

EveryStep == PassStep \cup TeardownStep \cup {"misconfigured"}
=============================================================================
