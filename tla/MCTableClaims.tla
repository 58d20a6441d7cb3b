---------------------------- MODULE MCTableClaims ----------------------------
(***************************************************************************)
(* Two replications, one table, and three instances: i and j are one       *)
(* server, k is another.                                                   *)
(***************************************************************************)
EXTENDS TableClaims, TLC

MCNameOrder == "a" :> 1 @@ "b" :> 2
MCTargetOf == "i" :> "S" @@ "j" :> "S" @@ "k" :> "T"
MCBudgets == {[creations |-> 2, edits |-> 1, fails |-> 0, outages |-> 0],
              [creations |-> 2, edits |-> 0, fails |-> 1, outages |-> 0],
              [creations |-> 2, edits |-> 0, fails |-> 0, outages |-> 1]}
=============================================================================
