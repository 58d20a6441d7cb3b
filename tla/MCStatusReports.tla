---------------------------- MODULE MCStatusReports ----------------------------
(***************************************************************************)
(* One replication, its two handlers, and a few changes in every mix.      *)
(***************************************************************************)
EXTENDS StatusReports

MCBudgets == {[edits |-> 1, changes |-> 1, losses |-> 1],
              [edits |-> 1, changes |-> 2, losses |-> 0],
              [edits |-> 0, changes |-> 3, losses |-> 0],
              [edits |-> 2, changes |-> 1, losses |-> 0]}
=============================================================================
