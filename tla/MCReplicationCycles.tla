------------------------- MODULE MCReplicationCycles -------------------------
(***************************************************************************)
(* A loop of three, ab -> bc -> ca, and a loop of two, ab -> ba, whose     *)
(* second half names the same databases by other PostgresDBs, on other     *)
(* PostgresInstances.                                                      *)
(***************************************************************************)
EXTENDS ReplicationCycles, TLC

MCPlace == {"A", "B", "C"}
MCServer == [p \in MCPlace |-> p]

Is(i, p) == [name |-> i, place |-> p]
Home == {"a" :> Is("i", "A") @@ "b" :> Is("j", "B") @@ "c" :> Is("k", "C")
           @@ "a2" :> Is("i2", "A") @@ "b2" :> Is("j2", "B")}

\* Made again, on an instance of another name for any of the servers; or its own
\* instance is edited to name the server of c.
MCSite == {Is("i", "A"), Is("j", "B"), Is("k", "C"), Is("i2", "A"), Is("j2", "B"), Is("j", "C")}
MCName == {s.name : s \in MCSite}

MCEnds == [ab |-> [source |-> "a", target |-> "b"], bc |-> [source |-> "b", target |-> "c"],
           ca |-> [source |-> "c", target |-> "a"], ba |-> [source |-> "b2", target |-> "a2"]]

\* Any three replications in a quiet cluster, or any two in a lively one.
MCBudgets == {[creations |-> 3, meddling |-> 0, fails |-> 0],
              [creations |-> 2, meddling |-> 2, fails |-> 0],
              [creations |-> 2, meddling |-> 0, fails |-> 1]}
=============================================================================
