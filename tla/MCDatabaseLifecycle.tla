------------------------ MODULE MCDatabaseLifecycle ------------------------
(***************************************************************************)
(* Instance for TLC: a schema of the application's, the one every database *)
(* begins with, an extension and the one every database has.               *)
(***************************************************************************)
EXTENDS DatabaseLifecycle, TLC

CONSTANTS app, plpgsql

EveryStep == PassStep \cup TeardownStep

\* Where a database that was closed is opened again.
ReopenFails == {"reopen"}
StepsOpen == EveryStep \ {"evict", "drop database", "reopen"}
StepsButReopen == (EveryStep \ ReopenFails) \cup {"misconfigured"}

HomeNone == [e \in Extension |-> "none"]
=============================================================================
