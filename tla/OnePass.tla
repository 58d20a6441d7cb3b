-------------------------------- MODULE OnePass --------------------------------
(***************************************************************************)
(* What ResourceLocks promises the handlers (docstring of the class in     *)
(* reconcile/context.py): of the tasks that ask for a resource one at a    *)
(* time has it, other resources do not make it wait, and each gets its     *)
(* turn.  The modules about one resource - Replication, UserAccess,        *)
(* DatabaseLifecycle, PublicationTables - let one pass run at a time on    *)
(* the strength of it.  No lock, no table and no count appears here: the   *)
(* module ResourceLocks implements it with them.                           *)
(***************************************************************************)
CONSTANTS Task,  \* asyncio tasks
          Key    \* resources

VARIABLES waiting,  \* Key -> the tasks that have asked for the resource
          running   \* Key -> those whose pass over it runs

vars == <<waiting, running>>

Busy(t) == \E k \in Key : t \in waiting[k] \cup running[k]

Init ==
  /\ waiting = [k \in Key |-> {}]
  /\ running = [k \in Key |-> {}]

Ask(t, k) ==
  /\ ~Busy(t)
  /\ waiting' = [waiting EXCEPT ![k] = @ \cup {t}]
  /\ UNCHANGED running

Begin(t, k) ==
  /\ t \in waiting[k] /\ running[k] = {}
  /\ waiting' = [waiting EXCEPT ![k] = @ \ {t}]
  /\ running' = [running EXCEPT ![k] = {t}]

End(t, k) ==
  /\ t \in running[k]
  /\ running' = [running EXCEPT ![k] = @ \ {t}]
  /\ UNCHANGED waiting

\* A task is cancelled while it waits.
GiveUp(t, k) ==
  /\ t \in waiting[k]
  /\ waiting' = [waiting EXCEPT ![k] = @ \ {t}]
  /\ UNCHANGED running

Next == \E t \in Task, k \in Key : Ask(t, k) \/ Begin(t, k) \/ End(t, k) \/ GiveUp(t, k)

\* However often others come first, whoever goes on waiting begins.
Fairness ==
  \A t \in Task, k \in Key : WF_vars(Begin(t, k) \/ GiveUp(t, k)) /\ WF_vars(End(t, k))

Safely == Init /\ [][Next]_vars
Spec == Safely /\ Fairness
=============================================================================
