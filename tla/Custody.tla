-------------------------------- MODULE Custody --------------------------------
(***************************************************************************)
(* What a PostgresReplication promises of the things it makes on servers   *)
(* it does not own (docs/design/replication.md, "Only operator-created     *)
(* objects are dropped"; _record_created and teardown_replication in       *)
(* reconcile/replication.py), whatever fails on the way:                   *)
(*                                                                         *)
(*   it makes only what nobody has, and leaves alone what others have;     *)
(*   it takes back only its own, and what another thing still needs last;  *)
(*   what it has is on record whenever it pauses, and nothing of others    *)
(*   ever is;                                                              *)
(*   and it lets go of the resource only with nothing left in reach.       *)
(*                                                                         *)
(* There is no pass, finalizer, server, login or status here: Replication  *)
(* implements this with them.                                              *)
(***************************************************************************)
EXTENDS Naturals

CONSTANTS Thing,  \* what it may make
          Needs   \* Thing -> the things it must outlive

VARIABLES held,      \* what it made and still has
          foreign,   \* what somebody else has under the same name
          recorded,  \* what it has on record as its own
          reachable, \* what is on a server that still exists
          working,   \* is it at work, or paused?
          released,  \* has it let go of the resource?
          meddling   \* acts of others still to come: what only they may do costs one

vars == <<held, foreign, recorded, reachable, working, released, meddling>>

Init ==
  /\ held = {} /\ recorded = {}
  /\ foreign \subseteq Thing /\ reachable = Thing
  /\ ~working /\ ~released
  /\ meddling \in Nat

Start ==
  /\ ~working /\ ~released
  /\ working' = TRUE
  /\ UNCHANGED <<held, foreign, recorded, reachable, released, meddling>>

Make(t) ==
  /\ working
  /\ t \notin held \cup foreign
  /\ held' = held \cup {t}
  /\ UNCHANGED <<foreign, recorded, reachable, working, released, meddling>>

\* The record it keeps is of its own things, and replaced as a whole.
Record ==
  /\ working
  /\ recorded' \subseteq Thing \ foreign
  /\ UNCHANGED <<held, foreign, reachable, working, released, meddling>>

Remove(some) ==
  /\ working
  /\ \A t \in some : Needs[t] \cap held \cap reachable = {}
  /\ held' = held \ some
  /\ UNCHANGED <<foreign, recorded, reachable, working, released, meddling>>

\* It is done for now, or fails, or dies.
Pause ==
  /\ working /\ working' = FALSE
  /\ held \subseteq recorded'
  /\ recorded' \subseteq Thing \ foreign
  /\ UNCHANGED <<held, foreign, reachable, released, meddling>>

Release ==
  /\ ~released /\ released' = TRUE
  /\ held \cap reachable = {}
  /\ working' = FALSE
  /\ UNCHANGED <<held, foreign, recorded, reachable, meddling>>

\* Somebody else takes one of its things away, makes one of their own where it
\* has none, or takes servers away.
Meddle ==
  /\ meddling > 0 /\ meddling' = meddling - 1
  /\ UNCHANGED <<recorded, working, released>>

Lose(t) ==
  /\ Meddle
  /\ held' = held \ {t}
  /\ UNCHANGED <<foreign, reachable>>

Claim(t) ==
  /\ Meddle
  /\ t \notin held \cup recorded
  /\ foreign' = foreign \cup {t}
  /\ UNCHANGED <<held, reachable>>

Shrink ==
  /\ Meddle
  /\ reachable' \subseteq reachable
  /\ UNCHANGED <<held, foreign>>

Next ==
  \/ Start \/ Record \/ Pause \/ Release \/ Shrink
  \/ \E t \in Thing : Make(t) \/ Lose(t) \/ Claim(t)
  \/ \E some \in SUBSET held : Remove(some)

Spec == Init /\ [][Next]_vars
=============================================================================
