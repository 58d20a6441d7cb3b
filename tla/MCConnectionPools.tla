-------------------------- MODULE MCConnectionPools --------------------------
(***************************************************************************)
(* Instances for TLC.  Four pools are enough: at most two are registered,  *)
(* and two in the hands of the passes, when a new one is opened.           *)
(***************************************************************************)
EXTENDS ConnectionPools

MCPool == {"p1", "p2", "p3", "p4"}
=============================================================================
