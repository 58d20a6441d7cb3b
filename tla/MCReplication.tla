---------------------------- MODULE MCReplication ----------------------------
(***************************************************************************)
(* Instances for TLC.  Four passwords are enough for one to be fresh: at   *)
(* most three differ between the server, the Secret, the connection string *)
(* and the status a handler was given when a pass needs a new one.         *)
(***************************************************************************)
EXTENDS Replication, TLC

CONSTANTS p1, p2, p3, p4, gift

MCPassword == {p1, p2, p3, p4}
Passwords3 == {p1, p2, p3}

PasswordSymmetry == Permutations(MCPassword)

EveryStep == PassStep \cup TeardownStep \cup {"unreachable", "misconfigured"}
OutsideRecording == EveryStep \ (Unrecorded \cup {"misconfigured"})
OutsideComments ==
  EveryStep \ {"commentPublication", "commentRole", "commentSubscription"}
OutsideSwap == OutsideRecording \ Swapping

\* Anything fails once, between edits and acts of others.
Crashes ==
  {[at |-> EveryStep, what |-> {"secret"}, breaks |-> 1, edits |-> 2, meddling |-> 1],
   [at |-> EveryStep, what |-> {"source"}, breaks |-> 1, edits |-> 1, meddling |-> 1]}

\* One spec, and much that goes wrong; or a spec that keeps changing its login.
Cleanups ==
  {[at |-> OutsideRecording, what |-> {"grant", "secret", "source", "target"},
    breaks |-> 3, edits |-> 0, meddling |-> 2],
   [at |-> OutsideSwap, what |-> {"grant", "secret"}, breaks |-> 2, edits |-> 3, meddling |-> 1]}

Retries ==
  {[at |-> OutsideComments, what |-> {"publication"}, breaks |-> 2, edits |-> 1, meddling |-> 1]}
=============================================================================
