------------------------------ MODULE TableClaims ------------------------------
(***************************************************************************)
(* Several PostgresReplications whose tables meet in one target database,  *)
(* and the rule by which all but one of them yield a table                 *)
(* (_claims_elsewhere, judge and _converge_tables of                       *)
(* reconcile/replication.py and eligibility.py).                           *)
(*                                                                         *)
(* Nothing keeps passes over different replications apart.  A pass learns  *)
(* what an older replication publishes from that one's status, which a     *)
(* pass writes last, and what the target holds from the target, which      *)
(* other passes fill; it acts on both some awaits later.                   *)
(*                                                                         *)
(* Abstracted: what only one replication sees of a table (modules          *)
(* Eligibility and PublicationTables) and the other objects a pass makes   *)
(* (module Replication); subscriptions are enabled, and a table of the     *)
(* source has rows.                                                        *)
(***************************************************************************)
EXTENDS Naturals, FiniteSets

CONSTANTS
  Replication,  \* the PostgresReplications
  NameOrder,    \* their order by namespace and name
  Table,
  Instance,     \* PostgresInstances the targets may be on
  TargetOf,     \* the target database reached through each; two may be one server
  Budgets       \* bounds, for TLC: how often others may act and calls may fail

ASSUME SomeInstance == Instance # {}
ASSUME NamesDiffer ==
  /\ NameOrder \in [Replication -> Nat]
  /\ \A q, r \in Replication : NameOrder[q] = NameOrder[r] => q = r
ASSUME BudgetsAreNat ==
  Budgets \subseteq [creations : Nat, edits : Nat, fails : Nat, outages : Nat]

VARIABLES
  life,      \* Replication -> absent, standing, or deleting until its finalizer is released
  created,   \* Replication -> creationTimestamp, to the second
  clock,     \* the last of them
  spec,      \* Replication -> its tables, its target's instance, and copyData
  loads,     \* the PostgresInstances that exist and are valid
  members,   \* Replication -> the tables of its publication
  carries,   \* Replication -> the tables of its subscription
  reported,  \* Replication -> status.publishedTables
  rows,      \* the tables that hold rows, each with its target database
  pass,      \* Replication -> its running pass: what it has read and decided
  budget     \* how often the bounded actions may still happen

vars == <<life, created, clock, spec, loads, members, carries, reported, rows, pass, budget>>

Request == [tables : SUBSET Table, home : Instance, copyData : BOOLEAN]
NoSpec == [tables |-> {}, home |-> CHOOSE i \in Instance : TRUE, copyData |-> FALSE]
Running == [stage : {"idle", "judging", "converging", "refreshing", "publishing"},
          asked : SUBSET Table, nonempty : SUBSET Table, copyData : BOOLEAN,
          drops : SUBSET Table, adds : SUBSET Table]
NoPass == [stage |-> "idle", asked |-> {}, nonempty |-> {}, copyData |-> FALSE,
           drops |-> {}, adds |-> {}]

TypeOK ==
  /\ life \in [Replication -> {"absent", "standing", "deleting"}]
  /\ created \in [Replication -> Nat] /\ clock \in Nat
  /\ spec \in [Replication -> Request]
  /\ loads \subseteq Instance
  /\ members \in [Replication -> SUBSET Table]
  /\ carries \in [Replication -> SUBSET Table]
  /\ reported \in [Replication -> SUBSET Table]
  /\ rows \subseteq {TargetOf[i] : i \in Instance} \X Table
  /\ pass \in [Replication -> Running]
  /\ budget \in [creations : Nat, edits : Nat, fails : Nat, outages : Nat]

-----------------------------------------------------------------------------
Target(r) == TargetOf[spec[r].home]

\* Mutants: names do not break a tie, or decide alone; instances are told apart by name.
YieldsOnTie(q, r) == created[q] <= created[r] /\ q # r
ByName(q, r) == NameOrder[q] < NameOrder[r]
SameInstance(q, r) == spec[q].home = spec[r].home

\* The order of creation, then of names.
Older(q, r) ==
  \/ created[q] < created[r]
  \/ created[q] = created[r] /\ NameOrder[q] < NameOrder[r]

\* The same server and database, through whichever PostgresInstance; one that does
\* not load tells nothing of its server.
SameTarget(q, r) == spec[q].home \in loads /\ Target(q) = Target(r)

\* What status says older replications, not being deleted, publish into r's target.
Claimed(r) ==
  UNION {reported[q] : q \in {o \in Replication \ {r} :
                                life[o] = "standing" /\ Older(o, r) /\ SameTarget(o, r)}}

Init ==
  /\ life = [r \in Replication |-> "absent"]
  /\ created = [r \in Replication |-> 0] /\ clock = 0
  /\ spec = [r \in Replication |-> NoSpec]
  /\ loads = Instance
  /\ members = [r \in Replication |-> {}]
  /\ carries = [r \in Replication |-> {}]
  /\ reported = [r \in Replication |-> {}]
  /\ rows = {}
  /\ pass = [r \in Replication |-> NoPass]
  /\ budget \in Budgets

-----------------------------------------------------------------------------
(***************************************************************************)
(* A pass.                                                                 *)
(***************************************************************************)

At(r, stage) == pass[r].stage = stage

\* The spec, and which of its tables not yet subscribed hold rows on the target.
\* Nothing starts where the target's instance does not resolve.
ReadTarget(r) ==
  /\ life[r] = "standing" /\ At(r, "idle") /\ spec[r].home \in loads
  /\ pass' = [pass EXCEPT ![r] =
       [NoPass EXCEPT
         !.stage = "judging", !.asked = spec[r].tables, !.copyData = spec[r].copyData,
         !.nonempty = IF spec[r].copyData
                      THEN {t \in spec[r].tables \ carries[r] : <<Target(r), t>> \in rows}
                      ELSE {}]]
  /\ UNCHANGED <<life, created, clock, spec, loads, members, carries, reported, rows, budget>>

\* A claimed table goes, published or not; one with rows to copy over is not added,
\* but stays if it is published.
Judge(r) ==
  LET claimed == Claimed(r)
      asked == pass[r].asked
  IN /\ At(r, "judging")
     /\ pass' = [pass EXCEPT ![r].stage = "converging",
          ![r].drops = members[r] \ (asked \ claimed),
          ![r].adds = asked \ (members[r] \cup pass[r].nonempty \cup claimed)]
     /\ UNCHANGED <<life, created, clock, spec, loads, members, carries, reported, rows, budget>>

\* First what has to go.
Converge(r) ==
  /\ At(r, "converging")
  /\ \/ /\ members[r] \cap pass[r].drops # {}
        /\ members' = [members EXCEPT ![r] = @ \ pass[r].drops]
        /\ UNCHANGED pass
     \/ /\ members[r] \cap pass[r].drops = {}
        /\ members' = [members EXCEPT ![r] = @ \cup pass[r].adds]
        /\ pass' = [pass EXCEPT ![r].stage = "refreshing"]
  /\ UNCHANGED <<life, created, clock, spec, loads, carries, reported, rows, budget>>

\* The subscription carries what is published; from then on rows arrive.
Refresh(r) ==
  /\ At(r, "refreshing")
  /\ carries' = [carries EXCEPT ![r] = members[r]]
  /\ rows' = rows \cup ({Target(r)} \X members[r])
  /\ pass' = [pass EXCEPT ![r].stage = "publishing"]
  /\ UNCHANGED <<life, created, clock, spec, loads, members, reported, budget>>

Publish(r) ==
  /\ At(r, "publishing")
  /\ reported' = [reported EXCEPT ![r] = members[r]]
  /\ pass' = [pass EXCEPT ![r] = NoPass]
  /\ UNCHANGED <<life, created, clock, spec, loads, members, carries, rows, budget>>

\* A call fails, or the operator is restarted, anywhere in a pass.
Fail(r) ==
  /\ ~At(r, "idle") /\ budget.fails > 0
  /\ budget' = [budget EXCEPT !.fails = @ - 1]
  /\ pass' = [pass EXCEPT ![r] = NoPass]
  /\ UNCHANGED <<life, created, clock, spec, loads, members, carries, reported, rows>>

\* The finalizer, which waits for a pass that holds the lock.  The rows stay.
Finalize(r) ==
  /\ life[r] = "deleting" /\ At(r, "idle")
  /\ life' = [life EXCEPT ![r] = "absent"]
  /\ members' = [members EXCEPT ![r] = {}]
  /\ carries' = [carries EXCEPT ![r] = {}]
  /\ reported' = [reported EXCEPT ![r] = {}]
  /\ spec' = [spec EXCEPT ![r] = NoSpec] /\ created' = [created EXCEPT ![r] = 0]
  /\ UNCHANGED <<clock, loads, rows, pass, budget>>

-----------------------------------------------------------------------------
(***************************************************************************)
(* The others.                                                             *)
(***************************************************************************)

\* In the same second as the last, or later.
Create(r) ==
  /\ life[r] = "absent" /\ budget.creations > 0
  /\ budget' = [budget EXCEPT !.creations = @ - 1]
  /\ life' = [life EXCEPT ![r] = "standing"]
  /\ clock' \in {clock, clock + 1}
  /\ created' = [created EXCEPT ![r] = clock']
  /\ \E s \in Request : s.tables # {} /\ spec' = [spec EXCEPT ![r] = s]
  /\ UNCHANGED <<loads, members, carries, reported, rows, pass>>

Edits == budget.edits > 0 /\ budget' = [budget EXCEPT !.edits = @ - 1]

\* dbRefs are immutable.
EditSpec(r) ==
  /\ life[r] = "standing" /\ Edits
  /\ \E s \in Request \ {spec[r]} : s.home = spec[r].home /\ spec' = [spec EXCEPT ![r] = s]
  /\ UNCHANGED <<life, created, clock, loads, members, carries, reported, rows, pass>>

Delete(r) ==
  /\ life[r] = "standing" /\ Edits
  /\ life' = [life EXCEPT ![r] = "deleting"]
  /\ UNCHANGED <<created, clock, spec, loads, members, carries, reported, rows, pass>>

\* The target's owner loads a table, or empties it; what is replicated fills again.
Writers(d, t) ==
  {r \in Replication : life[r] # "absent" /\ Target(r) = d /\ t \in members[r] \cap carries[r]}
LoadOrEmpty ==
  /\ Edits
  /\ \E d \in {TargetOf[i] : i \in Instance}, t \in Table :
       /\ Writers(d, t) = {}
       /\ rows' = IF <<d, t>> \in rows THEN rows \ {<<d, t>>} ELSE rows \cup {<<d, t>>}
  /\ UNCHANGED <<life, created, clock, spec, loads, members, carries, reported, pass>>

\* A PostgresInstance is deleted or made invalid, or comes back.
Lose(i) ==
  /\ i \in loads /\ budget.outages > 0
  /\ budget' = [budget EXCEPT !.outages = @ - 1]
  /\ loads' = loads \ {i}
  /\ UNCHANGED <<life, created, clock, spec, members, carries, reported, rows, pass>>
Return(i) ==
  /\ i \notin loads /\ loads' = loads \cup {i}
  /\ UNCHANGED <<life, created, clock, spec, members, carries, reported, rows, pass, budget>>

\* Every replication is gone: the operator waits for another.
Quiet == (\A r \in Replication : life[r] = "absent") /\ UNCHANGED vars

Pass(r) == ReadTarget(r) \/ Judge(r) \/ Converge(r) \/ Refresh(r) \/ Publish(r)

Next ==
  \/ \E r \in Replication :
       Pass(r) \/ Fail(r) \/ Finalize(r) \/ Create(r) \/ EditSpec(r) \/ Delete(r)
  \/ \E i \in Instance : Lose(i) \/ Return(i)
  \/ LoadOrEmpty \/ Quiet

\* The timer runs a pass every replicationInterval, a pass is bounded by its
\* timeouts, and kopf retries a finalizer until it is done.
Fairness == \A r \in Replication : WF_vars(Pass(r)) /\ WF_vars(Finalize(r))

Spec == Init /\ [][Next]_vars /\ Fairness

-----------------------------------------------------------------------------
(***************************************************************************)
(* Properties                                                              *)
(***************************************************************************)
Databases == {TargetOf[i] : i \in Instance}
Standing == {r \in Replication : life[r] = "standing"}

\* Of those that ask for a table, would not copy over its rows and are not being
\* deleted, none was created before w.
Prevails(d, t, w) ==
  \A q \in Standing \ {w} :
    Target(q) = d /\ t \in spec[q].tables /\ ~spec[q].copyData => created[w] <= created[q]
Undisputed(d, t) == \A w \in Writers(d, t) : Writers(d, t) = {w} /\ Prevails(d, t, w)

\* While every PostgresInstance loads, two subscriptions do not go on writing one
\* table: whichever order their passes took, all but one yield it, and that one
\* is the oldest (_claims_elsewhere: "Two subscriptions writing one table
\* conflict.  The older replication keeps it").
OneWriter ==
  <>[](loads = Instance) => <>[](\A d \in Databases, t \in Table : Undisputed(d, t))

\* Nor do they all give it up: a table some replication asks for, and would not
\* copy over rows, is replicated by one of them in the end ("so the two cannot
\* each defer to the other and both drop it").
Unserved(d, t) ==
  /\ Writers(d, t) = {}
  /\ \E r \in Standing : /\ Target(r) = d /\ t \in spec[r].tables
                         /\ ~spec[r].copyData \/ <<d, t>> \notin rows
Served ==
  <>[](loads = Instance) => <>[](\A d \in Databases, t \in Table : ~Unserved(d, t))

\* Nothing is under way, and the next pass of each replication would find its
\* publication, its subscription and its status as they should be.
AtRest ==
  /\ loads = Instance
  /\ \A r \in Replication :
       /\ life[r] # "deleting"
       /\ members[r] = carries[r] /\ members[r] = reported[r]
       /\ members[r] \subseteq spec[r].tables \ Claimed(r)
       /\ \A t \in spec[r].tables \ (members[r] \cup Claimed(r)) :
            spec[r].copyData /\ <<Target(r), t>> \in rows

\* What no pass would change is right: the replications judge each other from what
\* they wrote into status, and where all of them are content each table has one
\* writer, the oldest, and none is left to nobody.
RestIsRight ==
  AtRest => \A d \in Databases, t \in Table : Undisputed(d, t) /\ ~Unserved(d, t)
=============================================================================
