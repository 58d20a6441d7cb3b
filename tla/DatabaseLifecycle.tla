------------------------- MODULE DatabaseLifecycle -------------------------
(***************************************************************************)
(* The life of one PostgresDB: the database with its three group roles,    *)
(* its schemas and extensions, what becomes of those the spec no longer    *)
(* declares, and the finalizer that drops all of it under retention policy *)
(* DROP (reconcile/database.py).                                           *)
(*                                                                         *)
(* Every statement is a step, as in Replication and UserAccess.  A call    *)
(* that raises (Break) is told from a process that stops (Stop), because   *)
(* the code opens a closed database again in the first case only.          *)
(*                                                                         *)
(* Left out: owners, comments, parameters, connection limits, encodings    *)
(* and extension versions; which privileges a grant holds.                 *)
(***************************************************************************)
EXTENDS Naturals, FiniteSets

CONSTANTS
  Schema, Extension,  \* names a spec may declare
  Template,           \* what a new database holds: public, plpgsql
  Baseline,           \* extensions never dropped: plpgsql
  Available,          \* extensions the server offers
  Home,               \* the schema an extension is installed in, or "none"
  Breaks, Stops,      \* steps at which a call may raise, the operator stop
  Meddling,           \* what others may do
  Hasty,              \* may the spec be edited before the last edit has converged?
  MaxBreaks, MaxEdits, MaxMeddling   \* bounds, for TLC

Object == Schema \cup Extension
GroupRole == {"owner", "readWrite", "readOnly"}

PassStep == {"resolve", "roles", "database", "privileges", "schemas", "extensions", "drop"}
TeardownStep == {"check", "find", "close", "evict", "drop database", "reopen", "drop roles"}

ASSUME ObjectsDistinct == Schema \cap Extension = {}
ASSUME TemplateAreObjects == Template \subseteq Object /\ Baseline \subseteq Extension
ASSUME HomeIsSchema == "none" \notin Object /\ Home \in [Extension -> Schema \cup {"none"}]
ASSUME BoundsAreNat == MaxBreaks \in Nat /\ MaxEdits \in Nat /\ MaxMeddling \in Nat

VARIABLES
  spec,         \* the PostgresDB, whether it is being deleted, and gone
  managed,      \* status.managedSchemas and managedExtensions
  declared,     \* history: every object a spec ever declared
  server,       \* the database, the group roles, and who is connected
  replication,  \* a PostgresReplication one end of which is this database
  instance,     \* does the PostgresInstance exist; has DROP DATABASE its FORCE?
  pc,           \* the step of the pass or finalizer that is running
  body,         \* the resource as that handler was given it
  result,       \* what the handler has still to do
  outcome,      \* how the last pass ended
  budget        \* how often the bounded actions have happened

vars == <<spec, managed, declared, server, replication, instance, pc, body, result, outcome,
          budget>>

Policy == {"RETAIN", "DROP"}
Body == [wants : SUBSET Object, policy : Policy, managed : SUBSET Object]
Result == [todo : SUBSET Object, orphaned : SUBSET Object, roles : SUBSET GroupRole]
Server == [database : {"absent", "open", "closed"},
           live : [Object -> {"absent", "operator", "other"}],   \* who made it
           granted : SUBSET Schema, connect : BOOLEAN,           \* to the group roles
           roles : SUBSET GroupRole,
           elsewhere : [GroupRole -> {"nothing", "owns", "privileges"}],
           sessions : SUBSET {"app", "foreign"}]

TypeOK ==
  /\ spec \in [wants : SUBSET Object, policy : Policy, deleting : BOOLEAN, released : BOOLEAN]
  /\ managed \in SUBSET Object /\ declared \in SUBSET Object
  /\ server \in Server
  /\ replication \in {"none", "declared", "attached", "broken"}
  /\ instance \in [exists : BOOLEAN, force : BOOLEAN]
  /\ pc \in {"idle"} \cup PassStep \cup TeardownStep
  /\ body \in Body
  /\ result \in Result
  /\ outcome \in {"none", "ok", "failed", "abandoned"}
  /\ budget \in [breaks : Nat, edits : Nat, meddling : Nat]

-----------------------------------------------------------------------------
\* Helpers

NoResult == [todo |-> {}, orphaned |-> {}, roles |-> {}]
Nothing == [o \in Object |-> "absent"]
Live == {o \in Object : server.live[o] # "absent"}

\* CASCADE takes with a schema the extensions installed in it.
DroppedWith(o) == {o} \cup {e \in Extension : Home[e] = o}

\* The handler goes on; the world around it stays.
Step(from, to) ==
  /\ pc = from /\ pc' = to
  /\ UNCHANGED <<spec, managed, declared, instance, body, outcome, budget>>

Idle(how) == pc' = "idle" /\ outcome' = how /\ result' = NoResult

NoDatabase == [server EXCEPT !.database = "absent", !.live = Nothing, !.granted = {},
                             !.connect = FALSE, !.sessions = {}]

-----------------------------------------------------------------------------
\* A pass: reconcile_database, in its order

StartPass ==
  /\ pc = "idle" /\ ~spec.deleting
  /\ pc' = "resolve" /\ outcome' = "none"
  /\ body' = [wants |-> spec.wants, policy |-> spec.policy, managed |-> managed]
  /\ UNCHANGED <<spec, managed, declared, server, replication, instance, result, budget>>

Resolve ==
  /\ instance.exists
  /\ Step("resolve", "roles")
  /\ UNCHANGED <<server, replication, result>>

\* _ensure_group_roles, one CREATE ROLE a step.
EnsureGroupRoles ==
  /\ IF server.roles = GroupRole THEN Step("roles", "database") /\ UNCHANGED server
     ELSE /\ Step("roles", "roles")
          /\ \E r \in GroupRole \ server.roles : server' = [server EXCEPT !.roles = @ \cup {r}]
  /\ UNCHANGED <<replication, result>>

EnsureDatabase ==
  /\ Step("database", "privileges")
  /\ server' = IF server.database # "absent" THEN server
               ELSE [server EXCEPT !.database = "open",
                       !.live = [o \in Object |-> IF o \in Template THEN "other" ELSE "absent"]]
  /\ UNCHANGED <<replication, result>>

\* _apply_database_privileges; then the connection to the database itself.
ApplyPrivileges ==
  /\ server.database = "open"
  /\ Step("privileges", "schemas")
  /\ server' = [server EXCEPT !.connect = TRUE]
  /\ result' = [result EXCEPT !.todo = body.wants \cap Schema]
  /\ UNCHANGED replication

\* Mutant: only a schema this pass makes gets its grants.
EnsureNewSchema ==
  /\ server.database = "open" /\ Step("schemas", "schemas")
  /\ \E s \in result.todo :
       /\ result' = [result EXCEPT !.todo = @ \ {s}]
       /\ server' = IF server.live[s] # "absent" THEN server
                    ELSE [server EXCEPT !.live[s] = "operator", !.granted = @ \cup {s}]
  /\ UNCHANGED replication

\* A schema is made if it is missing, and its grants are applied either way.
EnsureSchema ==
  /\ server.database = "open" /\ Step("schemas", "schemas")
  /\ \E s \in result.todo :
       /\ result' = [result EXCEPT !.todo = @ \ {s}]
       /\ server' = [server EXCEPT !.live[s] = IF @ = "absent" THEN "operator" ELSE @,
                                   !.granted = @ \cup {s}]
  /\ UNCHANGED replication

\* Extensions the server does not offer are reported and skipped.
ListExtensions ==
  /\ server.database = "open" /\ result.todo = {}
  /\ Step("schemas", "extensions")
  /\ result' = [result EXCEPT !.todo = (body.wants \cap Extension \cap Available) \ Live]
  /\ UNCHANGED <<server, replication>>

EnsureExtension ==
  /\ server.database = "open" /\ Step("extensions", "extensions")
  /\ \E e \in result.todo :
       /\ Home[e] \in Live \cup {"none"}
       /\ result' = [result EXCEPT !.todo = @ \ {e}]
       /\ server' = [server EXCEPT !.live[e] = IF @ = "absent" THEN "operator" ELSE @]
  /\ UNCHANGED replication

\* Only what status records is eligible: the rest is somebody else's.
Orphans == ((body.managed \ body.wants) \cap Live) \ Baseline

\* _handle_orphans: under DROP they go, under RETAIN they stay on the record.
FindOrphans ==
  /\ server.database = "open" /\ result.todo = {}
  /\ Step("extensions", "drop")
  /\ result' = IF body.policy = "DROP" THEN [result EXCEPT !.todo = Orphans]
               ELSE [result EXCEPT !.orphaned = Orphans]
  /\ UNCHANGED <<server, replication>>

\* Schemas first, then extensions, CASCADE.
DropOrphan ==
  /\ server.database = "open" /\ Step("drop", "drop")
  /\ \E o \in result.todo :
       /\ o \in Extension => result.todo \subseteq Extension
       /\ result' = [result EXCEPT !.todo = @ \ {o}]
       /\ server' = [server EXCEPT !.granted = @ \ {o},
                       !.live = [x \in Object |-> IF x \in DroppedWith(o) THEN "absent" ELSE @[x]]]
  /\ UNCHANGED replication

\* Mutant: a retained orphan is forgotten.
PublishDeclared ==
  /\ pc = "drop" /\ result.todo = {}
  /\ managed' = body.wants
  /\ Idle("ok")
  /\ UNCHANGED <<spec, declared, server, replication, instance, body, budget>>

Publish ==
  /\ pc = "drop" /\ result.todo = {}
  /\ managed' = body.wants \cup result.orphaned
  /\ Idle("ok")
  /\ UNCHANGED <<spec, declared, server, replication, instance, body, budget>>

\* No instance, no such database (or one that is closed), no schema to install
\* an extension in.
Refuse ==
  /\ \/ pc = "resolve" /\ ~instance.exists
     \/ pc \in {"privileges", "schemas", "extensions"} /\ server.database # "open"
     \/ pc = "drop" /\ result.todo # {} /\ server.database # "open"
     \/ pc = "extensions" /\ \E e \in result.todo : Home[e] \notin Live \cup {"none"}
     \/ pc = "close" /\ server.database = "absent"
     \/ pc = "drop roles" /\ \E r \in result.roles \cap server.roles :
                               server.elsewhere[r] = "privileges"
  /\ Idle("failed")
  /\ UNCHANGED <<spec, managed, declared, server, replication, instance, body, budget>>

-----------------------------------------------------------------------------
\* The finalizer: teardown_database

\* Under RETAIN, or with the instance gone, there is nothing to do.
StartTeardown ==
  /\ pc = "idle" /\ spec.deleting /\ ~spec.released
  /\ IF spec.policy = "RETAIN" \/ ~instance.exists
     THEN spec' = [spec EXCEPT !.released = TRUE] /\ UNCHANGED pc
     ELSE pc' = "check" /\ UNCHANGED spec
  /\ body' = [body EXCEPT !.policy = spec.policy] /\ outcome' = "none"
  /\ UNCHANGED <<managed, declared, server, replication, instance, result, budget>>

\* A spec that does not parse, an instance that does not validate or no longer
\* permits the namespace, a server older than its minServerVersion: run_teardown takes
\* no retry to help against a ConfigurationError, and lets the deletion complete,
\* whatever the policy.  teardown_database looks at the start and again before
\* it connects.
Abandon ==
  /\ "misconfigured" \in Breaks /\ budget.breaks < MaxBreaks
  /\ \/ /\ pc = "idle" /\ spec.deleting /\ ~spec.released
        /\ body' = [body EXCEPT !.policy = spec.policy]
     \/ pc = "find" /\ UNCHANGED body
  /\ budget' = [budget EXCEPT !.breaks = @ + 1]
  /\ spec' = [spec EXCEPT !.released = TRUE]
  /\ Idle("abandoned")
  /\ UNCHANGED <<managed, declared, server, replication, instance>>

\* Mutant: a replication that has made nothing yet does not count.
CheckAttached ==
  /\ pc = "check"
  /\ IF replication = "attached" THEN Idle("failed")
     ELSE pc' = "find" /\ UNCHANGED <<outcome, result>>
  /\ UNCHANGED <<spec, managed, declared, server, replication, instance, body, budget>>

\* A replication that names the database must go first, even one that has made
\* nothing on the server yet.
CheckReplications ==
  /\ pc = "check"
  /\ IF replication \in {"declared", "attached"} THEN Idle("failed")
     ELSE pc' = "find" /\ UNCHANGED <<outcome, result>>
  /\ UNCHANGED <<spec, managed, declared, server, replication, instance, body, budget>>

\* Mutant: with the database gone, nothing is taken to be left.
FindDatabaseOrFinish ==
  /\ instance.exists
  /\ Step("find", IF server.database = "absent" THEN "drop roles" ELSE "close")
  /\ result' = [result EXCEPT !.roles = IF server.database = "absent" THEN {} ELSE GroupRole]
  /\ UNCHANGED <<server, replication>>

FindDatabase ==
  /\ instance.exists
  /\ Step("find", IF server.database = "absent" THEN "drop roles" ELSE "close")
  /\ result' = [result EXCEPT !.roles = GroupRole]
  /\ UNCHANGED <<server, replication>>

\* The instance went meanwhile: there is nothing left to act on.
SkipTeardown ==
  /\ pc = "find" /\ ~instance.exists
  /\ spec' = [spec EXCEPT !.released = TRUE]
  /\ Idle("none")
  /\ UNCHANGED <<managed, declared, server, replication, instance, body, budget>>

\* Mutant: the database stays open while its sessions are ended.
LeaveOpen ==
  /\ server.database # "absent"
  /\ Step("close", "evict")
  /\ UNCHANGED <<server, replication, result>>

\* ALLOW_CONNECTIONS false: no client comes back between evict and drop.
CloseDatabase ==
  /\ server.database # "absent"
  /\ Step("close", "evict")
  /\ server' = [server EXCEPT !.database = "closed"]
  /\ UNCHANGED <<replication, result>>

\* Sessions of roles the operator cannot become a member of stay.
EvictSessions ==
  /\ Step("evict", "drop database")
  /\ server' = [server EXCEPT !.sessions = @ \cap {"foreign"}]
  /\ UNCHANGED <<replication, result>>

\* WITH (FORCE) ends the sessions it may signal; without it, any blocks.
CanDrop == IF instance.force THEN "foreign" \notin server.sessions ELSE server.sessions = {}

\* On a replication's source the slot goes with the database.
DropDatabase ==
  /\ CanDrop
  /\ Step("drop database", "drop roles")
  /\ server' = NoDatabase
  /\ replication' = IF replication = "attached" THEN "broken" ELSE replication
  /\ UNCHANGED result

\* Mutant: a refused drop is raised at once.
RaiseRefusal ==
  /\ pc = "drop database" /\ ~CanDrop /\ Idle("failed")
  /\ UNCHANGED <<spec, managed, declared, server, replication, instance, body, budget>>

\* Refused, also without FORCE: connections are allowed again.
DropRefused ==
  /\ ~CanDrop
  /\ Step("drop database", "reopen")
  /\ UNCHANGED <<server, replication, result>>

Reopen ==
  /\ pc = "reopen"
  /\ server' = [server EXCEPT !.database = IF @ = "closed" THEN "open" ELSE @]
  /\ Idle("failed")
  /\ UNCHANGED <<spec, managed, declared, replication, instance, body, budget>>

\* A role that owns another database is retained.
DropGroupRole ==
  /\ \E r \in result.roles :
       /\ r \in server.roles => server.elsewhere[r] # "privileges"
       /\ Step("drop roles", "drop roles")
       /\ result' = [result EXCEPT !.roles = @ \ {r}]
       /\ server' = IF server.elsewhere[r] = "owns" THEN server
                    ELSE [server EXCEPT !.roles = @ \ {r}]
  /\ UNCHANGED replication

Finish ==
  /\ pc = "drop roles" /\ result.roles = {}
  /\ spec' = [spec EXCEPT !.released = TRUE]
  /\ Idle("none")
  /\ UNCHANGED <<managed, declared, server, replication, instance, body, budget>>

-----------------------------------------------------------------------------
\* What is not the operator

\* An exception while the database is closed opens it again on its way out.
Break ==
  /\ pc # "idle" /\ pc \in Breaks /\ budget.breaks < MaxBreaks
  /\ budget' = [budget EXCEPT !.breaks = @ + 1]
  /\ IF pc \in {"evict", "drop database"} THEN pc' = "reopen" /\ UNCHANGED <<outcome, result>>
     ELSE Idle("failed")
  /\ UNCHANGED <<spec, managed, declared, server, replication, instance, body>>

Stop ==
  /\ pc # "idle" /\ pc \in Stops /\ budget.breaks < MaxBreaks
  /\ budget' = [budget EXCEPT !.breaks = @ + 1]
  /\ Idle("failed")
  /\ UNCHANGED <<spec, managed, declared, server, replication, instance, body>>

\* A patient user waits for the last edit to converge before the next; the
\* retention policy can still be changed once deletion has begun.
Edit ==
  /\ ~spec.released /\ budget.edits < MaxEdits
  /\ budget' = [budget EXCEPT !.edits = @ + 1]
  /\ \/ /\ ~spec.deleting
        /\ \/ Hasty
           \/ pc = "idle" /\ outcome = "ok" /\ body.wants = spec.wants
        /\ \E o \in Object :
             spec' = [spec EXCEPT !.wants = IF o \in @ THEN @ \ {o} ELSE @ \cup {o}]
     \/ \E p \in Policy \ {spec.policy} : spec' = [spec EXCEPT !.policy = p]
  /\ declared' = declared \cup spec'.wants
  /\ UNCHANGED <<managed, server, replication, instance, pc, body, result, outcome>>

Delete ==
  /\ ~spec.deleting
  /\ spec' = [spec EXCEPT !.deleting = TRUE]
  /\ UNCHANGED <<managed, declared, server, replication, instance, pc, body, result, outcome,
                 budget>>

\* Clients come and go as long as the database lets them; a pass takes no
\* notice of them, so they are followed only once deletion has begun.
Clients ==
  /\ \/ /\ spec.deleting /\ server.database = "open"
        /\ server' = [server EXCEPT !.sessions = @ \cup {"app"}]
     \/ \E s \in server.sessions : server' = [server EXCEPT !.sessions = @ \ {s}]
  /\ UNCHANGED <<spec, managed, declared, replication, instance, pc, body, result, outcome,
                 budget>>

\* A replication that is declared makes its slot here, and is removed in time.
Replicate ==
  /\ \/ replication = "declared" /\ server.database = "open" /\ replication' = "attached"
     \/ replication \in {"declared", "attached"} /\ replication' = "none"
  /\ UNCHANGED <<spec, managed, declared, server, instance, pc, body, result, outcome, budget>>

\* A DBA makes or drops an object, or drops the database or a group role with
\* its privileges; uses a group role elsewhere; connects as a role of their own.
MeddleWithServer ==
  \/ /\ "object" \in Meddling /\ server.database = "open"
     /\ \E o \in Object : server' = [server EXCEPT !.live[o] = "other"] /\ o \notin Live
  \/ /\ "object" \in Meddling /\ server.database = "open"
     /\ \E o \in Live :
          server' = [server EXCEPT !.live[o] = "absent", !.granted = @ \ {o}]
  \/ "database" \in Meddling /\ server.database # "absent" /\ server' = NoDatabase
  \/ /\ "role" \in Meddling
     /\ \E r \in {x \in server.roles \ {"owner"} : server.elsewhere[x] = "nothing"} :
          server' = [server EXCEPT !.roles = @ \ {r}, !.granted = {}, !.connect = FALSE]
  \/ /\ "elsewhere" \in Meddling
     /\ \E r \in server.roles, use \in {"owns", "privileges"} :
          server' = [server EXCEPT !.elsewhere[r] = use]
  \/ /\ "session" \in Meddling /\ server.database = "open"
     /\ server' = [server EXCEPT !.sessions = @ \cup {"foreign"}]

\* A replication is declared, before the deletion or after; the instance goes.
MeddleAround ==
  \/ /\ replication = "none" /\ replication' = "declared" /\ UNCHANGED instance
     /\ \/ "replication" \in Meddling /\ ~spec.deleting
        \/ "late replication" \in Meddling
  \/ /\ "instance" \in Meddling /\ instance.exists
     /\ instance' = [instance EXCEPT !.exists = FALSE] /\ UNCHANGED replication

Meddle ==
  /\ budget.meddling < MaxMeddling
  /\ budget' = [budget EXCEPT !.meddling = @ + 1]
  /\ \/ MeddleWithServer /\ UNCHANGED <<replication, instance>>
     \/ MeddleAround /\ UNCHANGED server
  /\ UNCHANGED <<spec, managed, declared, pc, body, result, outcome>>

Gone == spec.released /\ pc = "idle" /\ UNCHANGED vars

-----------------------------------------------------------------------------
Init ==
  /\ spec \in [wants : SUBSET Object, policy : Policy, deleting : {FALSE}, released : {FALSE}]
  /\ managed = {} /\ declared = spec.wants
  /\ server = [database |-> "absent", live |-> Nothing, granted |-> {}, connect |-> FALSE,
               roles |-> {}, elsewhere |-> [r \in GroupRole |-> "nothing"], sessions |-> {}]
  /\ replication = "none"
  /\ instance \in [exists : {TRUE}, force : BOOLEAN]
  /\ pc = "idle" /\ outcome = "none" /\ result = NoResult
  /\ body = [wants |-> spec.wants, policy |-> spec.policy, managed |-> {}]
  /\ budget = [breaks |-> 0, edits |-> 0, meddling |-> 0]

Pass ==
  \/ Resolve \/ EnsureGroupRoles \/ EnsureDatabase \/ ApplyPrivileges \/ EnsureSchema
  \/ ListExtensions \/ EnsureExtension \/ FindOrphans \/ DropOrphan \/ Publish \/ Refuse

Teardown ==
  \/ CheckReplications \/ FindDatabase \/ SkipTeardown \/ CloseDatabase \/ EvictSessions
  \/ DropDatabase \/ DropRefused \/ Reopen \/ DropGroupRole \/ Finish

Operator == StartPass \/ StartTeardown \/ Pass \/ Teardown

Others == Abandon \/ Break \/ Stop \/ Edit \/ Delete \/ Clients \/ Replicate \/ Meddle

Next == Operator \/ Others \/ Gone

\* The timer calls the operator again, and kopf retries a failed finalizer.
Fairness == WF_vars(Operator)

Spec == Init /\ [][Next]_vars /\ Fairness

-----------------------------------------------------------------------------
(***************************************************************************)
(* Properties                                                              *)
(***************************************************************************)

\* A pass drops an object it did not make only if a spec once declared it, and
\* never an extension every database has (_handle_orphans).
DropsDeclared ==
  \A o \in Object :
    /\ pc \in PassStep /\ pc' \in PassStep /\ server'.database = "open"
    /\ server.live[o] = "other" /\ server'.live[o] = "absent" /\ budget' = budget
    => o \in declared \ Baseline

OnlyDeclaredDropped == [][DropsDeclared]_vars

\* After a successful pass status names every object the operator made, so a
\* retained orphan still goes when the policy becomes DROP (reconcile_database).
OrphansTracked ==
  pc = "idle" /\ outcome = "ok" =>
    \A o \in Object \ Baseline : server.live[o] = "operator" => o \in managed

\* The finalizer does not drop a database under a replication: what that made
\* in it must be removed first (replications_using).
ReplicationIntact == replication # "broken"

\* A database that is retained in the end can be connected to, even if a drop
\* was begun and refused before (_drop_database_safely).
RetainedReachable ==
  spec.released /\ body.policy = "RETAIN" => server.database # "closed"

\* Under DROP, and with the server still there, the finalizer leaves no
\* database, and only group roles that are in use elsewhere - unless it was
\* released over a configuration error, which leaves all of them.
DroppedClean ==
  spec.released /\ body.policy = "DROP" /\ instance.exists /\ outcome # "abandoned" =>
    /\ server.database = "absent"
    /\ \A r \in server.roles : server.elsewhere[r] # "nothing"

\* The database is as the spec asks; every group may use every schema.
Settled(wants, policy) ==
  /\ server.database = "open" /\ server.roles = GroupRole /\ server.connect
  /\ wants \cap (Schema \cup Available) \subseteq Live
  /\ wants \cap Schema \subseteq server.granted
  /\ policy = "DROP" => \A o \in Object \ Baseline : server.live[o] = "operator" => o \in wants

\* What the spec asks for last becomes true and stays true: drift is repaired,
\* and a change to DROP removes the orphans RETAIN kept.
Settles ==
  \A w \in SUBSET Object, p \in Policy :
    <>[](spec.wants = w /\ spec.policy = p /\ ~spec.deleting /\ instance.exists)
      => <>[]Settled(w, p)

\* A deletion ends although clients keep reconnecting, once no session is left
\* that the operator cannot end, no replication, and no role with privileges in
\* another database.
DeletionEnds ==
  /\ <>[](replication \notin {"declared", "attached"} /\ "foreign" \notin server.sessions)
  /\ []\A r \in GroupRole : server.elsewhere[r] # "privileges"
  => (spec.deleting ~> spec.released)
=============================================================================
