----------------------------- MODULE Replication -----------------------------
(***************************************************************************)
(* The life of one PostgresReplication: its reconcile passes and its       *)
(* finalizer, over the Kubernetes status that remembers what the operator  *)
(* made, the source server (publication, login, slot), the target server   *)
(* (subscription) and the login's Secret (reconcile/replication.py).       *)
(*                                                                         *)
(* A pass is a sequence of statements and API calls, each a step of its    *)
(* own; between any two of them a call may fail, or the operator die, and  *)
(* the next pass starts from status alone.  Both endings leave the same    *)
(* state behind, so both are the action Break.  ResourceLocks justifies    *)
(* the single program counter: passes over one resource never overlap.     *)
(*                                                                         *)
(* Left to other modules: the table set and its eligibility, the cycle and *)
(* claim checks, health.  Names never collide across resources (they carry *)
(* a hash), so each object is the one of this replication's name.          *)
(***************************************************************************)
EXTENDS Naturals, FiniteSets

CONSTANTS
  Password,          \* what generate_password() can return
  NoPassword,        \* no Secret, or no password read yet
  ProvidedPassword,  \* the password in the Secret the user provides
  Strangers,         \* names somebody else may hold already, a subset of Name
  Overlap,           \* may a handler queue behind a pass with the body it was given?
  Budgets            \* bounds, for TLC: what may go wrong, and how often

Login == {"generated", "provided"}
Object == {"publication", "login", "secret", "slot", "subscription"}
Name == {"publication", "login", "slot", "subscription"}
Side == {"source", "target"}

\* "bare" was created by the operator but does not carry its COMMENT yet.
Holder == {"absent", "bare", "ours", "foreign"}

\* A key of status.created: missing, false or true.
Mark == {"unset", "no", "yes"}

PassStep == {"inspect", "publication", "commentPublication", "recordPublication",
             "login", "createRole", "commentRole", "applySecret", "grant", "recordLogin",
             "tables", "slot", "recordSlot", "createSubscription", "commentSubscription",
             "recordSubscription", "setConnection", "setEnabled", "refresh",
             "dropSuperseded", "deleteSuperseded", "publish"}
TeardownStep == {"dropSubscription", "dropSlot", "dropPublication", "dropLogin",
                 "deleteSecret", "finish"}

\* Everything below is about passwords as tokens; a connection string is the
\* login and password it carries, and its fingerprint tells two apart.
Connection == [login : Login, password : Password \cup {ProvidedPassword}]
NoConnection == [login |-> "none", password |-> NoPassword]

ASSUME PasswordsDistinct ==
  /\ NoPassword \notin Password \cup {ProvidedPassword}
  /\ ProvidedPassword \notin Password
ASSUME StrangersHoldNames == Strangers \subseteq Name

\* Steps at which a call may fail or the operator die, what others may do behind
\* its back, and how often they and edits happen.
Budget ==
  [at : SUBSET (PassStep \cup TeardownStep \cup {"unreachable", "misconfigured"}),
   what : SUBSET ({"publication", "grant", "secret"} \cup Side),
   breaks : Nat, edits : Nat, meddling : Nat]
ASSUME BudgetsAreBudgets == Budgets \subseteq Budget

\* Steps that stand between making an object and recording it in status.
Unrecorded ==
  {"commentPublication", "recordPublication", "commentRole", "applySecret", "grant",
   "recordLogin", "recordSlot", "commentSubscription", "recordSubscription"}

\* From recording a new login to publishing the connection that uses it.
Swapping ==
  {"tables", "slot", "createSubscription", "setConnection", "setEnabled", "refresh",
   "dropSuperseded", "deleteSuperseded", "publish"}

VARIABLES
  spec,       \* the resource: what it asks for, whether it is being deleted, and gone
  status,     \* its status subresource
  secrets,    \* the generated credentials Secret, and the one the user provides
  source,     \* the source server
  target,     \* the target server
  instances,  \* the PostgresInstances that still exist
  pc,         \* the step of the pass or finalizer that is running
  body,       \* the resource as that handler was given it
  result,     \* its ReplicationResult
  missed,     \* servers the finalizer could not reach
  outcome,    \* how the last pass ended
  queued,     \* a handler waiting for the resource's lock, with its body
  budget      \* how often the bounded actions may still happen

vars == <<spec, status, secrets, source, target, instances, pc, body, result,
          missed, outcome, queued, budget>>

Status == [created : [Object -> Mark], login : Login \cup {"none"}, granted : BOOLEAN,
           credentials : Login \cup {"none"}, connection : Connection \cup {NoConnection}]
Body == [status : Status, wanted : Login, enabled : BOOLEAN, deleting : BOOLEAN]
Result == [created : [Object -> Mark], login : Login \cup {"none"}, granted : BOOLEAN,
           credentials : Login \cup {"none"},
           stored : Password \cup {NoPassword},
           password : Password \cup {NoPassword, ProvidedPassword},
           seen : BOOLEAN]

TypeOK ==
  /\ spec \in [wanted : Login, enabled : BOOLEAN, deleting : BOOLEAN, released : BOOLEAN]
  /\ status \in Status
  /\ secrets \in [generated : Password \cup {NoPassword}, provided : BOOLEAN]
  /\ source \in [publication : Holder, role : [Login -> Holder],
                 password : Password \cup {NoPassword},
                 member : [Login -> {"none", "operator", "admin"}],
                 slot : {"absent", "idle", "active"}]
  /\ target \in [subscription : Holder, connection : Connection \cup {NoConnection},
                 enabled : BOOLEAN]
  /\ instances \subseteq Side
  /\ pc \in {"idle"} \cup PassStep \cup TeardownStep
  /\ body \in Body
  /\ result \in Result
  /\ missed \subseteq Side
  /\ outcome \in {"none", "ok", "failed"}
  /\ queued \subseteq Body
  /\ budget \in Budget

-----------------------------------------------------------------------------
\* Helpers

\* The resource as a handler receives it.
Snapshot ==
  [status |-> status, wanted |-> spec.wanted, enabled |-> spec.enabled,
   deleting |-> spec.deleting]

\* Status is written as a JSON merge patch: a key the patch leaves out stays.
Merge(old, new) == [o \in Object |-> IF new[o] = "unset" THEN old[o] ELSE new[o]]

\* What _record_created writes.
Recorded(r) ==
  [status EXCEPT !.created = Merge(@, r.created),
                 !.login = r.login,
                 !.granted = r.granted,
                 !.credentials = IF r.credentials = "none" THEN @ ELSE r.credentials]

\* What status holds before the first pass.
NoStatus ==
  [created |-> [o \in Object |-> "unset"], login |-> "none", granted |-> FALSE,
   credentials |-> "none", connection |-> NoConnection]

\* What a pass knows when it starts.
NewResult(st) ==
  [created |-> st.created, login |-> "none", granted |-> st.granted,
   credentials |-> "none", stored |-> NoPassword, password |-> NoPassword, seen |-> FALSE]

\* The pass has made this object, or found it made.
Marked(o) == [result EXCEPT !.created[o] = "yes"]

ConnectionOf(r) == [login |-> r.login, password |-> r.password]

\* A password no server, Secret, status or connection string has.
FreshPasswords ==
  Password \ {source.password, secrets.generated, target.connection.password,
              status.connection.password, body.status.connection.password}

PasswordOf(login) == IF login = "generated" THEN source.password ELSE ProvidedPassword

Authenticates(c) ==
  c.login \in Login /\ source.role[c.login] # "absent" /\ c.password = PasswordOf(c.login)

\* The pass moves from one step to another, its handler's inputs unchanged.
Step(from, to) ==
  /\ pc = from /\ pc' = to
  /\ UNCHANGED <<spec, instances, body, missed, outcome, queued, budget>>

\* The handler is done; nothing of it survives in memory.
Idle(how) ==
  /\ pc' = "idle" /\ outcome' = how
  /\ result' = NewResult(NoStatus) /\ missed' = {}

-----------------------------------------------------------------------------
\* Starting: run_reconcile and run_teardown, under the resource's lock

BeginPass(b) ==
  /\ pc' = "inspect" /\ outcome' = "none"
  /\ body' = b /\ result' = NewResult(b.status) /\ missed' = {}
  /\ UNCHANGED <<spec, status, secrets, source, target, instances, budget>>

\* A finalizer whose status records nothing has nothing to do.
BeginTeardown(b) ==
  /\ body' = b /\ missed' = {} /\ outcome' = "none" /\ result' = NewResult(NoStatus)
  /\ IF (\E o \in Object : b.status.created[o] = "yes") \/ b.status.granted
     THEN pc' = "dropSubscription" /\ UNCHANGED spec
     ELSE pc' = "idle" /\ spec' = [spec EXCEPT !.released = TRUE]
  /\ UNCHANGED <<status, secrets, source, target, instances, budget>>

\* The timer, a change handler, or a retry of one.
StartPass ==
  /\ pc = "idle" /\ queued = {} /\ ~spec.deleting
  /\ BeginPass(Snapshot)
  /\ UNCHANGED queued

\* The finalizer, or a retry of it.
StartTeardown ==
  /\ pc = "idle" /\ queued = {} /\ spec.deleting /\ ~spec.released
  /\ BeginTeardown(Snapshot)
  /\ UNCHANGED queued

\* kopf runs timers as tasks of their own, so a change or delete handler can
\* arrive while a timer's pass holds the lock. It keeps the body it came with.
QueueHandler ==
  /\ Overlap /\ pc \in PassStep /\ queued = {}
  /\ queued' = {Snapshot}
  /\ UNCHANGED <<spec, status, secrets, source, target, instances, pc, body, result,
                 missed, outcome, budget>>

StartQueued ==
  /\ pc = "idle"
  /\ \E b \in queued : IF b.deleting THEN BeginTeardown(b) ELSE BeginPass(b)
  /\ queued' = {}

-----------------------------------------------------------------------------
\* A pass: reconcile_replication, in its order

\* Steps 1 and 2 and _refuse_foreign_objects: everything is read, nothing made.
Refused ==
  \/ instances # Side
  \/ target.subscription \notin {"absent", "ours"} /\ body.status.created["subscription"] # "yes"
  \/ source.publication \notin {"absent", "ours"} /\ body.status.created["publication"] # "yes"
  \/ /\ body.wanted = "generated" /\ body.status.created["login"] # "yes"
     /\ source.role["generated"] \notin {"absent", "ours"}

Inspect ==
  /\ ~Refused
  /\ Step("inspect", "publication")
  /\ result' = [result EXCEPT !.seen = (target.subscription # "absent")]
  /\ UNCHANGED <<status, secrets, source, target>>

\* Step 3. CREATE PUBLICATION and its COMMENT are two autocommitted statements.
EnsurePublication ==
  /\ result' = Marked("publication")
  /\ IF source.publication = "absent"
     THEN /\ source' = [source EXCEPT !.publication = "bare"]
          /\ Step("publication", "commentPublication")
     ELSE /\ UNCHANGED source
          /\ Step("publication", "login")
  /\ UNCHANGED <<status, secrets, target>>

CommentPublication ==
  /\ source.publication # "absent"
  /\ Step("commentPublication", "recordPublication")
  /\ source' = [source EXCEPT !.publication = "ours"]
  /\ UNCHANGED <<status, secrets, target, result>>

RecordPublication ==
  /\ Step("recordPublication", "login")
  /\ status' = Recorded(result)
  /\ UNCHANGED <<secrets, source, target, result>>

\* Mutant: only what this pass granted is remembered.
NotInherited(login) == body.status.login = login /\ FALSE

\* Memberships recorded by earlier passes still stand if the login is the same.
Inherited(login) == body.status.login = login /\ result.granted

\* Mutant: an earlier pass's flags stay set.
AdoptKeepingFlags ==
  /\ body.wanted = "provided" /\ secrets.provided
  /\ Step("login", "grant")
  /\ result' = [result EXCEPT !.login = "provided", !.credentials = "provided",
                              !.password = ProvidedPassword,
                              !.granted = Inherited("provided")]
  /\ UNCHANGED <<status, secrets, source, target>>

AdoptProvidedLogin ==
  /\ body.wanted = "provided" /\ secrets.provided
  /\ Step("login", "grant")
  /\ result' = [result EXCEPT !.login = "provided", !.credentials = "provided",
                              !.password = ProvidedPassword,
                              !.granted = Inherited("provided"),
                              !.created["login"] = "no", !.created["secret"] = "no"]
  /\ UNCHANGED <<status, secrets, source, target>>

\* The generated login: its password is the Secret's, or a new one.
ReadSecret ==
  /\ body.wanted = "generated"
  /\ Step("login", "createRole")
  /\ \E p \in IF secrets.generated = NoPassword THEN FreshPasswords ELSE {secrets.generated} :
       result' = [result EXCEPT !.stored = secrets.generated, !.password = p]
  /\ UNCHANGED <<status, secrets, source, target>>

EnsureLoginRole ==
  IF source.role["generated"] = "absent"
  THEN /\ Step("createRole", "commentRole")
       /\ source' = [source EXCEPT !.role["generated"] = "bare",
                                   !.password = result.password]
       /\ UNCHANGED <<status, secrets, target, result>>
  ELSE /\ Step("createRole", "applySecret")
       /\ source' = [source EXCEPT !.password =
                       IF result.stored = NoPassword THEN result.password ELSE @]
       /\ result' = [Marked("login") EXCEPT !.login = "generated"]
       /\ UNCHANGED <<status, secrets, target>>

CommentRole ==
  /\ Step("commentRole", "applySecret")
  /\ source' = [source EXCEPT !.role["generated"] = "ours"]
  /\ result' = [Marked("login") EXCEPT !.login = "generated"]
  /\ UNCHANGED <<status, secrets, target>>

ApplySecret ==
  /\ Step("applySecret", "grant")
  /\ secrets' = [secrets EXCEPT !.generated = result.password]
  /\ result' = [Marked("secret") EXCEPT !.credentials = "generated",
                                        !.granted = Inherited("generated")]
  /\ UNCHANGED <<status, source, target>>

\* Mutant: a membership already held is recorded as the operator's.
GrantRecordingHeld ==
  LET held == source.member[result.login] # "none" IN
  /\ Step("grant", "recordLogin")
  /\ source' = IF held THEN source
               ELSE [source EXCEPT !.member[result.login] = "operator"]
  /\ result' = [result EXCEPT !.granted = TRUE]
  /\ UNCHANGED <<status, secrets, target>>

\* _grant leaves alone - and does not record - a membership already held; the
\* login is recorded if that, or anything since the publication, is new.
GrantReadGroup ==
  LET held == source.member[result.login] # "none"
      r == [result EXCEPT !.granted = @ \/ ~held]
      before == [body.status.created EXCEPT !["publication"] = "yes"]
  IN
  /\ Step("grant", IF r.created # before \/ r.granted # body.status.granted
                   THEN "recordLogin" ELSE "tables")
  /\ source' = IF held THEN source
               ELSE [source EXCEPT !.member[result.login] = "operator"]
  /\ result' = r
  /\ UNCHANGED <<status, secrets, target>>

RecordLogin ==
  /\ Step("recordLogin", "tables")
  /\ status' = Recorded(result)
  /\ UNCHANGED <<secrets, source, target, result>>

\* Steps 4 and 5, the publication's tables, touch nothing modelled here.
ConvergeTables ==
  /\ Step("tables", IF result.seen THEN "setConnection" ELSE "slot")
  /\ UNCHANGED <<status, secrets, source, target, result>>

\* Mutant: the slot is recorded together with the subscription.
EnsureSlotUnrecorded ==
  /\ source.slot # "active"
  /\ source' = [source EXCEPT !.slot = "idle"]
  /\ result' = Marked("slot")
  /\ Step("slot", "createSubscription")
  /\ UNCHANGED <<status, secrets, target>>

\* Step 6. The slot comes before the subscription; an idle one is adopted.
EnsureSlot ==
  /\ source.slot # "active"
  /\ source' = [source EXCEPT !.slot = "idle"]
  /\ result' = Marked("slot")
  /\ Step("slot", IF result.created["slot"] = "yes" THEN "createSubscription" ELSE "recordSlot")
  /\ UNCHANGED <<status, secrets, target>>

RecordSlot ==
  /\ Step("recordSlot", "createSubscription")
  /\ status' = Recorded(result)
  /\ UNCHANGED <<secrets, source, target, result>>

CreateSubscription ==
  /\ Step("createSubscription", "commentSubscription")
  /\ target' = [subscription |-> "bare", connection |-> ConnectionOf(result),
                enabled |-> body.enabled]
  /\ UNCHANGED <<status, secrets, source, result>>

CommentSubscription ==
  /\ Step("commentSubscription", "recordSubscription")
  /\ target' = [target EXCEPT !.subscription = "ours"]
  /\ result' = Marked("subscription")
  /\ UNCHANGED <<status, secrets, source>>

RecordSubscription ==
  /\ Step("recordSubscription", "refresh")
  /\ status' = Recorded(result)
  /\ UNCHANGED <<secrets, source, target, result>>

\* Mutant: the connection is set only where no pass has recorded one.
SetConnectionOnce ==
  /\ Step("setConnection", "setEnabled")
  /\ target' = IF body.status.connection = NoConnection
               THEN [target EXCEPT !.connection = ConnectionOf(result)] ELSE target
  /\ result' = Marked("subscription")
  /\ UNCHANGED <<status, secrets, source>>

\* subconninfo is never read back: the fingerprint in status decides.
SetConnection ==
  /\ Step("setConnection", "setEnabled")
  /\ target' = IF body.status.connection # ConnectionOf(result)
               THEN [target EXCEPT !.connection = ConnectionOf(result)] ELSE target
  /\ result' = Marked("subscription")
  /\ UNCHANGED <<status, secrets, source>>

\* Mutant: a subscription is enabled, never disabled.
SetEnabledOnly ==
  /\ Step("setEnabled", "refresh")
  /\ target' = [target EXCEPT !.enabled = @ \/ body.enabled]
  /\ UNCHANGED <<status, secrets, source, result>>

SetEnabled ==
  /\ Step("setEnabled", "refresh")
  /\ target' = [target EXCEPT !.enabled = body.enabled]
  /\ UNCHANGED <<status, secrets, source, result>>

Superseded == body.status.login \notin {"none", result.login}

Refresh ==
  /\ Step("refresh", IF Superseded THEN "dropSuperseded" ELSE "publish")
  /\ UNCHANGED <<status, secrets, source, target, result>>

\* Drop a login the operator made; take back what it granted a provided one.
RemoveLogin(login, made, granted) ==
  CASE source.role[login] = "absent" -> UNCHANGED source
    [] source.role[login] # "absent" /\ made ->
         source' = [source EXCEPT !.role[login] = "absent", !.member[login] = "none",
                                  !.password = IF login = "generated" THEN NoPassword ELSE @]
    [] OTHER ->
         source' = IF granted THEN [source EXCEPT !.member[login] = "none"] ELSE source

RemoveSecret(owner) ==
  secrets' = IF owner = "generated" THEN [secrets EXCEPT !.generated = NoPassword]
             ELSE [secrets EXCEPT !.provided = FALSE]

\* Mutant: judged by what this pass recorded of the new login.
DropSupersededByResult ==
  /\ Step("dropSuperseded", "deleteSuperseded")
  /\ RemoveLogin(body.status.login, result.created["login"] = "yes", body.status.granted)
  /\ UNCHANGED <<status, secrets, target, result>>

DropSupersededLogin ==
  /\ Step("dropSuperseded", "deleteSuperseded")
  /\ RemoveLogin(body.status.login, body.status.created["login"] = "yes", body.status.granted)
  /\ UNCHANGED <<status, secrets, target, result>>

DeleteSupersededSecret ==
  /\ Step("deleteSuperseded", "publish")
  /\ IF /\ body.status.created["secret"] = "yes"
        /\ body.status.credentials \notin {"none", result.credentials}
     THEN RemoveSecret(body.status.credentials)
     ELSE UNCHANGED secrets
  /\ UNCHANGED <<status, source, target, result>>

\* Step 7 observes; then build_status is written whole.
Publish ==
  /\ pc = "publish"
  /\ status' = [Recorded(result) EXCEPT !.connection = ConnectionOf(result)]
  /\ Idle("ok")
  /\ UNCHANGED <<spec, secrets, source, target, instances, body, queued, budget>>

\* A pass that cannot go on: refused, or a precondition of its statement is gone.
Refuse ==
  /\ \/ pc = "inspect" /\ Refused
     \/ pc = "commentPublication" /\ source.publication = "absent"
     \/ pc = "login" /\ body.wanted = "provided" /\ ~secrets.provided
     \/ pc = "slot" /\ source.slot = "active"
  /\ Idle("failed")
  /\ UNCHANGED <<spec, status, secrets, source, target, instances, body, queued, budget>>

-----------------------------------------------------------------------------
\* The finalizer: teardown_replication, from the status it was given alone

Made(o) == body.status.created[o] = "yes"

\* DROP SUBSCRIPTION takes the slot with it through the target's own
\* connection, or is repeated with the subscription detached from its slot. A
\* target whose PostgresInstance is gone is skipped.
DropSubscription ==
  /\ Step("dropSubscription", "dropSlot")
  /\ IF Made("subscription") /\ "target" \in instances /\ target.subscription # "absent"
     THEN /\ target' = [subscription |-> "absent", connection |-> NoConnection, enabled |-> FALSE]
          /\ \E left \in {"absent", source.slot} : source' = [source EXCEPT !.slot = left]
     ELSE UNCHANGED <<source, target>>
  /\ UNCHANGED <<status, secrets, result>>

\* An unreachable server is noted and the other is still cleared.
Unreachable(side, step, next) ==
  /\ "unreachable" \in budget.at /\ budget.breaks > 0
  /\ side \in instances
  /\ pc = step /\ pc' = next
  /\ missed' = missed \cup {side}
  /\ budget' = [budget EXCEPT !.breaks = @ - 1]
  /\ UNCHANGED <<spec, status, secrets, source, target, instances, body, result, outcome, queued>>

TargetUnreachable == Made("subscription") /\ Unreachable("target", "dropSubscription", "dropSlot")

\* Mutant: the Secret goes even if the source was not cleared.
SourceUnreachableIgnored ==
  \E step \in {"dropSlot", "dropPublication", "dropLogin"} :
    Unreachable("source", step, "deleteSecret")

SourceUnreachable ==
  \E step \in {"dropSlot", "dropPublication", "dropLogin"} : Unreachable("source", step, "finish")

\* resolve_instance refuses the PostgresInstance as it is now - its spec is
\* invalid, or asks for a newer server - and since no retry can change that,
\* run_teardown lets the deletion complete.
Abandon ==
  /\ "misconfigured" \in budget.at /\ budget.breaks > 0
  /\ \/ pc = "dropSubscription" /\ Made("subscription") /\ "target" \in instances
     \/ pc = "dropSlot" /\ "source" \in instances
  /\ spec' = [spec EXCEPT !.released = TRUE]
  /\ budget' = [budget EXCEPT !.breaks = @ - 1]
  /\ Idle("failed")
  /\ UNCHANGED <<status, secrets, source, target, instances, body, queued>>

\* With the source's PostgresInstance gone there is nothing left to clear there.
SourceGone ==
  /\ "source" \notin instances
  /\ \E step \in {"dropSlot", "dropPublication", "dropLogin"} : Step(step, "deleteSecret")
  /\ UNCHANGED <<status, secrets, source, target, result>>

SlotRecorded == (Made("subscription") \/ Made("slot")) /\ source.slot # "absent"

\* Mutant: only the operator's own login has its walsenders ended.
EndOwnWalsender ==
  /\ pc = "dropSlot" /\ "source" \in instances /\ Made("login")
  /\ SlotRecorded /\ source.slot = "active"
  /\ source' = [source EXCEPT !.slot = "idle"]
  /\ UNCHANGED <<spec, status, secrets, target, instances, pc, body, result, missed,
                 outcome, queued, budget>>

\* A walsender that still holds the slot is ended; it may come back.
EndWalsender ==
  /\ pc = "dropSlot" /\ "source" \in instances
  /\ SlotRecorded /\ source.slot = "active"
  /\ source' = [source EXCEPT !.slot = "idle"]
  /\ UNCHANGED <<spec, status, secrets, target, instances, pc, body, result, missed,
                 outcome, queued, budget>>

\* Where only the login may use slots, it gets a fresh password first.
ResetLoginPassword ==
  /\ pc = "dropSlot" /\ "source" \in instances
  /\ SlotRecorded /\ source.slot = "idle"
  /\ Made("login") /\ body.status.login = "generated" /\ source.role["generated"] # "absent"
  /\ \E p \in FreshPasswords : source' = [source EXCEPT !.password = p]
  /\ UNCHANGED <<spec, status, secrets, target, instances, pc, body, result, missed,
                 outcome, queued, budget>>

DropSlot ==
  /\ "source" \in instances
  /\ SlotRecorded => source.slot = "idle"
  /\ Step("dropSlot", "dropPublication")
  /\ source' = IF SlotRecorded THEN [source EXCEPT !.slot = "absent"] ELSE source
  /\ UNCHANGED <<status, secrets, target, result>>

DropPublication ==
  /\ "source" \in instances
  /\ Step("dropPublication", "dropLogin")
  /\ source' = IF Made("publication") THEN [source EXCEPT !.publication = "absent"] ELSE source
  /\ UNCHANGED <<status, secrets, target, result>>

DropLogin ==
  /\ "source" \in instances
  /\ Step("dropLogin", "deleteSecret")
  /\ IF body.status.login = "none" THEN UNCHANGED source
     ELSE RemoveLogin(body.status.login, Made("login"), body.status.granted)
  /\ UNCHANGED <<status, secrets, target, result>>

DeleteSecret ==
  /\ Step("deleteSecret", "finish")
  /\ IF Made("secret") /\ body.status.credentials # "none"
     THEN RemoveSecret(body.status.credentials) ELSE UNCHANGED secrets
  /\ UNCHANGED <<status, source, target, result>>

\* Release the finalizer, or raise ConnectionFailure and be retried.
Finish ==
  /\ pc = "finish"
  /\ spec' = [spec EXCEPT !.released = (missed = {})]
  /\ Idle(IF missed = {} THEN "ok" ELSE "failed")
  /\ UNCHANGED <<status, secrets, source, target, instances, body, queued, budget>>

-----------------------------------------------------------------------------
\* What is not the operator

\* A call of the running handler fails, or the operator restarts.
Break ==
  /\ pc \in budget.at /\ budget.breaks > 0
  /\ budget' = [budget EXCEPT !.breaks = @ - 1]
  /\ Idle("failed")
  /\ UNCHANGED <<spec, status, secrets, source, target, instances, body, queued>>

\* The user swaps the login, or flips spec.enabled.
Edit ==
  /\ ~spec.deleting /\ budget.edits > 0
  /\ budget' = [budget EXCEPT !.edits = @ - 1]
  /\ \/ \E l \in Login \ {spec.wanted} : spec' = [spec EXCEPT !.wanted = l]
     \/ spec' = [spec EXCEPT !.enabled = ~@]
  /\ UNCHANGED <<status, secrets, source, target, instances, pc, body, result, missed,
                 outcome, queued>>

Delete ==
  /\ ~spec.deleting
  /\ spec' = [spec EXCEPT !.deleting = TRUE]
  /\ UNCHANGED <<status, secrets, source, target, instances, pc, body, result, missed,
                 outcome, queued, budget>>

\* The apply worker streams from the slot while it can log in.
WorkerConnects ==
  /\ target.subscription \in {"bare", "ours"} /\ target.enabled
  /\ source.slot = "idle" /\ Authenticates(target.connection)
  /\ source' = [source EXCEPT !.slot = "active"]
  /\ UNCHANGED <<spec, status, secrets, target, instances, pc, body, result, missed,
                 outcome, queued, budget>>

WorkerStops ==
  /\ source.slot = "active"
  /\ source' = [source EXCEPT !.slot = "idle"]
  /\ UNCHANGED <<spec, status, secrets, target, instances, pc, body, result, missed,
                 outcome, queued, budget>>

\* A DBA drops the publication, or grants the provided login the membership
\* status does not claim for the operator; someone deletes the generated Secret;
\* a PostgresInstance goes.
Meddle ==
  /\ budget.meddling > 0
  /\ budget' = [budget EXCEPT !.meddling = @ - 1]
  /\ \/ /\ "publication" \in budget.what /\ source.publication = "ours"
        /\ source' = [source EXCEPT !.publication = "absent"]
        /\ UNCHANGED <<secrets, instances>>
     \/ /\ "grant" \in budget.what /\ source.member["provided"] = "none" /\ ~status.granted
        /\ source' = [source EXCEPT !.member["provided"] = "admin"]
        /\ UNCHANGED <<secrets, instances>>
     \/ /\ "secret" \in budget.what /\ secrets.generated # NoPassword
        /\ secrets' = [secrets EXCEPT !.generated = NoPassword]
        /\ UNCHANGED <<source, instances>>
     \/ /\ \E side \in instances \cap budget.what : instances' = instances \ {side}
        /\ UNCHANGED <<secrets, source>>
  /\ UNCHANGED <<spec, status, target, pc, body, result, missed, outcome, queued>>

\* The resource is gone and nothing handles it any more.
Gone == spec.released /\ pc = "idle" /\ UNCHANGED vars

-----------------------------------------------------------------------------
\* A name is free, or someone else's object holds it.
HolderOf(name) == IF name \in Strangers THEN {"absent", "foreign"} ELSE {"absent"}

Init ==
  /\ spec \in [wanted : Login, enabled : {TRUE}, deleting : {FALSE}, released : {FALSE}]
  /\ status = NoStatus
  /\ secrets = [generated |-> NoPassword, provided |-> TRUE]
  /\ \E p \in HolderOf("publication"), r \in HolderOf("login"), s \in HolderOf("slot") :
       source = [publication |-> p,
                 role |-> [l \in Login |-> IF l = "generated" THEN r ELSE "foreign"],
                 password |-> NoPassword, member |-> [l \in Login |-> "none"],
                 slot |-> IF s = "foreign" THEN "active" ELSE "absent"]
  /\ \E s \in HolderOf("subscription") :
       target = [subscription |-> s, connection |-> NoConnection, enabled |-> FALSE]
  /\ instances = Side
  /\ pc = "idle" /\ outcome = "none" /\ missed = {} /\ queued = {}
  /\ body = [status |-> NoStatus, wanted |-> spec.wanted, enabled |-> TRUE, deleting |-> FALSE]
  /\ result = NewResult(NoStatus)
  /\ budget \in Budgets

Pass ==
  \/ Inspect \/ EnsurePublication \/ CommentPublication \/ RecordPublication
  \/ AdoptProvidedLogin \/ ReadSecret \/ EnsureLoginRole \/ CommentRole \/ ApplySecret
  \/ GrantReadGroup \/ RecordLogin \/ ConvergeTables
  \/ EnsureSlot \/ RecordSlot \/ CreateSubscription \/ CommentSubscription
  \/ RecordSubscription \/ SetConnection \/ SetEnabled \/ Refresh
  \/ DropSupersededLogin \/ DeleteSupersededSecret \/ Publish \/ Refuse

Teardown ==
  \/ DropSubscription \/ SourceGone \/ EndWalsender \/ DropSlot \/ DropPublication
  \/ DropLogin \/ DeleteSecret \/ Finish

Operator == StartPass \/ StartTeardown \/ StartQueued \/ Pass \/ Teardown

Environment ==
  \/ QueueHandler \/ TargetUnreachable \/ SourceUnreachable \/ Abandon
  \/ ResetLoginPassword \/ Break \/ Edit \/ Delete \/ WorkerConnects \/ WorkerStops \/ Meddle \/ Gone

Next == Operator \/ Environment

\* The operator runs what it started and kopf calls it again: a timer every
\* replicationInterval, a failed finalizer after a backoff. A walsender that
\* was ended needs seconds to come back; the slot is dropped within one.
Fairness == WF_vars(Operator) /\ SF_vars(DropSlot)

Spec == Init /\ [][Next]_vars /\ Fairness
-----------------------------------------------------------------------------
(***************************************************************************)
(* Properties                                                              *)
(***************************************************************************)

Operators(holder) == holder \in {"bare", "ours"}

\* The operator never takes over, alters or removes what somebody else owns: a
\* foreign publication, role or subscription stays as it is, and the login and
\* the Secret a user provides are never dropped or deleted, whatever was
\* swapped, failed or retried before (_refuse_foreign_objects,
\* _remove_superseded_login, _remove_source_objects).
LeavesOthersAlone ==
  /\ target.subscription = "foreign" => target' = target
  /\ source.publication = "foreign" => source'.publication = "foreign"
  /\ \A l \in Login : source.role[l] = "foreign" => source'.role[l] = "foreign"
  /\ secrets.provided => secrets'.provided

OthersUntouched == [][LeavesOthersAlone]_vars

\* A membership a DBA granted a provided login is never revoked, although the
\* operator grants - and revokes - the same one where it is missing (_grant).
GrantsUntouched ==
  [][\A l \in Login : source.member[l] = "admin" => source'.member[l] = "admin"]_vars

\* What status says the operator made, and which login and Secret it names, are
\* about the same thing: teardown drops the role status names if status.created
\* says a login was made, so a provided login must never be named beside it
\* (_adopt_provided_login, _record_created, the JSON merge patch).
NamesWhatItMade(st) ==
  /\ st.created["login"] = "yes" => st.login # "provided"
  /\ st.created["secret"] = "yes" => st.credentials = "generated"

CredentialsMatch == NamesWhatItMade(status)

\* The generated Secret is deleted only once the login it belongs to is gone
\* from a source that still exists, by the finalizer and by a login swap alike
\* (teardown_replication: "it goes only once the login has").
SecretOutlivesLogin ==
  [][/\ pc \in {"deleteSecret", "deleteSuperseded"} /\ pc' # pc
     /\ secrets.generated # NoPassword /\ secrets'.generated = NoPassword
     /\ "source" \in instances
     => ~Operators(source.role["generated"])]_vars

\* A pass drops a generated login only when the subscription logs in as another
\* (_remove_superseded_login runs after the connection was changed).
SupersededUnused ==
  [][pc = "dropSuperseded" /\ source'.role["generated"] # source.role["generated"]
     => target.connection.login # "generated"]_vars

\* Between handlers, everything the operator has made is in status, where the
\* finalizer will look for it and observe_from_status watches the slot.
Accounted ==
  pc = "idle" /\ ~spec.released =>
    /\ Operators(source.publication) => status.created["publication"] = "yes"
    /\ Operators(source.role["generated"]) =>
         status.created["login"] = "yes" /\ status.login = "generated"
    /\ secrets.generated # NoPassword => status.created["secret"] = "yes"
    /\ source.slot # "absent" =>
         "yes" \in {status.created["slot"], status.created["subscription"]}
    /\ Operators(target.subscription) => status.created["subscription"] = "yes"
    /\ source.member["provided"] = "operator" => status.granted /\ status.login = "provided"

\* Nothing of the operator's is left once the finalizer is released, whichever
\* server was unreachable on the way: no replication slot that retains WAL on a
\* source that still exists, no other object on either server, no Secret, no
\* membership it granted a provided login (teardown_replication).
NothingLeft ==
  spec.released =>
    /\ "target" \in instances => ~Operators(target.subscription)
    /\ "source" \in instances =>
         /\ source.slot = "absent"
         /\ ~Operators(source.publication) /\ ~Operators(source.role["generated"])
         /\ source.member["provided"] # "operator"
    /\ secrets.generated = NoPassword

\* The subscription is as this specification asks, and its login would be let in.
As(wanted, enabled) ==
  /\ target.subscription = "ours" /\ target.enabled = enabled
  /\ target.connection.login = wanted /\ Authenticates(target.connection)

\* When a pass reports success, the subscription authenticates as the login the
\* spec of that pass asked for, with the password that login has; and one it has
\* replaced is not left behind (_converge_subscription, _remove_superseded_login).
Converged ==
  pc = "idle" /\ outcome = "ok" /\ ~body.deleting =>
    /\ As(body.wanted, body.enabled)
    /\ status.login = "provided" => ~Operators(source.role["generated"])

\* A deletion ends: the finalizer is released once its servers answer, although
\* a target that cannot be reached keeps reconnecting to the slot meanwhile.
FinalizerEnds == spec.deleting ~> spec.released

\* What the spec asks for last is what the subscription becomes and stays,
\* however many passes failed or were overtaken by an edit first.
Converges ==
  \A w \in Login, e \in BOOLEAN :
    <>[](spec.wanted = w /\ spec.enabled = e /\ ~spec.deleting) => <>[]As(w, e)
-----------------------------------------------------------------------------
\* What a replication has, what is not its own, and what status says, as the
\* things of Custody.  A membership is the one in the read group a provided login
\* is granted; the generated login's goes with the login.
Thing == Object \cup {"membership"}

Held ==
  {t \in Thing :
     \/ t = "publication" /\ Operators(source.publication)
     \/ t = "login" /\ Operators(source.role["generated"])
     \/ t = "secret" /\ secrets.generated # NoPassword
     \/ t = "slot" /\ source.slot # "absent"
     \/ t = "subscription" /\ Operators(target.subscription)
     \/ t = "membership" /\ source.member["provided"] = "operator"}

Foreign ==
  {t \in Thing :
     \/ t = "publication" /\ source.publication = "foreign"
     \/ t = "login" /\ source.role["generated"] = "foreign"
     \/ t = "subscription" /\ target.subscription = "foreign"
     \/ t = "membership" /\ source.member["provided"] = "admin"}

\* Where the finalizer will look for it: a slot also under its subscription's
\* mark, a login and a membership under the name of the login in status.
OnRecord ==
  {t \in Thing :
     \/ t \in {"publication", "secret", "subscription"} /\ status.created[t] = "yes"
     \/ t = "login" /\ status.created[t] = "yes" /\ status.login = "generated"
     \/ t = "slot" /\ "yes" \in {status.created["slot"], status.created["subscription"]}
     \/ t = "membership" /\ status.granted /\ status.login = "provided"}

Reachable ==
  {t \in Thing :
     \/ t \in {"publication", "login", "slot", "membership"} /\ "source" \in instances
     \/ t = "subscription" /\ "target" \in instances
     \/ t = "secret"}

\* A replication keeps custody of what it makes: whatever is edited, fails, goes
\* or is swapped, it makes and drops only its own, has everything in status
\* whenever no handler runs, drops the login before its Secret, and releases the
\* finalizer with nothing left on a server that exists (_refuse_foreign_objects,
\* _record_created, _remove_superseded_login, teardown_replication).
Keeping ==
  INSTANCE Custody WITH
    Needs <- [t \in Thing |-> IF t = "secret" THEN {"login"} ELSE {}],
    held <- Held, foreign <- Foreign, recorded <- OnRecord, reachable <- Reachable,
    working <- (pc # "idle"), released <- spec.released, meddling <- budget.meddling
CustodyKept == Keeping!Spec
=============================================================================
