# Verification of pg-operator

TLA+ models of pg-operator, the Kubernetes operator that manages databases,
roles, grants and logical replication on external PostgreSQL servers; the TLC
configurations that check them; and theorems the TLA+ proof system checks.
Source paths below are relative to `src/pg_operator/`.

## 1. The system

Four custom resources: `PostgresInstance` (a server, cluster-scoped),
`PostgresDB`, `PostgresUser`, `PostgresReplication`. For each, kopf calls a
*change handler* (create, update, resume), a *timer* and a *finalizer*
(`handlers/`). All three run the same way: take the resource's lock, read the
resource, converge servers and Secrets, write `status`. A pass that fails
writes only conditions and is run again: by kopf's retry, and by the timer.

| Component | State | Operations | What makes it correct |
|---|---|---|---|
| `ResourceLocks` (`reconcile/context.py`) | table key -> lock, users | `hold` | passes over a resource never overlap, entries neither vanish early nor leak |
| `PostgresReplication` (`reconcile/replication.py`) | status (created flags, login, grants, fingerprint), Secret; publication, login, slot on the source; subscription on the target | reconcile, observe, teardown | touches only what it made; everything it makes is recorded, and removed at the end; converges after failures and edits |
| Publication tables, eligibility (`reconcile/eligibility.py`, `reconcile/replication.py`, `postgres/publication.py`) | members, options and row filters of the publication; what the subscription carries; `status.rowFilters` | judge, drop, add, replace, subscribe, refresh | the filters asked for are the ones in force; no published table stops the source's writes or the apply worker unreported; the table set converges |
| Cycle and claim checks (`reconcile/replication.py`) | all replications' specs and statuses | resolve ends, refuse loops and moved ends, yield tables | no loop of replications streams, each target table has one writer |
| Health and status (`reconcile/health.py`, `status.py`, `handlers/common.py`) | `status.health`, conditions, phase | assess, merge conditions, publish success, failure or pause | what is reported is true, a lost slot stays reported, and status comes to say what spec and servers are |
| `PostgresUser` (`reconcile/user.py`) | role, memberships, Secret, PushSecret | reconcile, teardown | revokes only what it granted; Secret and role agree |
| `PostgresDB` (`reconcile/database.py`) | database, group roles, schemas, extensions | reconcile, orphans, teardown | a database in use or under RETAIN is never dropped |
| `PostgresInstance` (`reconcile/instance.py`) | none on the server | probe | observes only |
| Connection pools (`postgres/connection.py`) | table instance/database -> pool, one lock | connection, recycle, close | no pool is lost open, rotated credentials take effect |
| State API (`api/`) | TTL cache | load | read-only; not modelled |
| models, naming, units, UI, charts | - | validation, formatting | not modelled |

Components meet in three places: the Kubernetes `status` (replication reads the
databases' and other replications' status; a database asks which replications
use it before dropping), the servers' catalogs, and the lock table. Nothing is
held in memory from one pass to the next, apart from pools and caches.

What is hard here: a pass is a long chain of autocommitted statements and API
calls with no transaction around it, so each gap is a place to fail or be
restarted; status is a merge patch, so a key left out keeps an older pass's
value; a handler may queue for the lock with a body that is older than what
its predecessor wrote; and DBAs, users and PostgreSQL's own workers act in
between. `PROJECT.json` lists each hazard at its line.

## 2. What is modelled

### `ResourceLocks`

`hold()` of `reconcile/context.py` for any set of tasks, resources and lock
objects: `Register` (up to the first await), `Acquire`, `Leave` (the finally
clause after a pass), `Cancel` (the finally clause of a task cancelled while
queued). asyncio runs what lies between two awaits atomically, so each is one
step. A lock object is `Fresh` when no entry and no task refers to it.

`OnePass` is what the class promises the handlers, with no lock, table or count
in it: of the tasks that ask for a resource one at a time has it, resources do not
wait for each other, and whoever goes on waiting gets its turn. `ResourceLocks`
implements it (`Promise`, with `waiting` and `running` read off the tasks'
phases). The modules about one resource - one program counter, or one handler
that holds the lock - rest on that.

### `Replication`

One `PostgresReplication` with its two servers and Secrets. `pc` is the next
statement or API call of `reconcile_replication` or `teardown_replication`; the
actions are in the code's order and carry its names. `body` is the resource as
the handler was given it, `result` the pass's `ReplicationResult`, `status` the
status subresource (`Recorded` is `_record_created` through the JSON merge
patch, `Publish` is `build_status`).

- *Failure and restart* are one action, `Break`, at any step the budget names (`at`): both
  lose `result`, keep everything written, and let the next pass start from
  status. CREATE and its COMMENT, and creating and recording, are separate
  steps because they are separate statements or calls.
- *Unreachable servers* during teardown (`TargetUnreachable`,
  `SourceUnreachable`) do not end it: the other server is still cleared.
  An instance that no longer validates does (`Abandon`).
- *Other actors*: `Edit` and `Delete` by the user; the apply worker and its
  walsender (`WorkerConnects`, `WorkerStops`), which hold the slot; `Meddle`:
  a DBA drops the publication or grants the provided login the read group
  first, someone deletes the Secret, a `PostgresInstance` goes; `Strangers`
  are names others hold from the start.
- *Overlap*: with `Overlap` TRUE a handler may queue for the lock while a pass
  runs, and then works from the body it came with (`QueueHandler`). With it
  FALSE every handler starts from the current resource.

A password is a token; a connection string is the login and password it
carries. Left out: which tables are published (see `PublicationTables`), cycle and
claim checks, moved ends, health and pausing (modules of their own), table-sync slots and
`subscriptionOid`, streaming and publication options, the RDS grant, and databases
dropped under the replication. `DROP SUBSCRIPTION` with its detached fallback is one step whose
outcome for the slot is nondeterministic. `ResetLoginPassword` is an optional
step, because whether the managing role may drop slots is not modelled.

### `Custody`

What a replication promises of the things it makes on servers that are not its own,
with no pass, login or status in it. There are six things: publication, login,
Secret, slot, subscription, and a provided login's membership. It makes only what
nobody has (`Make`) and leaves alone what others have; takes back only its own, and
the Secret after the login it belongs to (`Remove`, `Needs`); never has anything of
others on record (`Record`); has everything it holds on record whenever it pauses
(`Pause`), which is where it may also fail or die; and lets go of the resource only
with nothing left on a server that exists (`Release`). What others may do - take a
thing away, take a name, take a server away - costs one act of `meddling`, so that
no step of the operator passes for one of theirs.

`Replication` implements it (`Keeping`, at its end): `Held` and `Foreign` are read
off the servers, `OnRecord` off `status.created`, `status.source.login` and
`status.grantedMemberships` the way the finalizer reads them, `Reachable` off the
`PostgresInstance`s; `working` is that a handler runs.

### `Eligibility`

`judge()` of `reconcile/eligibility.py` with its helpers, over two catalogs: which
issues a selected table has, on which side, and whether a published one stays
published (`KeepsMembership`). A catalog is a function from the relations that
exist to what the queries of `postgres/publication.py` read of them: kind,
replica identity with its index, columns, generated columns, permanence,
ownership, row security, leaves. Next to it stand the servers' own rules that
the judgement anticipates and does not share code with: what ADD TABLE accepts
(`AddAllowed`), when an UPDATE is refused (`WritesRefused`), when the apply worker
stops (`ApplyStops`). They are written from PostgreSQL's documentation and
marked external.

A filter is a model value with the columns it reads; column types, the warning
about them, names and wording are left out.

### `PublicationTables`

Steps 3 to 6 of a pass over one `PostgresReplication`. `pc` goes through the
options, the judgement, the statements per table, the subscription, the refresh
and the status:

| Action | Code |
|---|---|
| `SetOptions` | `_ensure_publication`: the publication is made, or its options altered |
| `JudgeTables` | `describe_source_tables`, `candidates`, `describe_target_tables`, `nonempty_tables`, `_claims_elsewhere` and `judge`, with what `_converge_tables` makes of the verdicts (`_member_matches`) |
| `DropTable`, `AddTable`, `ReplaceTable` | `drop_table`, `add_table`, `replace_table`: one statement each, in the order of `_converge_tables`, which goes on where the server refuses the last two and fails where it refuses the first |
| `ReadBack` | the end of `_converge_tables`: `row_filters` as they will be remembered; and `published_relations` |
| `Subscribe`, `Refresh` | `_converge_subscription` |
| `Publish` | `build_status`, of a pass that ended well |

`pass` is what the running pass has read and decided; it may be stale by the time
a statement runs. `fresh` says that nothing it judged has changed since (owners'
loads of the target and other replications' claims are left to the next pass);
it is for the properties only: no guard of the pass reads it.

- *Other actors*: `AlterSource` and `AlterTarget` replace a catalog by another, as
  far as the server lets published tables change (`StillMembers`); `LoadOrEmpty`
  rows of the target; `EditPublication` by an administrator; `EditSpec`; `Claim` by
  an older replication.
- *Failure*: `Break` at any step; `MayRefuse`, a server that refuses a statement
  for reasons of its own, which the code turns into a warning.

Left out: the progress of the initial copy (done once the subscription is
enabled and carries the table; source tables have rows), streaming and binary
options, the login, slot and connection string, which are `Replication`'s.
Each pass reads the catalogs in one step.

### `UserAccess`

One `PostgresUser` with its role, Secret and PushSecret: the steps of
`reconcile_user` and `teardown_user`, run as in `Replication`. `grants` is
`status.grants`, all the operator knows of what it granted before; `body` and
`result` are the resource a handler was given and what it has still to do
(memberships and default roles are each a set, and one statement a step).
`Stage` is the order of the statements. A membership remembers who granted it,
which the code does not. `Break` is as above; `ClearFails` is a `DROP OWNED`
that fails, which the code only logs; `Refuse` is a statement or a lookup that
fails because what it names is gone. `Abandon` is the finalizer's release over a
`ConfigurationError` (`handlers/common.py:169`), which leaves everything in place.

Group roles are apart from databases: a database may be there without one of its
group roles (dropped or renamed), and group roles outlive their database.
`GrantMembership` skips each one that is missing by itself, `skipped` says which, and
the revocations that follow do not ask. For the properties only, `lost` holds the group
roles that went since the last pass began, and `written` says that `EnsureRole` sent
a password.

- *Other actors* (`Meddle`): a DBA grants a membership, changes the password,
  drops the role; the user creates an object outside the default role; the
  Secret is deleted; a database goes (`LoseDatabase`), or a group role
  (`LoseGroup`), or its `PostgresDB` makes what is missing (`Remake`);
  `setRoleForOwners` is flipped, the `PostgresInstance` goes.
- *Edits*: with `Hasty` FALSE an edit waits until the last one has converged;
  with it TRUE it may come at any time.

Left out: role attributes and parameters, the other keys of the Secret, what a
PushSecret contains, renames, pausing, and entries whose `PostgresDB` does not
exist, on which a pass only fails. A handler that queues with an old body is
modelled in `Replication` only. Who may revoke is left out: REVOKE removes a
membership whoever granted it, as it does before PostgreSQL 16, and from 16 on
when the DBA used the operator's managing role.

### `DatabaseLifecycle`

One `PostgresDB`: the steps of `reconcile_database` and `teardown_database`, a
statement each, run as in `Replication`. `server` is the database (absent,
open, or closed by `ALLOW_CONNECTIONS false`), its objects with who made them -
which the code does not know - the group roles, their grants, and who is
connected; `managed` is `status.managedSchemas` and `managedExtensions`. Schemas
and extensions are one set of objects that differ where the code treats them
differently: grants, `BASELINE_EXTENSIONS`, what CASCADE takes (`Home`).
`CanDrop` is PostgreSQL's rule for DROP DATABASE, with `FORCE` and without; the
retry without `FORCE` is part of it.

- *Failure* (`Break`) and *restart* (`Stop`) are two actions here, because an
  exception while the database is closed runs the `except` clause that opens it
  again, and the end of the process does not. `Refuse` is a lookup or statement
  that fails because of what it finds. `Abandon` is the finalizer's release over a
  `ConfigurationError`, as in `UserAccess`.
- *Other actors*: `Clients` come back whenever the database lets them (a pass
  takes no notice of sessions, so they are followed only in a deletion);
  `Replicate` is a `PostgresReplication` with one end here, of which only
  "declared", "attached" and "broken by the drop" matter; `Meddle`: a DBA makes or
  drops an object, the database, a group role, uses a group role elsewhere or
  holds a session the operator cannot end; the `PostgresInstance` goes.
- *Edits* of the objects wait for the last one to converge unless `Hasty`; the
  retention policy may change at any time, during a deletion too.

Left out: owners, comments, parameters, connection limits, encoding, extension
versions, which privileges a grant holds, default privileges, pausing.

### `ReplicationCycles`

Several `PostgresReplication`s over the databases that their `PostgresDB`s resolve
to. A `PostgresDB` resolves to a *site*: an instance and database name, which is
what status records, and the place these stand for now (host, port, database), which
is what the check for loops compares. Passes over different replications are kept
apart by nothing. A pass resolves its own ends (`ResolveEnds`) and is refused where
something has been made already (`made`) and the names are not those of then
(`names`); it lists the others (`List`), resolves them one at a time
(`ResolveOther`), and refuses to close a loop (`Decide`) - a path is looked for as
`_path` does, stated without recursion: no set of places closed under the edges
separates the two ends. What a pass makes after that is two steps, to the places it
resolved at its start: what is made and recorded on the source (`Make`), and the rest
(`Attach`); `Finalize` is their undoing. Meanwhile replications are made and deleted,
passes fail, and `PostgresDB`s go, come back or resolve to something else, by another
name or, where the instance is edited, by the same (`Move`). In the latter case the
pass goes on at the new place, and what stays on the old one is not followed.

`lapsed` is history for the properties: a replication that holds an edge, or is
about to, at a moment when another's check would not count it, because it is being
deleted or does not resolve to where it streams.

### `TableClaims`

Several replications whose tables meet in one target database, and the rule by
which younger ones yield (`Older`, `SameTarget`, `Claimed` are the parts of
`_claims_elsewhere`). A pass reads which tables hold rows (`ReadTarget`), then the
other replications' statuses (`Judge`), drops and adds (`Converge`), refreshes, and
only then publishes what it has; each of these may be long out of date when the
next is done. `creationTimestamp` has seconds, so ties are broken by name. Others
make, edit and delete replications, load and empty tables, and take
`PostgresInstance`s away. What a single replication sees of a table is in
`PublicationTables`, where `Claim` stands for the older ones.

### `StatusReports`

What a `PostgresReplication`'s status says of it: `Assess` is `assess` with
`_health` - the order of states, the hysteresis, the counters that are compared
with the last ones, the time a slot has been without a consumer - `PhaseOf` is
`phase_from_conditions`, `FailureConditions` and `PublishPaused` are the merges of
conditions. Two handlers, `change` and `timer`, are called with the body as it is
(`Wake`), and may have to wait for the lock (`Enter`) while the other writes; a
paused one takes none. A pass that fails observes anyway, patches health
(`PatchHealth`) and then conditions (`PublishFailure`); any patch may be lost
(`LosePatch`). The servers are what health reads of them, and change at any time.

Lag has three values (below 80 % of its threshold, between, over), the error
counters are one, ages are `recent` and `old`. Left out: messages, times,
generations, `Synced`, metrics and events.

### `ConnectionPools`

`PoolRegistry` for one instance. A pass reads the credentials once (`Resolve`), and
for each connection looks its pool up under the registry's lock (`Reuse`, `Lookup`),
closes one with another fingerprint (`Recycle`), opens (`Open`) and registers
(`RegisterPool`) a new one, and takes a connection from it after the lock is released
(`Checkout`, `Return`); closing by name takes pools out of the table under the lock
and closes them without it (`CloseDatabases`, `CloseNext`). The Secret and the
server's password change in either order (`Change`). psycopg's pool is external:
closed it refuses, open it hands out what is idle (`warm`) or what the server
accepts. Left out: pool sizes, cancelled tasks (the operator cancels passes only
when it stops), the second attempt that explains a failure, the cache of server
facts.

## 3. What is checked

Instances are in the `MC` module of each component. Passwords are
symmetric; four are enough for one to be fresh, since at most three differ at
once. Symmetry is not used for liveness.

| Run | Shows |
|---|---|
| `locks` | three tasks, two resources: `CountsUsers`, `PromiseKept` (the refinement, fairness included) |
| `crashes` | one failure anywhere, one or two edits, one act of meddling, names others hold, handlers that queue with an old body: `OthersUntouched`, `CredentialsMatch`, `SecretOutlivesLogin` |
| `cleanup` | three failures outside the unrecorded windows with two acts of meddling, and three edits of the login with two failures before the new login is recorded: `CustodyKept` (the refinement of `Custody`), `NothingLeft`, `Converged`, `GrantsUntouched`, `SupersededUnused` |
| `progress` | liveness: `FinalizerEnds`, `Converges` |
| `user` | one failure anywhere or one configuration error, two edits, one act of meddling, `pg_authid` readable or not: `NoLingeringAccess`, `DroppedClean`, `NoGapInAccess`, `NoNeedlessReset`, `Settles`, `DeletionEnds` |
| `database` | one failure or one configuration error, two edits, one act of meddling, with and without `FORCE`: `OrphansTracked`, `ReplicationIntact`, `RetainedReachable`, `DroppedClean`, `Settles`, `DeletionEnds` |
| `tables` | three changes by others at any step of a pass, one failure, one refused statement: `FilterHonoured`, `WritesAccepted`, `ReportedOrFlowing`, `Converges` |
| `cycles` | three replications made, or two with two acts of meddling or a failure: `LoopsHaveALapse`, `LoopReported`, `ChainsAttach` |
| `claims` | two replications, three instances on two servers, an edit, a failure or an outage: `RestIsRight`, `OneWriter`, `Served` |
| `status` | two handlers, up to three changes of the servers, two edits, a lost patch: `LossIsReal`, `LossSticks`, `StateSettles`, `PhaseSettles` |
| `pools` | two passes, two databases, two changes of credentials, one closing by name: `NoPoolLost`, `Recovers` |
| `grant_taken_back` | a disagreement between code and documentation, see below |

A run's time goes to the properties above; the type invariants, `MutualExclusion`,
`Accounted` (which `CustodyKept` implies) and `OnlyDeclaredDropped` are proved instead
(section 4).

Bounds: a budget, chosen at the start of a behaviour and counted down, says how
often others may act and calls may fail over the whole of it; several budgets in
one run are several scenarios. In `Replication` it also says at which steps (`at`)
and by which acts (`what`). Two failures let one pass fail and the one
that repairs it fail too; three edits swap a login away, back and away again,
which is the shortest sequence in which a flag of the first login could be
read as the third's. Passes themselves are not bounded.

In `user` one database with two levels is enough for a level to be changed, taken
away and given back: entries for two databases do not share state. Two edits
after one failure or one act of meddling give every order of the three.
A single group role may go, or be missing beside its database, when the level
changes, which is when the new group's absence matters. `DroppedClean` excepts a
finalizer released over a configuration error. `DeletionEnds` assumes that the role
owns nothing outside the databases status names, and `Hasty` is FALSE; all three are
needed, see below.

In `database` one schema and one extension are enough for one object to be
declared, kept as an orphan, and dropped; `plpgsql` is the extension every
database has. A failure may fall anywhere but at opening the database again, a
restart anywhere but while it is closed (see below). `DroppedClean` excepts what it
excepts in `user`. `DeletionEnds` assumes that
in the end no replication and no session the operator cannot end is left, and
that no group role has privileges in another database; each blocks DROP DATABASE
or DROP ROLE for as long as it lasts.

In `tables` the catalogs hold a table `t` and a table `u`; `u` may be dropped, or
replaced by a partitioned `p` with its leaf `l`, at either end; the keys of `t` at
the source and of `u` on the target change among those that make an issue
differ. The three specs filter `t`, filter it differently with the subscription
disabled, and leave it out while publishing through the root. Three changes are
enough to take a table out, bring it back and change it in between, or to change
source, target and spec under one pass; both ends start healthy, so that they
are not spent on making it so. The administrator edits the publication between
passes only (`publicationMeanwhile` is not in `Edits`): an edit between the
judgement and `ReadBack` is remembered as the filter in force, which is the same
defect as the forgotten filter (below) reached by another road.

In `cycles` the databases A, B and C can close a loop of three and one of two, whose
second half names the same databases by other `PostgresDB`s on other instances: the
checks must see through the names. One of the databases moves: to nothing, to another
instance, or to another server under the name it has. One act of meddling hides a
replication, the second reveals it.
In `claims` the instances `i` and `j` are one server and `k` is another, so a claim
must be seen through another instance's name and not on another server; two
replications are enough, as the rule compares two at a time, and the theorem is
for any number. In `status` an error counter of up to one, three lags and two ages
give every branch of the assessment; three changes let a state come, go and come
back under handlers that saw only one of them. In `pools` two changes bring
Secret and server apart and together again; four pool objects suffice for two
passes, as TLC would find none to open otherwise.

`SecretOutlivesLogin` in `crashes` and `Converges` in `progress` hold with the
exception of the windows below; `crashes` omits dropping the publication, because
that is what opens them. `GrantsUntouched` is checked without overlapping
handlers: with a queued body it fails (see below). `Converges` of `PublicationTables`
excepts a published table that is missing on the target, which blocks every
REFRESH (see below). `StateSettles` and `PhaseSettles` begin where spec and servers
stop changing; `Recovers` where Secret and server agree and nobody closes pools any
more; `OneWriter` and `Served` where every `PostgresInstance` loads.

### Where the code and its documentation disagree

One is a run that TLC refutes with a short counterexample: in `grant_taken_back` a
membership a DBA granted first is recorded as the operator's, and revoked
(`reconcile/user.py:729`), against `reconcile/user.py:8-10`.

The others are found by the same instances with other values of their constants, or
read off the code while it was modelled. In `Replication` (no edits and one failure,
unless the row says otherwise; `at` and `what` are the budget's):

| `at`, `what` | Property | What happens |
|---|---|---|
| `{"grant"}` | `Accounted` | login and Secret exist, the grant fails every time, status knows neither (`reconcile/replication.py:307`) |
| `{"tables"}`, `{"publication"}` | `SecretOutlivesLogin` | a publication made again makes status forget the login; its Secret is deleted, the role stays (`:299`) |
| `{"misconfigured"}` | `NothingLeft` | an instance that no longer validates releases the finalizer with the slot in place (`handlers/common.py:169`) |
| `{"recordSlot"}` | `NothingLeft` | the operator stops between making the slot and recording it; the finalizer does not look for one (`reconcile/replication.py:1271`) |
| none, with `Overlap = TRUE` | `NothingLeft` | a finalizer that queued behind the first pass works from the body before it, finds nothing recorded, and releases (`handlers/replication.py:203`) |
| every step, `{"grant"}`, with `Overlap = TRUE` and edits | `GrantsUntouched` | a queued handler's old body still names the login the pass before it gave up; what a DBA has granted that login since is revoked (`reconcile/replication.py:753`) |
| `{"commentPublication"}` | `Converges` | CREATE without its COMMENT is refused as foreign by every later pass (`postgres/publication.py:464`) |
| `Swapping`, with edits | `Converged` | the login swap records the new login, fails, and never removes the old one (`reconcile/replication.py:972`) |
| `Swapping`, with edits | `SupersededUnused` | a swap is undone before its status was written, and the login in use is dropped (`:1159`) |

In `PublicationTables`, from the code and TLC's behaviours:

- A filter that is edited while its table is kept for trouble on the target is
  forgotten: status remembers the new filter's hash beside the old one's text, and
  the next pass takes it for applied (`reconcile/replication.py:1051`, against
  `docs/design/replication.md:496-498`). With specs and targets that break the
  filtered table itself TLC refutes `FilterHonoured`; the run's targets break `u`.
- A table that leaves the publication and comes back while the subscription is
  disabled is carried on without a copy, and what it missed is not reported
  (`:1177`, against the comment at `:1176`). No property here says otherwise.
- A kept table that has lost its counterpart on the target makes every CREATE and
  REFRESH of the subscription fail, so other tables are not carried either
  (`reconcile/replication.py:1179`); `docs/design/replication.md:483-484` says why it
  stays published.
- `TargetTableNotEmpty` is a verdict on the target only, so a table that is
  published already, but not yet subscribed - a pass failed in between - is kept and
  its rows are copied onto those that are there (`README.md:611-613` and
  `docs/design/replication.md:461` of the repository say it protects them).
- A kept table is judged with the shape the spec gives it and published with the
  former one, under which the source may refuse writes; status reports it as
  kept. `WritesAccepted` excepts it.
- A partitioned table published through its root is matched by the root's own
  replica identity, and the judgement looks at its leaves only
  (`reconcile/eligibility.py:410`). `StopsAreReported` assumes such identities.
- With a filtered partitioned member, taking `publishViaPartitionRoot` back fails
  at `ALTER PUBLICATION ... SET` in every pass, before the member could be dropped
  (`SetOptions`); the instance's specs do not ask for it.

In `UserAccess` and `DatabaseLifecycle`, under DROP:

- A user's or a database's finalizer is released over any `ConfigurationError`: a spec
  that does not parse, an instance that does not validate, that no longer permits the
  namespace, or whose server is older than its `minServerVersion`
  (`handlers/common.py:169`). The role with its Secret and PushSecret, or the database
  with its group roles, stays, with the server there and the policy DROP, and nothing
  tracks it any more - what `handlers/common.py:161-165` avoids for a missing Secret.
  Both runs have this step (`Abandon`, `"misconfigured"`); without the exception
  `outcome # "abandoned"` TLC refutes `DroppedClean` in each.

In `UserAccess`, seen in the runs as they are:

- Where the group role of a new level is missing, the pass skips it with a warning
  (`reconcile/user.py:280-286`), still revokes the old level's (`:291`), and succeeds: the
  user has no access until its `PostgresDB` has made the group and another pass has run.
  `NoGapInAccess` excepts exactly this.
- Where `pg_authid` cannot be read, a password from `passwordSecretRef` is written again
  by every pass (`:418-421`). The docstring (`:396-400`) says that a BYO password "is left
  alone rather than rewritten on a guess", and `README.md:887-889` of the repository that
  this "stops a reconcile from rewriting a working credential it cannot read".
  `NoNeedlessReset` sees every write, not only changed values, and excepts exactly this.

Three more there, with the constants of `user` changed as shown:

| Change | Property | What happens |
|---|---|---|
| `Hasty = TRUE` | `NoLingeringAccess` | a pass grants and fails before status; the entry is taken out; nothing ever revokes (`reconcile/user.py:287`) |
| `Hasty = TRUE` | `Settles` | `pg_authid` unreadable: a provided password is set, the pass fails before the Secret, the reference is removed; role and Secret stay apart (`:412`) |
| without its premise | `DeletionEnds` | the role owns an object in a database that status does not name; `DROP ROLE` is refused for ever (`:606`) |

In `DatabaseLifecycle`, a schema that a DBA made and the spec declares for a while is
recorded as the operator's (`reconcile/database.py:151`) and dropped with CASCADE once
it leaves the spec, against `README.md:174` of the repository; `OnlyDeclaredDropped`
says that nothing else is. Three more with the constants of `database` changed as shown:

| Change | Property | What happens |
|---|---|---|
| `Stops = {"evict"}` | `RetainedReachable` | the operator stops with the database closed, the policy becomes RETAIN, the finalizer is released: nothing opens it again (`reconcile/database.py:541`) |
| `Meddling = {"late replication"}` | `ReplicationIntact` | a replication declared after the check attaches before the drop (`:487`) |
| `Home[e] = app` for the extension | `Settles` | CASCADE of the schema takes a declared extension, which cannot be made again without it: every later pass fails (`:434`) |

In `ReplicationCycles` and `TableClaims`:

- A replication that does not resolve for a while, or is being deleted, keeps
  streaming and is not counted by others' checks, so a loop can close behind it
  (`reconcile/replication.py:563-574`: "One that cannot resolve cannot be replicating
  either"). `LoopsHaveALapse` says that this is the only way; `LoopReported` that
  the loop is then refused in every pass, though it goes on streaming.
- Moved ends are told by the names of instance and database (`:222-233`). An instance
  edited to name another server, or a database made there under the same name, is not
  noticed: the pass goes on at the new place, and what it made stays on the old server.
- Two replications that close a loop and are made together are both refused, and a
  newcomer that closes one also makes the next passes of established ones fail.
- While the `PostgresInstance` an older replication names does not load, its claims
  are not seen, and two subscriptions write one table until it does (`:876`).

In `StatusReports`, where the properties are about what status comes to be:

- After a failed pass the `Streaming` condition keeps the reason of the last good one,
  while `replicationState` is what was observed since.
- While the spec is invalid, what an outage left in `Reachable` stays: a failure of the
  spec sets `Ready` only (`handlers/common.py:211-218`). The phase then says
  `Unreachable` with both servers up, against `README.md:704` of the repository, where
  the condition means that "the server answered". `PhaseSettles` says what status comes
  to be of a valid spec, and of an invalid one only that it is `Failed` or `Unreachable`.
- A handler that queued writes what it derives from its older body: the hysteresis
  can flap once, a rise of the error counter is compared with an older count, and
  a counter that was reset or could not be read in between hides a rise
  (`reconcile/health.py:91`). A paused handler writes without the lock, and is
  overwritten by a pass that was running, until the next timer.
- While a subscription is disabled `inactiveSince` goes on, so the first assessment
  after it is enabled again is `Stalled` (`reconcile/health.py:139`).

The passing runs leave out exactly the window of the finding that refutes the
property: `cleanup` fails anywhere but between making and recording, and with
edits not between recording the login and publishing either; `progress`
anywhere but between CREATE and COMMENT, `database` stops anywhere but with the
database closed.

### Fairness

`ResourceLocks`: weak fairness of `Acquire` and `Leave` - the event loop runs
ready tasks, and statement timeouts bound a pass. `Replication`: weak fairness
of the operator as a whole - the timer calls it every `replicationInterval`
and kopf retries a failed finalizer - and strong fairness of `DropSlot`: an
ended walsender needs the target's retry interval (seconds) to come back, the
slot is dropped within one. `UserAccess`,
`DatabaseLifecycle` and `PublicationTables`: weak fairness of the operator (`Pass`
in the last), from the same timer and retries; no fairness of clients, who may
reconnect for ever. `ReplicationCycles` and `TableClaims`: weak fairness of each
replication's passes and of its finalizer. `StatusReports`: of each handler's
being called and of its steps, and of time passing. `ConnectionPools`: weak fairness of
each pass, strong fairness of its getting the registry's lock, since asyncio's lock
serves whoever came first; none of changes. Failures are bounded, so the servers
answer in the end.

## 4. What is proved

For every value of the constants, from the assumptions named in the modules.

- `ResourceLocks_proofs`: `Mutex` (`MutualExclusion`), `ExactCounts` (`CountsUsers`) and
  `KeepsPromise` (the safety part of `OnePass` is implemented: a pass begins only where
  none runs, by the same invariant, and every other step is one of the promise's or
  changes nothing it speaks of). Mutual exclusion is not inductive: the inductive
  invariant adds that whoever uses a key uses the lock its entry names (`SharedLock`),
  that being inside is owning that lock (`InsideOwns`), and that counts are exact - an
  entry deleted early would give the key a second lock.
- There, about the other lock that passes share (`ConnectionPools`): `PoolsTypeCorrect`
  (`PoolsTypeOK`) and `NoPoolIsLost` (`NoPoolLost`). A pool leaves the table into the
  hands of the pass that closes it, and enters it where there is none to lose, because
  whoever replaces a pool keeps the lock from the lookup to the registration
  (`Replacing`).
- `Replication_proofs`, type correctness (`TypeCorrect`, for both values of `Overlap`)
  and every safety property of its runs. Each layer is an inductive invariant over the
  one before:

  | Theorem | Property | Premises | Invariant |
  |---|---|---|---|
  | `CredentialsKept`, `OthersKept` | `CredentialsMatch`, `OthersUntouched` | `~Overlap` | `Ownership` |
  | `CredentialsKeptQueued`, `OthersKeptQueued` | the same | `PublicationsLeft` | `Names` |
  | `SecretGoesLast` | `SecretOutlivesLogin` | `PublicationsLeft` | `Names` |
  | `GrantsKept` | `GrantsUntouched` | `~Overlap` | `Granting` |
  | `AccountedFor`, `NothingLeftBehind` | `Accounted`, `NothingLeft` | `RecordsMade`, `SwapsComplete` | `Objects`, `Ledger` |
  | `CustodyIsKept` | `CustodyKept` | `RecordsMade`, `SwapsComplete` | `Ledger` |
  | `ConvergedWhenOk`, `SupersededIsUnused` | `Converged`, `SupersededUnused` | `RecordsMade`, `SwapsComplete` | `Links` |

  - `Ownership` follows the flags through memory: what `status`, the handler's `body`
    and the running pass's `result` mark as made is not a stranger's (`Owns`, three
    times); past `Inspect` no name the pass will write is a stranger's (`PassOwns`);
    result and flags agree (`ResultMatches`); and what the body names is what it made.
    `OthersUntouched` does not follow from `CredentialsMatch` alone, because the
    finalizer acts on the body it was given, which is older than status.
  - `Names`, for queued handlers too: the login and the Secret that a status names
    follow from its marks, so that no body, however old, disagrees with itself
    (`NamesFollow`); and at the steps that delete the Secret of a login the operator
    made, that login is gone (`LoginGone`).
  - `Granting`: while passes run, a membership that status, the body or the pass claims
    as granted is one the operator holds and no DBA gave (`ClaimsHold`), and the three
    agree from the GRANT to the patch that records it (`ClaimsFollow`).
  - `Objects` says where the record of each object is - in status, in the running
    result, or in the patch about to be sent - and, from the finalizer's step on, that
    it is gone; `Ledger` adds login, membership and Secret, which a swap makes two of:
    what the operator holds is claimed by whatever the next step reads.
  - `CustodyIsKept` maps every step to one of `Custody` or to a stutter. Custody's guards
    are what `Ledger` says of the state before and after (`InOrder`). What remains is
    about steps: one step of a pass makes one thing at most, because the steps that make
    different things are different (`OneMade`), and gives back only what a swap replaces
    (`PassHolds`); a finalizer makes nothing (`MadeAt`); where a handler begins, ends or
    does not run nothing moves (`HeldStill`); and what only others may do is theirs
    (`MeddleInCustody`). `CustodyMeans` is about the abstract side: whatever implements
    `Custody` holds and records nothing of anyone else's, has at rest what it holds on
    record, and leaves nothing in reach - `Accounted` and `NothingLeft` with no word
    about passes, so a finalizer that works in another order need only be mapped anew.
  - `Links`: the fingerprint in status is the connection the subscription has, or one
    with a password that no server and no Secret holds any more, so a pass may trust it
    unread (`Fingerprint`); Secret, server and pass agree on the password
    (`PasswordsAgree`); and past the connection's step it is the one the pass wants
    (`ConnectionSet`), before a replaced login is dropped.

  The premises are what TLC shows to be needed. `~Overlap`: handlers do not queue behind
  a pass with an old body. `PublicationsLeft`: nobody drops the publication behind the
  operator's back; with an old body and a dropped publication TLC finds behaviours in
  which a stale record names the user's Secret beside a flag that says it was made.
  `RecordsMade`: no failure falls between making an object and recording it
  (`Unrecorded`, the windows of section 3), no handler queues, the slot's name is not a
  stranger's (a slot bears no owner, so the properties speak of any slot of that name),
  and no `PostgresInstance` turns invalid under a finalizer.
  `SwapsComplete`: `PublicationsLeft`, and no failure of a pass over an edited spec
  falls between recording its login and publishing its connection (`Swapping`). The runs
  stay inside them: `crashes` inside `PublicationsLeft`, `cleanup` inside the rest.
  Inside them the number of failures, edits and outages, the passwords, and the names
  others hold are any.

- `UserAccess_proofs`: `UserTypeCorrect` (`TypeOK`), `AccessTakenAway`
  (`NoLingeringAccess`, for `~Hasty`), `NothingLeftOfUser` (`DroppedClean`),
  `SteadyPassword` (`NoNeedlessReset`) and `NoGap` (`NoGapInAccess`).
  `NoLingeringAccess` speaks of the end of a pass; `AccessInv` carries it there: every
  membership the operator granted is named by status or by the spec (`Traceable`), what
  the pass has still to revoke covers the rest (`ToRevoke`), and it leaves the stage
  with nothing to revoke (`Revoked`). An edit at a bad moment breaks `Traceable`, hence
  `~Hasty`. `DropInv` follows what each step of the finalizer may rely on being gone.
  `PasswordInv` says that a Secret may vanish while a pass runs, but not change.
  `GapInv` says that the group of each level the pass's spec asks for is held, still to
  be granted, was skipped or went meanwhile (`Covered`), that none of them is to be
  revoked, and that nothing is left to grant when revoking begins. It needs no premise:
  databases and group roles may come and go in any number and order.

- `DatabaseLifecycle_proofs`: `DatabaseTypeCorrect` (`TypeOK`; a pass has schemas to do
  at one step and extensions at the next, which grants rely on), `NothingLeftOfDatabase`
  (`DroppedClean`), `NeverLeftClosed` (`RetainedReachable`), `NotUnderReplication`
  (`ReplicationIntact`), `NoOrphanForgotten` (`OrphansTracked`) and
  `OnlyDeclaredObjectsDropped` (`OnlyDeclaredDropped`). The premises are the ones TLC
  shows to be needed: no stop and no failing statement while the database is closed, no
  replication declared after deletion has begun, edits that wait, no extension inside a
  droppable schema. `RetainedReachable` follows from a stronger fact, that the database
  is closed only at `evict`, `drop database` and `reopen`; `OrphansTracked` from
  `OnRecord`, that status or spec names every object the operator made, and `Dropping`,
  that a pass at its last step still has each undeclared one to drop or to report.

- `PublicationTables_proofs`, section on `Eligibility`, for any catalogs, options and
  candidates: a table with no issue at the source is one ADD TABLE accepts (`Addable`)
  and one whose UPDATEs and DELETEs are not refused (`WritesSurvive`); one with no issue
  at all does not stop the apply worker (`ApplyGoesOn`, assuming `RootIdentified`: a
  partitioned table published through its root has an identity). `SourceClear` and
  `TargetClear` read off what an absent issue means.

- There, about the passes: `TablesTypeCorrect` (`TypeOK`); `StopsAreReported`
  (`ReportedOrFlowing`, with filters or without, from `RootsIdentified`); and four on
  `FilterHonoured` and `WritesAccepted`, of which neither holds without a premise: the
  forgotten filter (section 3) breaks both.
  - All speak of the end of a pass; `Inv` carries the judgement there. While nothing
    judged has changed (`fresh`), every member not about to be dropped and every table
    about to be added is `Fit` - selected, writable and, unless kept, flowing in the
    shape the spec gives it - and every member not about to be replaced, kept or refused
    has that shape, but for a filter that status is mistaken about (`AsAsked`). The
    judgement establishes this by the theorems on `Eligibility`; each statement then
    moves one table.
  - `WrongFiltersTraced` needs no premise: at the end of a good pass a table that is
    published in another shape than asked, and not reported, has the columns asked for
    and a row filter that was read back wrong (`Misremembered`). There is no other way
    for a filter not to be honoured.
  - `PublishedAsAsked` (`FilterHonoured`) and `WritesStayAccepted` (`WritesAccepted`)
    exclude that way: no administrator edits the publication between judgement and
    `ReadBack`, and no pass reads back a table that it kept, or was refused to replace,
    with another filter than asked (`Unhindered`, an assumption on behaviours, which
    every step of the instance of `tables` satisfies). The memory of filters is then
    right: what it holds for a published table is in force there (`Honest`), and the
    tables a pass is done with have the filters asked for (`GivenSoFar`).
  - `SteadyFiltersHonoured` draws both conclusions from the specs alone: each table has
    the same filter in every spec that selects it, or none, and nobody else edits a
    filtered publication (`FiltersSteady`). Columns, options, trouble on either side and
    refused statements are any. A published table then has that filter from its ADD on
    (`SteadyMembers`).

- `ReplicationCycles_proofs`: `TypeCorrect` and `LoopFree` (`LoopsHaveALapse`), for any
  number of replications and databases and loops of any length. `CycleInv` watches the
  replications that hold an edge and never lapsed (`Firm`): each resolves to what it
  holds, a pass over it included - to be about to stream elsewhere, it must have lapsed
  (`PassHolds`) - and in a loop of them at least one has not yet decided and has still to
  resolve, or has resolved, each of the others as it is (`Watched`). Its check then
  finds the path (`PathClosesLoop`), so the last one to decide is refused.
- `TableClaims_proofs`: `TypeCorrect` and `RestRight` (`RestIsRight`), for any number of
  replications, tables and instances: `Older` is a total order whatever the clock does,
  so of two writers at rest one would have yielded; a table nobody writes is reported by
  nobody, so somebody would add it.
- `StatusReports_proofs`: `TypeCorrect`, `LossTrue` (`LossIsReal`) and `LossKept`
  (`LossSticks`). The invariant follows a loss that has been observed: what a handler
  that holds the lock has seen of it, and what the next would see, since a slot once
  lost stays lost.

Only model-checked: liveness, which is out of the proof system's reach - `FinalizerEnds`
and `Converges` of `Replication`, `Settles` and `DeletionEnds` of `UserAccess` and
`DatabaseLifecycle`, `Converges` of `PublicationTables`, `LoopReported`, `ChainsAttach`,
`OneWriter`, `Served`, `StateSettles`, `PhaseSettles`, `Recovers`, and the fairness in
`PromiseKept`. Every safety property that a passing run checks is proved.

## 5. Plan

Done, most important first: `ResourceLocks` with `OnePass`, `Replication` with
`Custody`, `UserAccess`, `DatabaseLifecycle`, `Eligibility`, `PublicationTables`,
`ReplicationCycles`, `TableClaims`, `StatusReports` and `ConnectionPools`, each with its
runs and its proofs.

What could follow: an abstract specification like `Custody` for `UserAccess` and
`DatabaseLifecycle`, whose records - granted memberships, managed schemas and
extensions - are kept the same way but name what was asked for, not only what was made.

Not modelled, and not planned: the State API (read-only, a cache with a time to
live in front of list calls; its `invalidate` is called by tests only), row filters as SQL,
validation and naming, startup, logging, metrics, the web UI and the charts. What
is left out of the modelled components is named with each in section 2.

## 6. Running

In this directory, a run is its configuration with the `MC` module of its component,
and the proofs of a module are those of its `_proofs` module:

    tlc -config ReplicationCrashes.cfg MCReplication.tla
    tlc -config StatusReports.cfg MCStatusReports.tla
    tlapm Replication_proofs.tla

`PROJECT.json` pairs each run with its module and configuration.
