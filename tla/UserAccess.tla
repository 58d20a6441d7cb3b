----------------------------- MODULE UserAccess -----------------------------
(***************************************************************************)
(* The life of one PostgresUser: its login role with the memberships that  *)
(* give it access, its password and the Secret and PushSecret that publish *)
(* it, from the first pass to the finalizer (reconcile/user.py).           *)
(*                                                                         *)
(* As in Replication, every statement and API call is a step, a failed     *)
(* call and a restart are both Break, and the next pass starts from status *)
(* - here the access it last published, which is all the operator knows of *)
(* the memberships it granted.                                             *)
(*                                                                         *)
(* Left out: role attributes and parameters, Secret keys other than the    *)
(* password, renamed roles and Secrets, pausing, access entries whose      *)
(* PostgresDB does not exist or is invalid (the pass then only fails).     *)
(***************************************************************************)
EXTENDS Naturals, FiniteSets

CONSTANTS
  Database,          \* databases whose PostgresDB an access entry may name
  Level,             \* access levels; "OWNER" is the one that is special
  Password,          \* what generate_password() can return
  NoPassword,        \* no role, no Secret, or no password read yet
  ProvidedPassword,  \* the password in the Secret passwordSecretRef names
  Breaks,            \* steps at which a call may fail or the operator die
  Meddling,          \* what others may do behind the operator's back
  Hasty,             \* may the spec be edited before the last edit has converged?
  MaxBreaks, MaxEdits, MaxMeddling   \* bounds, for TLC

\* A group role: one per database and level.
Group == Database \X Level

PassStep == {"resolve", "role", "read", "grant", "revoke", "setDefault", "resetDefault",
             "secret", "push", "publish"}
TeardownStep == {"find", "revokeAll", "clear", "dropRole", "deleteSecret", "deletePush"}

ASSUME OwnerIsLevel == "OWNER" \in Level /\ "none" \notin Level
ASSUME PasswordsDistinct ==
  /\ NoPassword \notin Password \cup {ProvidedPassword}
  /\ ProvidedPassword \notin Password
ASSUME BoundsAreNat == MaxBreaks \in Nat /\ MaxEdits \in Nat /\ MaxMeddling \in Nat

VARIABLES
  spec,       \* the PostgresUser, whether it is being deleted, and gone
  grants,     \* status.grants: database -> level
  role,       \* the login role on the server
  secret,     \* the password in the credentials Secret
  push,       \* does the PushSecret exist?
  databases,  \* databases that exist on the server
  groups,     \* group roles that exist on the server
  lost,       \* history: the group roles that went since the last pass began
  setRole,    \* databases whose PostgresDB says setRoleForOwners
  instance,   \* does the PostgresInstance exist; can pg_authid be read?
  pc,         \* the step of the pass or finalizer that is running
  body,       \* the resource as that handler was given it
  result,     \* what the handler has read and has still to do
  outcome,    \* how the last pass ended
  budget      \* how often the bounded actions have happened

vars == <<spec, grants, role, secret, push, databases, groups, lost, setRole, instance, pc,
          body, result, outcome, budget>>

Access == [Database -> Level \cup {"none"}]
Body == [access : Access, provided : BOOLEAN, push : BOOLEAN, grants : Access]
Result == [password : Password \cup {NoPassword, ProvidedPassword},
           origin : {"none", "byo", "existing", "generated"},
           written : BOOLEAN,
           grant : SUBSET Group, skipped : SUBSET Group, revoke : SUBSET Group,
           set : SUBSET Database, reset : SUBSET Database]

TypeOK ==
  /\ spec \in [access : Access, provided : BOOLEAN, push : BOOLEAN,
               policy : {"RETAIN", "DROP"}, deleting : BOOLEAN, released : BOOLEAN]
  /\ grants \in Access
  /\ role \in [exists : BOOLEAN, password : Password \cup {NoPassword, ProvidedPassword},
               member : [Group -> {"none", "operator", "admin"}],
               default : SUBSET Database, owns : SUBSET Database]
  /\ secret \in Password \cup {NoPassword, ProvidedPassword}
  /\ push \in BOOLEAN
  /\ databases \subseteq Database /\ setRole \subseteq Database
  /\ groups \subseteq Group /\ lost \subseteq Group
  /\ instance \in [exists : BOOLEAN, readable : BOOLEAN]
  /\ pc \in {"idle"} \cup PassStep \cup TeardownStep
  /\ body \in Body
  /\ result \in Result
  /\ outcome \in {"none", "ok", "failed", "abandoned"}
  /\ budget \in [breaks : Nat, edits : Nat, meddling : Nat]

-----------------------------------------------------------------------------
\* Helpers

NoAccess == [d \in Database |-> "none"]
NoRole == [exists |-> FALSE, password |-> NoPassword, member |-> [g \in Group |-> "none"],
           default |-> {}, owns |-> {}]
NoResult == [password |-> NoPassword, origin |-> "none", written |-> FALSE,
             grant |-> {}, skipped |-> {}, revoke |-> {}, set |-> {}, reset |-> {}]

\* The group roles, and the databases, that a map of access levels names.
Groups(access) == {g \in Group : access[g[1]] = g[2]}
Named(access) == {d \in Database : access[d] # "none"}
Owned(access) == {d \in Database : access[d] = "OWNER"}

\* OWNER entries whose PostgresDB wants its owners to act as the group.
DefaultsFor(access) == Owned(access) \cap setRole

Held == {g \in Group : role.member[g] # "none"}

FreshPasswords == Password \ {role.password, secret}

\* Mutant: memberships are revoked before the new ones are granted.
RevokeFirst(r) ==
  IF r.revoke # {} THEN "revoke" ELSE IF r.grant # {} THEN "grant"
  ELSE IF r.set # {} THEN "setDefault" ELSE IF r.reset # {} THEN "resetDefault" ELSE "secret"

\* The first statement the pass has still to send; then the Secret.
Stage(r) ==
  IF r.grant # {} THEN "grant" ELSE IF r.revoke # {} THEN "revoke"
  ELSE IF r.set # {} THEN "setDefault" ELSE IF r.reset # {} THEN "resetDefault" ELSE "secret"

\* The handler goes on; the world around it stays.
Step(from, to) ==
  /\ pc = from /\ pc' = to
  /\ UNCHANGED <<spec, databases, groups, lost, setRole, instance, body, outcome, budget>>

Idle(how) == pc' = "idle" /\ outcome' = how /\ result' = NoResult

-----------------------------------------------------------------------------
\* A pass: reconcile_user, in its order

StartPass ==
  /\ pc = "idle" /\ ~spec.deleting
  /\ pc' = "resolve" /\ outcome' = "none"
  /\ body' = [access |-> spec.access, provided |-> spec.provided, push |-> spec.push,
              grants |-> grants]
  /\ lost' = {}
  /\ UNCHANGED <<spec, grants, role, secret, push, databases, groups, setRole, instance, result,
                 budget>>

\* Mutant: a new password is generated whenever the user brings none.
AlwaysGenerated ==
  IF body.provided THEN {[password |-> ProvidedPassword, origin |-> "byo"]}
  ELSE {[password |-> p, origin |-> "generated"] : p \in FreshPasswords}

\* _resolve_password: the user's own, else the Secret's, else a new one.
Resolved ==
  IF body.provided THEN {[password |-> ProvidedPassword, origin |-> "byo"]}
  ELSE IF secret # NoPassword THEN {[password |-> secret, origin |-> "existing"]}
  ELSE {[password |-> p, origin |-> "generated"] : p \in FreshPasswords}

\* The instance, the access entries and the password are read; what default
\* roles to set and to clear follows from the spec and from status.
Resolve ==
  /\ instance.exists
  /\ Step("resolve", "role")
  /\ \E known \in Resolved :
       result' = [NoResult EXCEPT !.password = known.password, !.origin = known.origin,
                    !.set = DefaultsFor(body.access),
                    !.reset = Owned(body.grants) \ DefaultsFor(body.access)]
  /\ UNCHANGED <<grants, role, secret, push>>

\* Mutant: where pg_authid cannot be read, the password is taken to match.
KnownToDiffer == instance.readable /\ role.password # result.password

\* password_matches is False; or it cannot tell, and the Secret was missing or
\* the password is the user's own.
MustSetPassword ==
  IF instance.readable THEN role.password # result.password
  ELSE result.origin \in {"generated", "byo"}

\* ensure_login_role and _ensure_password.
EnsureRole ==
  LET writes == ~role.exists \/ MustSetPassword IN
  /\ Step("role", "read")
  /\ result' = [result EXCEPT !.written = writes]
  /\ role' = IF writes THEN [role EXCEPT !.exists = TRUE, !.password = result.password] ELSE role
  /\ UNCHANGED <<grants, secret, push>>

\* Mutant: a changed level is granted and the old one kept.
RevokeDatabases ==
  LET r == [result EXCEPT !.grant = Groups(body.access) \ Held,
                          !.revoke = {g \in Groups(body.grants) \cap Held :
                                        g[1] \notin Named(body.access)}] IN
  /\ Step("read", Stage(r)) /\ result' = r
  /\ UNCHANGED <<grants, role, secret, push>>

\* _apply_memberships: what is held is read once; only what status records as
\* granted may be revoked.
ReadMemberships ==
  LET r == [result EXCEPT !.grant = Groups(body.access) \ Held,
                          !.revoke = (Groups(body.grants) \ Groups(body.access)) \cap Held] IN
  /\ Step("read", Stage(r)) /\ result' = r
  /\ UNCHANGED <<grants, role, secret, push>>

\* A group role that does not exist is skipped with a warning; what is to be
\* revoked stays so.
GrantMembership ==
  /\ \E g \in result.grant :
       LET r == [result EXCEPT !.grant = @ \ {g}, !.skipped = @ \cup ({g} \ groups)] IN
       /\ role.exists \/ g \notin groups
       /\ Step("grant", Stage(r)) /\ result' = r
       /\ role' = IF g \in groups /\ role.member[g] = "none"
                  THEN [role EXCEPT !.member[g] = "operator"] ELSE role
  /\ UNCHANGED <<grants, secret, push>>

RevokeMembership ==
  /\ role.exists
  /\ \E g \in result.revoke :
       LET r == [result EXCEPT !.revoke = @ \ {g}] IN
       /\ g \in groups
       /\ Step("revoke", Stage(r)) /\ result' = r
       /\ role' = [role EXCEPT !.member[g] = "none"]
  /\ UNCHANGED <<grants, secret, push>>

\* _apply_default_roles: a database that does not exist is skipped; whether the
\* group role exists is not asked, by the code or by the server.
SetDefaultRole ==
  /\ \E d \in result.set :
       LET r == [result EXCEPT !.set = @ \ {d}] IN
       /\ role.exists \/ d \notin databases
       /\ Step("setDefault", Stage(r)) /\ result' = r
       /\ role' = [role EXCEPT !.default = @ \cup ({d} \cap databases)]
  /\ UNCHANGED <<grants, secret, push>>

\* A setting is cleared only where the catalog shows one, so a role or a
\* database that is gone is no obstacle.
ResetDefaultRole ==
  /\ \E d \in result.reset :
       LET r == [result EXCEPT !.reset = @ \ {d}] IN
       /\ Step("resetDefault", Stage(r)) /\ result' = r
       /\ role' = [role EXCEPT !.default = @ \ {d}]
  /\ UNCHANGED <<grants, secret, push>>

WriteCredentials ==
  /\ Step("secret", "push")
  /\ secret' = result.password
  /\ UNCHANGED <<grants, role, push, result>>

SyncPushSecret ==
  /\ Step("push", "publish")
  /\ push' = body.push
  /\ UNCHANGED <<grants, role, secret, result>>

\* build_status records every access entry, whoever granted the membership.
Publish ==
  /\ pc = "publish"
  /\ grants' = body.access
  /\ Idle("ok")
  /\ UNCHANGED <<spec, role, secret, push, databases, groups, lost, setRole, instance, body,
                 budget>>

\* No instance; or a statement names a role, or a group role, that is gone.
Refuse ==
  /\ \/ pc = "resolve" /\ ~instance.exists
     \/ pc = "grant" /\ ~role.exists /\ result.grant \cap groups # {}
     \/ pc = "revoke" /\ \E g \in result.revoke : ~role.exists \/ g \notin groups
     \/ pc = "setDefault" /\ ~role.exists /\ result.set \cap databases # {}
     \/ pc = "dropRole" /\ role.owns # {}
  /\ Idle("failed")
  /\ UNCHANGED <<spec, grants, role, secret, push, databases, groups, lost, setRole, instance,
                 body, budget>>

-----------------------------------------------------------------------------
\* The finalizer: teardown_user

\* Under RETAIN, or with the instance gone, there is nothing to do.
StartTeardown ==
  /\ pc = "idle" /\ spec.deleting /\ ~spec.released
  /\ IF spec.policy = "RETAIN" \/ ~instance.exists
     THEN spec' = [spec EXCEPT !.released = TRUE] /\ UNCHANGED pc
     ELSE pc' = "find" /\ UNCHANGED spec
  /\ body' = [body EXCEPT !.grants = grants] /\ outcome' = "none"
  /\ UNCHANGED <<grants, role, secret, push, databases, groups, lost, setRole, instance, result,
                 budget>>

\* A spec that does not parse, an instance that does not validate or no longer
\* permits the namespace, a server older than its minServerVersion: run_teardown takes
\* no retry to help against a ConfigurationError, and lets the deletion complete,
\* whatever the policy.  teardown_user looks twice before it connects; the second
\* time the instance may also be gone.
Abandon ==
  /\ (pc = "idle" /\ spec.deleting /\ ~spec.released) \/ pc = "find"
  /\ \/ /\ pc = "find" /\ ~instance.exists
        /\ UNCHANGED budget
     \/ /\ "misconfigured" \in Breaks /\ budget.breaks < MaxBreaks
        /\ budget' = [budget EXCEPT !.breaks = @ + 1]
  /\ spec' = [spec EXCEPT !.released = TRUE]
  /\ Idle("abandoned")
  /\ UNCHANGED <<grants, role, secret, push, databases, groups, lost, setRole, instance, body>>

\* Mutant: with the role gone, nothing is taken to be left.
FindRoleOrFinish ==
  /\ pc = "find"
  /\ IF role.exists THEN pc' = "revokeAll" /\ UNCHANGED spec
     ELSE pc' = "idle" /\ spec' = [spec EXCEPT !.released = TRUE]
  /\ UNCHANGED <<grants, role, secret, push, databases, groups, lost, setRole, instance, body,
                 result, outcome, budget>>

FindRole ==
  /\ Step("find", IF role.exists THEN "revokeAll" ELSE "deleteSecret")
  /\ UNCHANGED <<grants, role, secret, push, result>>

\* Every membership goes, whoever granted it: the role is about to.
RevokeAll ==
  LET recorded == Named(body.grants) IN
  /\ Step("revokeAll", IF recorded = {} THEN "dropRole" ELSE "clear")
  /\ role' = [role EXCEPT !.member = [g \in Group |-> "none"]]
  /\ result' = [result EXCEPT !.reset = recorded]
  /\ UNCHANGED <<grants, secret, push>>

\* Mutant: the default role goes, what the role owns stays.
ClearDefaultOnly ==
  \E d \in result.reset :
    LET r == [result EXCEPT !.reset = @ \ {d}] IN
    /\ Step("clear", IF r.reset = {} THEN "dropRole" ELSE "clear") /\ result' = r
    /\ role' = [role EXCEPT !.default = @ \ {d}]
    /\ UNCHANGED <<grants, secret, push>>

\* DROP OWNED and RESET role, in each database status records as granted.
ClearDatabase ==
  \E d \in result.reset :
    LET r == [result EXCEPT !.reset = @ \ {d}] IN
    /\ Step("clear", IF r.reset = {} THEN "dropRole" ELSE "clear") /\ result' = r
    /\ role' = [role EXCEPT !.default = @ \ {d}, !.owns = @ \ {d}]
    /\ UNCHANGED <<grants, secret, push>>

\* DROP ROLE IF EXISTS is refused while the role owns anything anywhere.
DropRole ==
  /\ role.owns = {}
  /\ Step("dropRole", "deleteSecret")
  /\ role' = NoRole
  /\ UNCHANGED <<grants, secret, push, result>>

DeleteSecret ==
  /\ Step("deleteSecret", "deletePush")
  /\ secret' = NoPassword
  /\ UNCHANGED <<grants, role, push, result>>

DeletePushSecret ==
  /\ pc = "deletePush"
  /\ push' = FALSE
  /\ spec' = [spec EXCEPT !.released = TRUE]
  /\ Idle("none")
  /\ UNCHANGED <<grants, role, secret, databases, groups, lost, setRole, instance, body, budget>>

-----------------------------------------------------------------------------
\* What is not the operator

Break ==
  /\ pc # "idle" /\ pc \in Breaks /\ budget.breaks < MaxBreaks
  /\ budget' = [budget EXCEPT !.breaks = @ + 1]
  /\ Idle("failed")
  /\ UNCHANGED <<spec, grants, role, secret, push, databases, groups, lost, setRole, instance,
                 body>>

\* _clear_user_in_database only logs a failure of DROP OWNED.
ClearFails ==
  /\ "clear" \in Breaks /\ budget.breaks < MaxBreaks
  /\ budget' = [budget EXCEPT !.breaks = @ + 1]
  /\ pc = "clear"
  /\ \E d \in result.reset :
       LET r == [result EXCEPT !.reset = @ \ {d}] IN
       /\ result' = r
       /\ pc' = IF r.reset = {} THEN "dropRole" ELSE "clear"
       /\ role' = [role EXCEPT !.default = @ \ {d}]
  /\ UNCHANGED <<spec, grants, secret, push, databases, groups, lost, setRole, instance, body,
                 outcome>>

\* A patient user waits for the last edit to converge before the next.
Edit ==
  /\ ~spec.deleting /\ budget.edits < MaxEdits
  /\ \/ Hasty
     \/ /\ pc = "idle" /\ outcome = "ok"
        /\ body.access = spec.access /\ body.provided = spec.provided
  /\ budget' = [budget EXCEPT !.edits = @ + 1]
  /\ \/ \E d \in Database, l \in Level \cup {"none"} :
          l # spec.access[d] /\ spec' = [spec EXCEPT !.access[d] = l]
     \/ spec' = [spec EXCEPT !.provided = ~@]
     \/ spec' = [spec EXCEPT !.push = ~@]
  /\ UNCHANGED <<grants, role, secret, push, databases, groups, lost, setRole, instance, pc,
                 body, result, outcome>>

Delete ==
  /\ ~spec.deleting
  /\ spec' = [spec EXCEPT !.deleting = TRUE]
  /\ UNCHANGED <<grants, role, secret, push, databases, groups, lost, setRole, instance, pc,
                 body, result, outcome, budget>>

\* A DBA grants a membership, changes the password, or drops the role; the user
\* creates a table that its default role does not give to the group; the Secret
\* is deleted.
MeddleWithUser ==
  /\ UNCHANGED <<databases, groups, lost, setRole, instance>>
  /\ \/ /\ "grant" \in Meddling /\ role.exists /\ UNCHANGED secret
        /\ \E g \in Group \ Held :
             g \in groups /\ role' = [role EXCEPT !.member[g] = "admin"]
     \/ /\ "password" \in Meddling /\ role.exists /\ instance.readable /\ UNCHANGED secret
        /\ \E p \in FreshPasswords : role' = [role EXCEPT !.password = p]
     \/ /\ "role" \in Meddling /\ role.exists /\ role' = NoRole /\ UNCHANGED secret
     \/ /\ "objects" \in Meddling /\ UNCHANGED secret
        /\ \E d \in databases \ role.default :
             role.member[<<d, "OWNER">>] # "none" /\ role' = [role EXCEPT !.owns = @ \cup {d}]
     \/ "secret" \in Meddling /\ secret # NoPassword /\ secret' = NoPassword /\ UNCHANGED role

\* A group role goes - dropped, or renamed by hand or by the PostgresDB's spec -
\* and with it the membership; the operator knows a group role by its name.
LoseGroup(g) ==
  /\ groups' = groups \ {g} /\ lost' = lost \cup {g}
  /\ role' = [role EXCEPT !.member[g] = "none"]

\* DROP DATABASE takes the settings and the tables in it; its group roles stay.
LoseDatabase(d) ==
  /\ databases' = databases \ {d}
  /\ role' = [role EXCEPT !.default = @ \ {d}, !.owns = @ \ {d}]
  /\ UNCHANGED <<groups, lost>>

\* A pass of its PostgresDB makes what is missing of a database.
Remake(d) ==
  /\ databases' = databases \cup {d} /\ groups' = groups \cup ({d} \X Level)
  /\ UNCHANGED <<lost, role>>

\* A database or a group role goes behind its PostgresDB's back, or is made by
\* its pass; setRoleForOwners is flipped; the PostgresInstance goes.
MeddleAround ==
  /\ UNCHANGED secret
  /\ \/ /\ "database" \in Meddling /\ UNCHANGED <<setRole, instance>>
        /\ \E d \in databases : LoseDatabase(d)
     \/ /\ "group" \in Meddling /\ UNCHANGED <<databases, setRole, instance>>
        /\ \E g \in groups : LoseGroup(g)
     \/ /\ "remake" \in Meddling /\ UNCHANGED <<setRole, instance>>
        /\ \E d \in Database :
             (d \notin databases \/ ~({d} \X Level \subseteq groups)) /\ Remake(d)
     \/ /\ "setRole" \in Meddling /\ UNCHANGED <<role, databases, groups, lost, instance>>
        /\ \E d \in Database :
             setRole' = IF d \in setRole THEN setRole \ {d} ELSE setRole \cup {d}
     \/ /\ "instance" \in Meddling /\ instance.exists
        /\ instance' = [instance EXCEPT !.exists = FALSE]
        /\ UNCHANGED <<role, databases, groups, lost, setRole>>

Meddle ==
  /\ budget.meddling < MaxMeddling
  /\ budget' = [budget EXCEPT !.meddling = @ + 1]
  /\ MeddleWithUser \/ MeddleAround
  /\ UNCHANGED <<spec, grants, push, pc, body, result, outcome>>

Gone == spec.released /\ pc = "idle" /\ UNCHANGED vars

-----------------------------------------------------------------------------
Init ==
  /\ spec \in [access : Access, provided : {FALSE}, push : {FALSE},
                policy : {"RETAIN", "DROP"}, deleting : {FALSE}, released : {FALSE}]
  /\ grants = NoAccess /\ role = NoRole
  /\ secret = NoPassword /\ push = FALSE
  /\ databases \in SUBSET Database /\ groups = databases \X Level /\ lost = {}
  /\ setRole = Database
  /\ instance \in [exists : {TRUE}, readable : BOOLEAN]
  /\ pc = "idle" /\ outcome = "none" /\ result = NoResult
  /\ body = [access |-> spec.access, provided |-> FALSE, push |-> FALSE, grants |-> NoAccess]
  /\ budget = [breaks |-> 0, edits |-> 0, meddling |-> 0]

Pass ==
  \/ Resolve \/ EnsureRole \/ ReadMemberships \/ GrantMembership \/ RevokeMembership
  \/ SetDefaultRole \/ ResetDefaultRole \/ WriteCredentials \/ SyncPushSecret \/ Publish
  \/ Refuse

Teardown ==
  FindRole \/ RevokeAll \/ ClearDatabase \/ DropRole \/ DeleteSecret \/ DeletePushSecret

Operator == StartPass \/ StartTeardown \/ Pass \/ Teardown

Next == Operator \/ Abandon \/ Break \/ ClearFails \/ Edit \/ Delete \/ Meddle \/ Gone

\* The timer calls the operator again, and kopf retries a failed finalizer.
Fairness == WF_vars(Operator)

Spec == Init /\ [][Next]_vars /\ Fairness

-----------------------------------------------------------------------------
(***************************************************************************)
(* Properties                                                              *)
(***************************************************************************)

\* After a successful pass the user holds no membership of the operator's that
\* this pass's spec does not ask for: access taken away or lowered is gone,
\* whatever failed or was recreated in between (_apply_memberships).
NoLingeringAccess ==
  pc = "idle" /\ outcome = "ok" =>
    \A g \in Group : role.member[g] = "operator" => g \in Groups(body.access)

\* A pass takes the last access to a database away only if the spec asks for
\* none, or the group role of the level it asks for is missing: the pass found it
\* so and warned of it, or it went while the pass ran.  (_apply_memberships grants
\* the new group before it revokes the old, but does not keep the old one back
\* where the new one is skipped.)
NoGapInAccess ==
  [][\A d \in Database :
       /\ pc \in PassStep /\ role'.exists
       /\ \E l \in Level : <<d, l>> \in groups' /\ role.member[<<d, l>>] # "none"
       /\ \A l \in Level : role'.member[<<d, l>>] = "none"
       => \/ body.access[d] = "none"
          \/ <<d, body.access[d]>> \in result.skipped \cup lost]_vars

\* If EnsureRole writes the password of a role it found, then the one in the
\* Secret would not have let its reader in, or the user brings another - or
\* brings the same one to a server that does not show what the role has.
WriteJustified ==
  pc = "role" /\ pc' = "read" /\ role.exists /\ result'.written =>
    IF body.provided THEN role.password # ProvidedPassword \/ ~instance.readable
    ELSE secret # role.password

\* A pass over a role writes a password only to mend a credential that does not
\* work, with one exception that the docstring of _ensure_password denies: a
\* password the user brings is written again by every pass where pg_authid
\* cannot be read.
NoNeedlessReset == [][WriteJustified]_vars

\* Under DROP, and with the server still there, the finalizer leaves no role,
\* no Secret and no PushSecret, whichever of them was already gone - unless it
\* was released over a configuration error, which leaves all of them.
DroppedClean ==
  spec.released /\ spec.policy = "DROP" /\ instance.exists /\ outcome # "abandoned"
    => ~role.exists /\ secret = NoPassword /\ ~push

\* A membership a DBA granted is not revoked by a pass.
GrantsOfOthersKept ==
  [][\A g \in Group :
       pc \in PassStep /\ role.member[g] = "admin" /\ g \in groups' /\ role'.exists
         => role'.member[g] = "admin"]_vars

\* The role is as the spec asks, and the Secret lets its reader in.
Settled(access, provided) ==
  /\ role.exists /\ secret = role.password /\ (provided => secret = ProvidedPassword)
  /\ \A g \in Groups(access) \cap groups : role.member[g] # "none"
  /\ \A g \in Group : role.member[g] = "operator" => g \in Groups(access)
  /\ role.default \cap databases = DefaultsFor(access) \cap databases

\* What the spec asks for last becomes true and stays true: drift is repaired,
\* a lost Secret or role made again, a late database picked up.
Settles ==
  \A a \in Access, p \in BOOLEAN :
    <>[](spec.access = a /\ spec.provided = p /\ ~spec.deleting /\ instance.exists)
      => <>[]Settled(a, p)

\* A deletion ends, if the role owns nothing outside the databases it was last
\* given access to.
DeletionEnds ==
  [](spec.deleting => role.owns \subseteq Named(grants)) => (spec.deleting ~> spec.released)
=============================================================================
