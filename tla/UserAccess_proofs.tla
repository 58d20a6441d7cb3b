-------------------------- MODULE UserAccess_proofs --------------------------
(***************************************************************************)
(* Proofs about UserAccess, for every value of its constants.              *)
(*                                                                         *)
(*   1  records keep their types under the updates the actions make        *)
(*   2  TypeOK is an invariant                                             *)
(*   3  NoLingeringAccess, where edits wait for the last one to converge   *)
(*   4  DroppedClean                                                       *)
(*   5  NoNeedlessReset                                                    *)
(*   6  NoGapInAccess                                                      *)
(***************************************************************************)
EXTENDS UserAccess, TLAPS

-----------------------------------------------------------------------------
(***************************************************************************)
(* 1  The sets TypeOK is made of, and the updates that stay inside them    *)
(***************************************************************************)

SpecType == [access : Access, provided : BOOLEAN, push : BOOLEAN,
             policy : {"RETAIN", "DROP"}, deleting : BOOLEAN, released : BOOLEAN]

RoleType == [exists : BOOLEAN, password : Password \cup {NoPassword, ProvidedPassword},
             member : [Group -> {"none", "operator", "admin"}],
             default : SUBSET Database, owns : SUBSET Database]

BudgetType == [breaks : Nat, edits : Nat, meddling : Nat]

LEMMA SetSpec ==
  ASSUME NEW s \in SpecType, NEW b \in BOOLEAN
  PROVE  /\ [s EXCEPT !.released = b] \in SpecType
         /\ [s EXCEPT !.deleting = b] \in SpecType
         /\ [s EXCEPT !.provided = b] \in SpecType
         /\ [s EXCEPT !.push = b] \in SpecType
  BY DEF SpecType

LEMMA SetAccess ==
  ASSUME NEW s \in SpecType, NEW d \in Database, NEW l \in Level \cup {"none"}
  PROVE  [s EXCEPT !.access[d] = l] \in SpecType
  BY DEF SpecType, Access

LEMMA SetMember ==
  ASSUME NEW r \in RoleType, NEW g \in Group, NEW by \in {"none", "operator", "admin"}
  PROVE  [r EXCEPT !.member[g] = by] \in RoleType
  BY DEF RoleType

LEMMA SetMembers ==
  ASSUME NEW r \in RoleType, NEW m \in [Group -> {"none", "operator", "admin"}]
  PROVE  [r EXCEPT !.member = m] \in RoleType
  BY DEF RoleType

LEMMA SetDefault ==
  ASSUME NEW r \in RoleType, NEW D \in SUBSET Database
  PROVE  [r EXCEPT !.default = D] \in RoleType
  BY DEF RoleType

LEMMA SetOwns ==
  ASSUME NEW r \in RoleType, NEW D \in SUBSET Database
  PROVE  [r EXCEPT !.owns = D] \in RoleType
  BY DEF RoleType

\* What an edit may do to the manifest.
LEMMA EditedSpec ==
  ASSUME Edit
  PROVE  \/ \E d \in Database, l \in Level \cup {"none"} : spec' = [spec EXCEPT !.access[d] = l]
         \/ spec' = [spec EXCEPT !.provided = ~spec.provided]
         \/ spec' = [spec EXCEPT !.push = ~spec.push]
  BY DEF Edit

\* What a hand may have done to the role itself.
LEMMA MeddledRole ==
  ASSUME TypeOK, MeddleWithUser
  PROVE  \/ role' = role \/ role' = NoRole
         \/ \E g \in Group : role' = [role EXCEPT !.member[g] = "admin"]
         \/ \E p \in Password : role' = [role EXCEPT !.password = p]
         \/ \E D \in SUBSET Database : role' = [role EXCEPT !.owns = D]
<1>1. CASE \E g \in Group \ Held : role' = [role EXCEPT !.member[g] = "admin"]
  BY <1>1
<1>2. CASE \E p \in FreshPasswords : role' = [role EXCEPT !.password = p]
  BY <1>2 DEF FreshPasswords
<1>3. ASSUME NEW d \in databases, role' = [role EXCEPT !.owns = @ \cup {d}]
      PROVE  \E D \in SUBSET Database : role' = [role EXCEPT !.owns = D]
  <2>1. role.owns \cup {d} \in SUBSET Database
    BY DEF TypeOK
  <2> QED
    BY <1>3, <2>1
<1> QED
  BY <1>1, <1>2, <1>3 DEF MeddleWithUser

LEMMA SetPassword ==
  ASSUME NEW r \in RoleType, NEW p \in Password \cup {NoPassword, ProvidedPassword}
  PROVE  /\ [r EXCEPT !.password = p] \in RoleType
         /\ [r EXCEPT !.exists = TRUE, !.password = p] \in RoleType
  BY DEF RoleType

LEMMA ForgetDatabase ==
  ASSUME NEW r \in RoleType, NEW d \in Database
  PROVE  [r EXCEPT !.default = @ \ {d}, !.owns = @ \ {d}] \in RoleType
  BY DEF RoleType

LEMMA SetWork ==
  ASSUME NEW r \in Result, NEW G \in SUBSET Group, NEW D \in SUBSET Database
  PROVE  /\ [r EXCEPT !.grant = G] \in Result
         /\ [r EXCEPT !.revoke = G] \in Result
         /\ [r EXCEPT !.set = D] \in Result
         /\ [r EXCEPT !.reset = D] \in Result
  BY DEF Result

LEMMA SetSkipped ==
  ASSUME NEW r \in Result, NEW G \in SUBSET Group, NEW H \in SUBSET Group
  PROVE  [r EXCEPT !.grant = G, !.skipped = H] \in Result
  BY DEF Result

LEMMA SetWritten ==
  ASSUME NEW r \in Result, NEW b \in BOOLEAN
  PROVE  [r EXCEPT !.written = b] \in Result
  BY DEF Result

\* What may happen around the operator to the role, the databases and the groups.
LEMMA MeddledAround ==
  ASSUME MeddleAround
  PROVE  \/ UNCHANGED <<role, databases, groups, lost>>
         \/ \E d \in databases : LoseDatabase(d)
         \/ (\E g \in groups : LoseGroup(g)) /\ UNCHANGED databases
         \/ \E d \in Database : Remake(d)
  BY ZenonT(60) DEF MeddleAround

\* A write happens where the role is new or its password must be set.
LEMMA EnsuredResult ==
  ASSUME EnsureRole
  PROVE  \E b \in BOOLEAN : result' = [result EXCEPT !.written = b]
<1>1. (~role.exists \/ MustSetPassword) \in BOOLEAN
  OBVIOUS
<1> QED
  BY <1>1, Zenon DEF EnsureRole

LEMMA SetMemberships ==
  ASSUME NEW r \in Result, NEW G \in SUBSET Group, NEW H \in SUBSET Group
  PROVE  [r EXCEPT !.grant = G, !.revoke = H] \in Result
  BY DEF Result

LEMMA NothingTyped ==
  /\ NoAccess \in Access /\ NoRole \in RoleType /\ NoResult \in Result
  BY DEF NoAccess, Access, NoRole, RoleType, NoResult, Result

\* Whatever the source of a password, it is one.
LEMMA ResolvedTyped ==
  ASSUME NEW known \in Resolved, secret \in Password \cup {NoPassword, ProvidedPassword}
  PROVE  /\ known.password \in Password \cup {ProvidedPassword}
         /\ known.origin \in {"byo", "existing", "generated"}
  BY DEF Resolved, FreshPasswords

LEMMA StageIsStep ==
  ASSUME NEW r
  PROVE  Stage(r) \in {"grant", "revoke", "setDefault", "resetDefault", "secret"}
  BY DEF Stage

-----------------------------------------------------------------------------
(***************************************************************************)
(* 2  Type correctness                                                     *)
(***************************************************************************)

\* What the handler does to the role and to its own result.
LEMMA RoleTypedByPass ==
  ASSUME TypeOK, Pass
  PROVE  role' \in RoleType /\ result' \in Result
<1> USE DEF TypeOK, RoleType
<1>0. role \in RoleType /\ result \in Result
  OBVIOUS
<1>1. CASE Resolve
  <2>1. PICK known \in Resolved :
          result' = [NoResult EXCEPT !.password = known.password, !.origin = known.origin,
                       !.set = DefaultsFor(body.access),
                       !.reset = Owned(body.grants) \ DefaultsFor(body.access)]
    BY <1>1 DEF Resolve
  <2>2. DefaultsFor(body.access) \in SUBSET Database /\ Owned(body.grants) \in SUBSET Database
    BY DEF DefaultsFor, Owned
  <2> QED
    BY <1>1, <2>1, <2>2, ResolvedTyped DEF Resolve, NoResult, Result
<1>2. CASE EnsureRole
  <2>1. result' \in Result
    BY <1>0, <1>2, EnsuredResult, SetWritten
  <2>2. \/ role' = role
        \/ role' = [role EXCEPT !.exists = TRUE, !.password = result.password]
    BY <1>2 DEF EnsureRole
  <2>3. result.password \in Password \cup {NoPassword, ProvidedPassword}
    BY DEF Result
  <2>4. [role EXCEPT !.exists = TRUE, !.password = result.password] \in RoleType
    BY <1>0, <2>3, SetPassword
  <2> QED
    BY <1>0, <2>1, <2>2, <2>4
<1>3. CASE ReadMemberships
  <2>1. Groups(body.access) \in SUBSET Group /\ Groups(body.grants) \in SUBSET Group
    BY DEF Groups
  <2> QED
    BY <1>0, <1>3, <2>1, SetMemberships DEF ReadMemberships
<1>4. CASE GrantMembership
  <2>1. PICK g \in result.grant :
          /\ result' = [result EXCEPT !.grant = @ \ {g}, !.skipped = @ \cup ({g} \ groups)]
          /\ role' \in {role, [role EXCEPT !.member[g] = "operator"]}
    BY <1>4 DEF GrantMembership
  <2>2. /\ g \in Group /\ result.grant \ {g} \in SUBSET Group
        /\ result.skipped \cup ({g} \ groups) \in SUBSET Group
    BY <2>1 DEF Result
  <2>3. result' \in Result
    BY <1>0, <2>1, <2>2, SetSkipped
  <2> QED
    BY <1>0, <2>1, <2>2, <2>3, SetMember, ZenonT(60)
<1>5. CASE RevokeMembership
  <2>1. PICK g \in result.revoke :
          /\ result' = [result EXCEPT !.revoke = @ \ {g}]
          /\ role' = [role EXCEPT !.member[g] = "none"]
    BY <1>5 DEF RevokeMembership
  <2>2. g \in Group /\ result.revoke \ {g} \in SUBSET Group
    BY DEF Result
  <2> QED
    BY <1>0, <2>1, <2>2, SetMember, SetWork
<1>6. CASE SetDefaultRole
  <2>1. PICK d \in result.set :
          /\ result' = [result EXCEPT !.set = @ \ {d}]
          /\ role' = [role EXCEPT !.default = @ \cup ({d} \cap databases)]
    BY <1>6 DEF SetDefaultRole
  <2>2. /\ result.set \ {d} \in SUBSET Database
        /\ role.default \cup ({d} \cap databases) \in SUBSET Database
    BY DEF Result
  <2> QED
    BY <1>0, <2>1, <2>2, SetDefault, SetWork
<1>7. CASE ResetDefaultRole
  <2>1. PICK d \in result.reset :
          /\ result' = [result EXCEPT !.reset = @ \ {d}]
          /\ role' = [role EXCEPT !.default = @ \ {d}]
    BY <1>7 DEF ResetDefaultRole
  <2>2. result.reset \ {d} \in SUBSET Database /\ role.default \ {d} \in SUBSET Database
    BY DEF Result
  <2> QED
    BY <1>0, <2>1, <2>2, SetDefault, SetWork
<1>8. CASE WriteCredentials \/ SyncPushSecret
  BY <1>0, <1>8 DEF WriteCredentials, SyncPushSecret
<1>9. CASE Publish \/ Refuse
  BY <1>0, <1>9, NothingTyped DEF Publish, Refuse, Idle
<1> QED
  BY <1>1, <1>2, <1>3, <1>4, <1>5, <1>6, <1>7, <1>8, <1>9 DEF Pass

\* The rest of what a pass changes.
LEMMA PassTyped ==
  ASSUME TypeOK, Pass
  PROVE  TypeOK'
<1> USE DEF TypeOK
<1>0. role' \in RoleType /\ result' \in Result
  BY RoleTypedByPass
<1>1. CASE Publish \/ Refuse
  BY <1>0, <1>1 DEF Publish, Refuse, Idle, RoleType, Body
<1>2. CASE WriteCredentials \/ SyncPushSecret
  BY <1>0, <1>2 DEF WriteCredentials, SyncPushSecret, Step, RoleType, PassStep, Body, Result
<1>3. CASE Resolve \/ EnsureRole
  BY <1>0, <1>3, ZenonT(60) DEF Resolve, EnsureRole, Step, RoleType, PassStep
<1>4. CASE ReadMemberships \/ GrantMembership \/ RevokeMembership \/ SetDefaultRole
           \/ ResetDefaultRole
  <2>1. /\ \E from, r : Step(from, Stage(r))
        /\ UNCHANGED <<grants, secret, push>>
    BY <1>4 DEF ReadMemberships, GrantMembership, RevokeMembership, SetDefaultRole,
                ResetDefaultRole
  <2>2. pc' \in PassStep /\ UNCHANGED <<spec, databases, groups, lost, setRole, instance, body,
                                         outcome, budget>>
    BY <2>1, StageIsStep DEF Step, PassStep
  <2> QED
    BY <1>0, <2>1, <2>2 DEF RoleType
<1> QED
  BY <1>1, <1>2, <1>3, <1>4 DEF Pass

LEMMA TeardownTyped ==
  ASSUME TypeOK, Teardown
  PROVE  TypeOK'
<1> USE DEF TypeOK
<1>0. role \in RoleType /\ result \in Result /\ spec \in SpecType
  BY DEF RoleType, SpecType
<1>1. CASE FindRole
  BY <1>1 DEF FindRole, Step, TeardownStep
<1>2. CASE RevokeAll
  <2>1. role' \in RoleType
    BY <1>0, <1>2, SetMembers DEF RevokeAll
  <2>2. result' \in Result
    BY <1>0, <1>2, SetWork DEF RevokeAll, Named
  <2> QED
    BY <1>2, <2>1, <2>2 DEF RevokeAll, Step, TeardownStep, RoleType
<1>3. CASE ClearDatabase
  <2>1. PICK d \in result.reset :
          /\ result' = [result EXCEPT !.reset = @ \ {d}]
          /\ role' = [role EXCEPT !.default = @ \ {d}, !.owns = @ \ {d}]
          /\ pc' \in {"clear", "dropRole"}
    BY <1>3 DEF ClearDatabase, Step
  <2>2. result' \in Result /\ role' \in RoleType
    BY <1>0, <2>1 DEF Result, RoleType
  <2> QED
    BY <1>3, <2>1, <2>2 DEF ClearDatabase, Step, TeardownStep, RoleType
<1>4. CASE DropRole
  BY <1>4, NothingTyped DEF DropRole, Step, TeardownStep, RoleType
<1>5. CASE DeleteSecret
  BY <1>5 DEF DeleteSecret, Step, TeardownStep
<1>6. CASE DeletePushSecret
  BY <1>0, <1>6, NothingTyped, SetSpec, ZenonT(60) DEF DeletePushSecret, Idle, SpecType, Body
<1> QED
  BY <1>1, <1>2, <1>3, <1>4, <1>5, <1>6 DEF Teardown

LEMMA StartTyped ==
  ASSUME TypeOK, StartPass \/ StartTeardown
  PROVE  TypeOK'
<1> USE DEF TypeOK
<1>0. spec \in SpecType
  BY DEF SpecType
<1>1. CASE StartPass
  BY <1>1 DEF StartPass, PassStep, Body
<1>2. CASE StartTeardown
  <2>1. spec' \in SpecType
    BY <1>0, <1>2, SetSpec DEF StartTeardown
  <2>2. body' \in Body
    BY <1>2 DEF StartTeardown, Body
  <2> QED
    BY <1>2, <2>1, <2>2 DEF StartTeardown, TeardownStep, SpecType
<1> QED
  BY <1>1, <1>2

LEMMA OthersTyped ==
  ASSUME TypeOK, Abandon \/ Break \/ ClearFails \/ Edit \/ Delete \/ Meddle
  PROVE  TypeOK'
<1> USE DEF TypeOK
<1>0. role \in RoleType /\ spec \in SpecType /\ budget \in BudgetType
  BY DEF RoleType, SpecType, BudgetType
<1>1. CASE Break
  BY <1>1, NothingTyped DEF Break, Idle, Body
<1>2. CASE ClearFails
  <2>1. PICK d \in result.reset :
          /\ result' = [result EXCEPT !.reset = @ \ {d}]
          /\ role' = [role EXCEPT !.default = @ \ {d}]
          /\ pc' \in {"clear", "dropRole"}
    BY <1>2 DEF ClearFails
  <2>2. result' \in Result /\ role' \in RoleType
    BY <1>0, <2>1 DEF Result, RoleType
  <2> QED
    BY <1>2, <2>1, <2>2 DEF ClearFails, TeardownStep, RoleType
<1>3. CASE Edit
  <2>1. spec' \in SpecType
    <3>1. spec.provided \in BOOLEAN /\ spec.push \in BOOLEAN
      OBVIOUS
    <3>2. \/ \E d \in Database, l \in Level \cup {"none"} : spec' = [spec EXCEPT !.access[d] = l]
          \/ spec' = [spec EXCEPT !.provided = ~spec.provided]
          \/ spec' = [spec EXCEPT !.push = ~spec.push]
      BY <1>3, EditedSpec
    <3>3. CASE \E d \in Database, l \in Level \cup {"none"} :
                 spec' = [spec EXCEPT !.access[d] = l]
      BY <1>0, <3>3, SetAccess
    <3>4. CASE spec' = [spec EXCEPT !.provided = ~spec.provided]
      BY <1>0, <3>4, SetSpec
    <3>5. CASE spec' = [spec EXCEPT !.push = ~spec.push]
      BY <1>0, <3>5, SetSpec
    <3> QED
      BY <3>2, <3>3, <3>4, <3>5
  <2>2. budget' \in BudgetType
    BY <1>0, <1>3 DEF Edit, BudgetType
  <2> QED
    BY <1>3, <2>1, <2>2 DEF Edit, SpecType, BudgetType
<1>4. CASE Delete
  BY <1>0, <1>4, SetSpec, ZenonT(60) DEF Delete, SpecType
<1>5. CASE Meddle
  <2>1. budget' \in BudgetType
    BY <1>0, <1>5 DEF Meddle, BudgetType
  <2>2. CASE MeddleWithUser
    <3>1. role' \in RoleType
      <4>1. \/ role' = role \/ role' = NoRole
            \/ \E g \in Group : role' = [role EXCEPT !.member[g] = "admin"]
            \/ \E p \in Password : role' = [role EXCEPT !.password = p]
            \/ \E D \in SUBSET Database : role' = [role EXCEPT !.owns = D]
        BY <2>2, MeddledRole
      <4>2. CASE \E g \in Group : role' = [role EXCEPT !.member[g] = "admin"]
        <5>1. PICK g \in Group : role' = [role EXCEPT !.member[g] = "admin"]
          BY <4>2
        <5> QED
          BY <1>0, <5>1, SetMember
      <4>3. CASE \E p \in Password : role' = [role EXCEPT !.password = p]
        <5>1. PICK p \in Password : role' = [role EXCEPT !.password = p]
          BY <4>3
        <5> QED
          BY <1>0, <5>1, SetPassword
      <4>4. CASE \E D \in SUBSET Database : role' = [role EXCEPT !.owns = D]
        BY <1>0, <4>4, SetOwns
      <4> QED
        BY <1>0, <4>1, <4>2, <4>3, <4>4, NothingTyped
    <3> QED
      BY <1>5, <2>1, <2>2, <3>1 DEF Meddle, MeddleWithUser, RoleType, BudgetType
  <2>3. CASE MeddleAround
    <3>1. /\ role' \in RoleType /\ databases' \subseteq Database
          /\ groups' \subseteq Group /\ lost' \subseteq Group
      <4>1. CASE UNCHANGED <<role, databases, groups, lost>>
        BY <1>0, <4>1
      <4>2. ASSUME NEW d \in databases, LoseDatabase(d)
            PROVE  /\ role' \in RoleType /\ databases' \subseteq Database
                   /\ groups' \subseteq Group /\ lost' \subseteq Group
        BY <1>0, <4>2, ForgetDatabase DEF LoseDatabase
      <4>3. ASSUME NEW g \in groups, LoseGroup(g), UNCHANGED databases
            PROVE  /\ role' \in RoleType /\ databases' \subseteq Database
                   /\ groups' \subseteq Group /\ lost' \subseteq Group
        BY <1>0, <4>3, SetMember DEF LoseGroup
      <4>4. ASSUME NEW d \in Database, Remake(d)
            PROVE  /\ role' \in RoleType /\ databases' \subseteq Database
                   /\ groups' \subseteq Group /\ lost' \subseteq Group
        BY <1>0, <4>4 DEF Remake, Group
      <4> QED
        BY <2>3, <4>1, <4>2, <4>3, <4>4, MeddledAround
    <3>2. setRole' \subseteq Database /\ instance' \in [exists : BOOLEAN, readable : BOOLEAN]
      BY <2>3, ZenonT(60) DEF MeddleAround
    <3> QED
      BY <1>5, <2>1, <2>3, <3>1, <3>2, ZenonT(60) DEF Meddle, MeddleAround, RoleType, BudgetType
  <2> QED
    BY <1>5, <2>2, <2>3 DEF Meddle
<1>6. CASE Abandon
  <2>1. spec' \in SpecType
    BY <1>0, <1>6, SetSpec DEF Abandon
  <2>2. budget' \in BudgetType
    BY <1>0, <1>6 DEF Abandon, BudgetType
  <2> QED
    BY <1>6, <2>1, <2>2, NothingTyped DEF Abandon, Idle, SpecType, BudgetType, Body
<1> QED
  BY <1>1, <1>2, <1>3, <1>4, <1>5, <1>6

LEMMA TypeStep == TypeOK /\ [Next]_vars => TypeOK'
<1> SUFFICES ASSUME TypeOK, [Next]_vars PROVE TypeOK'
  OBVIOUS
<1>1. CASE Operator
  BY <1>1, StartTyped, PassTyped, TeardownTyped DEF Operator
<1>2. CASE Abandon \/ Break \/ ClearFails \/ Edit \/ Delete \/ Meddle
  BY <1>2, OthersTyped
<1>3. CASE Gone \/ UNCHANGED vars
  BY <1>3 DEF Gone, vars, TypeOK
<1> QED
  BY <1>1, <1>2, <1>3 DEF Next

LEMMA TypeInit == Init => TypeOK
<1> SUFFICES ASSUME Init PROVE TypeOK
  OBVIOUS
<1>1. spec \in SpecType /\ body \in Body
  BY NothingTyped DEF Init, SpecType, Body, Access
<1> QED
  BY <1>1, NothingTyped DEF Init, TypeOK, SpecType, RoleType, PassStep, TeardownStep, Group

\* Every variable keeps its type: the handlers of a PostgresUser never leave
\* the role, its memberships or status in a shape the code does not have.
THEOREM UserTypeCorrect == Spec => []TypeOK
  BY TypeInit, TypeStep, PTL DEF Spec

-----------------------------------------------------------------------------
(***************************************************************************)
(* 3  No lingering access.  The property speaks of the end of a pass; what *)
(* carries it is that every membership the operator ever granted is named  *)
(* by status or by the spec, so that the pass that reads both sees it.     *)
(***************************************************************************)

Wanted == {"grant", "revoke", "setDefault", "resetDefault", "secret", "push", "publish"}

\* The memberships that are the operator's.
Granted == {g \in Group : role.member[g] = "operator"}

BodyCurrent == pc \in PassStep => body.access = spec.access /\ body.grants = grants
Traceable == Granted \subseteq Groups(grants) \cup Groups(spec.access)
ToRevoke == pc \in Wanted => /\ result.grant \subseteq Groups(body.access)
                             /\ Granted \subseteq Groups(body.access) \cup result.revoke
Revoked == pc \in Wanted \ {"grant", "revoke"} => result.revoke = {}
Converged ==
  pc = "idle" /\ outcome = "ok" => grants = body.access /\ Granted \subseteq Groups(body.access)

AccessInv == TypeOK /\ BodyCurrent /\ Traceable /\ ToRevoke /\ Revoked /\ Converged

\* Once nothing is left to grant, and nothing to revoke, the pass has moved on.
LEMMA StageAfterRevoke ==
  ASSUME NEW r, Stage(r) \notin {"grant", "revoke"}
  PROVE  r.revoke = {}
  BY DEF Stage

LEMMA StageWanted ==
  ASSUME NEW r
  PROVE  Stage(r) \in Wanted
  BY DEF Stage, Wanted

LEMMA AccessInit == Init => AccessInv
<1> SUFFICES ASSUME Init PROVE AccessInv
  OBVIOUS
<1>1. Granted = {}
  BY DEF Init, NoRole, Granted
<1> QED
  BY <1>1, TypeInit DEF Init, AccessInv, BodyCurrent, Traceable, ToRevoke, Revoked, Converged,
                        PassStep, Wanted

\* A pass adds to the memberships what it is asked to, and takes away the rest.
LEMMA AccessPass ==
  ASSUME AccessInv, Pass
  PROVE  (BodyCurrent /\ Traceable /\ ToRevoke /\ Revoked /\ Converged)'
<1> USE DEF AccessInv, BodyCurrent, Traceable, ToRevoke, Revoked, Converged
<1>1. CASE Resolve \/ EnsureRole
  <2>1. Granted' = Granted
    <3>1. role'.member = role.member
      BY <1>1 DEF Resolve, EnsureRole, TypeOK
    <3> QED
      BY <3>1 DEF Granted
  <2> QED
    BY <1>1, <2>1 DEF Resolve, EnsureRole, Step, PassStep, Wanted, Groups
<1>2. CASE ReadMemberships
  <2>1. /\ result'.grant = Groups(body.access) \ Held
        /\ result'.revoke = (Groups(body.grants) \ Groups(body.access)) \cap Held
        /\ pc' = Stage(result') /\ pc = "read" /\ role' = role
    BY <1>2 DEF ReadMemberships, Step, TypeOK, Result
  <2>2. Granted \subseteq Held /\ Granted' = Granted
    BY <2>1 DEF Granted, Held
  <2>3. Granted \subseteq Groups(body.grants) \cup Groups(body.access)
    BY <2>1 DEF PassStep
  <2>4. UNCHANGED <<spec, grants, body>> /\ pc' \in Wanted
    BY <1>2, <2>1, StageWanted DEF ReadMemberships, Step
  <2>5. pc' \notin {"grant", "revoke"} => result'.revoke = {}
    BY <2>1, StageAfterRevoke
  <2> QED
    BY <2>1, <2>2, <2>3, <2>4, <2>5 DEF PassStep, Wanted, Groups
<1>3. CASE GrantMembership
  <2>1. PICK g \in result.grant :
          /\ result' = [result EXCEPT !.grant = @ \ {g}, !.skipped = @ \cup ({g} \ groups)]
          /\ role' \in {role, [role EXCEPT !.member[g] = "operator"]}
          /\ pc = "grant" /\ pc' = Stage(result')
          /\ UNCHANGED <<spec, grants, body>>
    BY <1>3 DEF GrantMembership, Step
  <2>2. result'.grant \subseteq result.grant /\ result'.revoke = result.revoke
    BY <2>1 DEF TypeOK, Result
  <2>3. g \in Groups(body.access)
    BY <2>1 DEF Wanted
  <2>4. Granted' \subseteq Granted \cup {g}
    BY <2>1 DEF Granted, TypeOK
  <2>5. pc' \in Wanted /\ (pc' \notin {"grant", "revoke"} => result'.revoke = {})
    BY <2>1, StageWanted, StageAfterRevoke
  <2>6. body.access = spec.access /\ body.grants = grants
    BY <2>1 DEF PassStep
  <2> QED
    BY <2>1, <2>2, <2>3, <2>4, <2>5, <2>6 DEF PassStep, Wanted, Groups
<1>4. CASE RevokeMembership
  <2>1. PICK g \in result.revoke :
          /\ result' = [result EXCEPT !.revoke = @ \ {g}]
          /\ role' = [role EXCEPT !.member[g] = "none"]
          /\ pc = "revoke" /\ pc' = Stage(result')
          /\ UNCHANGED <<spec, grants, body>>
    BY <1>4 DEF RevokeMembership, Step
  <2>2. result'.grant = result.grant /\ result'.revoke = result.revoke \ {g}
    BY <2>1 DEF TypeOK, Result
  <2>3. Granted' = Granted \ {g}
    BY <2>1 DEF Granted, TypeOK
  <2>4. pc' \in Wanted /\ (pc' \notin {"grant", "revoke"} => result'.revoke = {})
    BY <2>1, StageWanted, StageAfterRevoke
  <2> QED
    BY <2>1, <2>2, <2>3, <2>4 DEF PassStep, Wanted, Groups
<1>5. CASE SetDefaultRole \/ ResetDefaultRole
  <2>1. /\ role'.member = role.member
        /\ result'.grant = result.grant /\ result'.revoke = result.revoke
        /\ pc \in {"setDefault", "resetDefault"} /\ pc' = Stage(result')
        /\ UNCHANGED <<spec, grants, body>>
    BY <1>5, ZenonT(60) DEF SetDefaultRole, ResetDefaultRole, Step, TypeOK, Result
  <2>2. Granted' = Granted
    BY <2>1 DEF Granted
  <2>3. pc' \in Wanted /\ (pc' \notin {"grant", "revoke"} => result'.revoke = {})
    BY <2>1, StageWanted, StageAfterRevoke
  <2> QED
    BY <2>1, <2>2, <2>3 DEF PassStep, Wanted, Groups
<1>6. CASE WriteCredentials \/ SyncPushSecret
  <2>1. Granted' = Granted
    BY <1>6 DEF WriteCredentials, SyncPushSecret, Granted
  <2> QED
    BY <1>6, <2>1 DEF WriteCredentials, SyncPushSecret, Step, PassStep, Wanted, Groups
<1>7. CASE Publish
  <2>1. Granted' = Granted
    BY <1>7 DEF Publish, Granted
  <2>2. Granted \subseteq Groups(body.access)
    BY <1>7 DEF Publish, Wanted
  <2> QED
    BY <1>7, <2>1, <2>2 DEF Publish, Idle, PassStep, Wanted, Groups
<1>8. CASE Refuse
  <2>1. Granted' = Granted
    BY <1>8 DEF Refuse, Granted
  <2> QED
    BY <1>8, <2>1 DEF Refuse, Idle, PassStep, Wanted, Groups
<1> QED
  BY <1>1, <1>2, <1>3, <1>4, <1>5, <1>6, <1>7, <1>8 DEF Pass

\* The finalizer, failures and others only ever take the operator's
\* memberships away.
LEMMA OnlyPassesGrant ==
  ASSUME TypeOK, Teardown \/ ClearFails \/ Meddle
  PROVE  Granted' \subseteq Granted
<1> USE DEF TypeOK
<1>1. CASE Teardown
  <2>1. CASE RevokeAll
    <3>1. role'.member = [g \in Group |-> "none"]
      BY <2>1 DEF RevokeAll
    <3> QED
      BY <3>1 DEF Granted
  <2>2. CASE DropRole
    <3>1. role'.member = [g \in Group |-> "none"]
      BY <2>2 DEF DropRole, NoRole
    <3> QED
      BY <3>1 DEF Granted
  <2>3. CASE FindRole \/ ClearDatabase \/ DeleteSecret \/ DeletePushSecret
    BY <2>3 DEF FindRole, ClearDatabase, DeleteSecret, DeletePushSecret, Granted
  <2> QED
    BY <1>1, <2>1, <2>2, <2>3 DEF Teardown
<1>2. CASE ClearFails
  BY <1>2 DEF ClearFails, Granted
<1>3. CASE Meddle
  <2>1. CASE MeddleWithUser
    <3>1. \/ role'.member = role.member \/ role' = NoRole
          \/ \E g \in Group : role' = [role EXCEPT !.member[g] = "admin"]
      BY <2>1, ZenonT(60) DEF MeddleWithUser
    <3> QED
      BY <3>1 DEF Granted, NoRole
  <2>2. CASE MeddleAround
    <3>1. \A g \in Group : role'.member[g] \in {"none", role.member[g]}
      <4>1. CASE role' = role
        BY <4>1
      <4>2. CASE \E d \in databases : LoseDatabase(d)
        BY <4>2 DEF LoseDatabase
      <4>3. CASE \E g \in groups : LoseGroup(g)
        BY <4>3 DEF LoseGroup
      <4>4. CASE \E d \in Database : Remake(d)
        BY <4>4 DEF Remake
      <4> QED
        BY <2>2, <4>1, <4>2, <4>3, <4>4, MeddledAround
    <3> QED
      BY <3>1 DEF Granted
  <2> QED
    BY <1>3, <2>1, <2>2 DEF Meddle
<1> QED
  BY <1>1, <1>2, <1>3

LEMMA AccessOthers ==
  ASSUME AccessInv, ~Hasty,
         \/ StartPass \/ StartTeardown \/ Teardown \/ Abandon \/ Break \/ ClearFails \/ Edit
         \/ Delete \/ Meddle
  PROVE  (BodyCurrent /\ Traceable /\ ToRevoke /\ Revoked /\ Converged)'
<1> USE DEF AccessInv, BodyCurrent, Traceable, ToRevoke, Revoked, Converged
<1>1. CASE StartPass
  <2>1. Granted' = Granted
    BY <1>1 DEF StartPass, Granted
  <2> QED
    BY <1>1, <2>1 DEF StartPass, PassStep, Wanted, Groups
<1>2. CASE StartTeardown
  <2>1. Granted' = Granted
    BY <1>2 DEF StartTeardown, Granted
  <2>2. spec'.access = spec.access /\ pc' \in {"idle", "find"} /\ outcome' = "none"
        /\ grants' = grants
    BY <1>2 DEF StartTeardown, TypeOK
  <2> QED
    BY <2>1, <2>2 DEF PassStep, Wanted, Groups
<1>3. CASE Teardown
  <2>1. Granted' \subseteq Granted
    BY <1>3, OnlyPassesGrant
  <2>2. /\ spec'.access = spec.access /\ grants' = grants /\ body' = body
        /\ pc' \in TeardownStep \cup {"idle"}
        /\ pc' = "idle" => outcome' = "none"
    BY <1>3 DEF Teardown, FindRole, RevokeAll, ClearDatabase, DropRole, DeleteSecret,
                DeletePushSecret, Step, Idle, TypeOK, TeardownStep
  <2> QED
    BY <2>1, <2>2 DEF PassStep, TeardownStep, Wanted, Groups
<1>4. CASE Break
  <2>1. Granted' = Granted
    BY <1>4 DEF Break, Granted
  <2> QED
    BY <1>4, <2>1 DEF Break, Idle, PassStep, Wanted, Groups
<1>5. CASE ClearFails
  <2>1. Granted' \subseteq Granted
    BY <1>5, OnlyPassesGrant
  <2>2. UNCHANGED <<spec, grants, body>> /\ pc' \in {"clear", "dropRole"}
    BY <1>5 DEF ClearFails
  <2> QED
    BY <2>1, <2>2 DEF PassStep, Wanted, Groups
<1>6. CASE Edit
  <2>1. Granted' = Granted /\ UNCHANGED <<grants, body, pc, outcome, result>>
    BY <1>6 DEF Edit, Granted
  <2>2. pc = "idle" /\ outcome = "ok"
    BY <1>6 DEF Edit
  <2> QED
    BY <2>1, <2>2 DEF PassStep, Wanted, Groups
<1>7. CASE Delete
  <2>1. Granted' = Granted /\ spec'.access = spec.access
    BY <1>7 DEF Delete, Granted, TypeOK
  <2> QED
    BY <1>7, <2>1 DEF Delete, Groups
<1>8. CASE Meddle
  <2>1. Granted' \subseteq Granted
    BY <1>8, OnlyPassesGrant
  <2>2. UNCHANGED <<spec, grants, pc, body, result, outcome>>
    BY <1>8 DEF Meddle
  <2> QED
    BY <2>1, <2>2 DEF Groups
<1>9. CASE Abandon
  <2>1. Granted' = Granted /\ spec'.access = spec.access
    BY <1>9 DEF Abandon, Granted, TypeOK
  <2> QED
    BY <1>9, <2>1 DEF Abandon, Idle, PassStep, Wanted, Groups
<1> QED
  BY <1>1, <1>2, <1>3, <1>4, <1>5, <1>6, <1>7, <1>8, <1>9

LEMMA AccessStep == AccessInv /\ ~Hasty /\ [Next]_vars => AccessInv'
<1> SUFFICES ASSUME AccessInv, ~Hasty, [Next]_vars PROVE AccessInv'
  OBVIOUS
<1>0. TypeOK'
  BY TypeStep DEF AccessInv
<1>1. CASE Pass
  BY <1>0, <1>1, AccessPass DEF AccessInv
<1>2. CASE StartPass \/ StartTeardown \/ Teardown \/ Abandon \/ Break \/ ClearFails \/ Edit
           \/ Delete \/ Meddle
  BY <1>0, <1>2, AccessOthers DEF AccessInv
<1>3. CASE Gone \/ UNCHANGED vars
  BY <1>0, <1>3 DEF Gone, vars, AccessInv, BodyCurrent, Traceable, ToRevoke, Revoked, Converged,
                    Granted, Groups
<1> QED
  BY <1>1, <1>2, <1>3 DEF Next, Operator

\* After a successful pass nothing the operator granted is left that the spec
\* does not ask for, if each edit waits for the last one to converge.
THEOREM AccessTakenAway ==
  ASSUME ~Hasty
  PROVE  Spec => []NoLingeringAccess
<1>1. AccessInv => NoLingeringAccess
  BY DEF AccessInv, Converged, Granted, NoLingeringAccess
<1>2. AccessInv /\ [Next]_vars => AccessInv'
  BY AccessStep
<1> QED
  BY <1>1, <1>2, AccessInit, PTL DEF Spec

-----------------------------------------------------------------------------
(***************************************************************************)
(* 4  A dropped user leaves nothing: which step of the finalizer may rely  *)
(* on what the steps before it removed.                                    *)
(***************************************************************************)

DropInv ==
  /\ TypeOK
  /\ pc \in TeardownStep => spec.deleting /\ ~spec.released /\ spec.policy = "DROP"
  /\ spec.released => spec.deleting /\ pc = "idle"
  /\ pc \in {"deleteSecret", "deletePush"} => ~role.exists
  /\ pc = "deletePush" => secret = NoPassword
  /\ DroppedClean

LEMMA DropStep == DropInv /\ [Next]_vars => DropInv'
<1> SUFFICES ASSUME DropInv, [Next]_vars PROVE DropInv'
  OBVIOUS
<1> USE DEF DropInv, DroppedClean
<1>0. TypeOK'
  BY TypeStep
<1>1. CASE StartPass
  BY <1>0, <1>1 DEF StartPass, PassStep, TeardownStep
<1>2. CASE StartTeardown
  BY <1>0, <1>2 DEF StartTeardown, TeardownStep, TypeOK
<1>3. CASE Pass
  <2>1. /\ UNCHANGED <<spec, instance>> /\ pc \in PassStep \cup {"dropRole"}
        /\ pc' \in PassStep \cup {"idle"} /\ (pc = "dropRole" => pc' = "idle" /\ UNCHANGED <<role, secret, push>>)
    BY <1>3, StageIsStep DEF Pass, Resolve, EnsureRole, ReadMemberships, GrantMembership,
         RevokeMembership, SetDefaultRole, ResetDefaultRole, WriteCredentials, SyncPushSecret,
         Publish, Refuse, Step, Idle, PassStep
  <2> QED
    BY <1>0, <2>1 DEF PassStep, TeardownStep
<1>4. CASE Teardown
  <2>1. CASE DeletePushSecret
    BY <1>0, <2>1 DEF DeletePushSecret, Idle, TeardownStep, TypeOK
  <2>2. CASE FindRole \/ DropRole \/ DeleteSecret
    BY <1>0, <2>2 DEF FindRole, DropRole, DeleteSecret, Step, NoRole, TeardownStep
  <2>3. CASE RevokeAll \/ ClearDatabase
    BY <1>0, <2>3 DEF RevokeAll, ClearDatabase, Step, TeardownStep
  <2> QED
    BY <1>4, <2>1, <2>2, <2>3 DEF Teardown
<1>5. CASE Break
  BY <1>0, <1>5 DEF Break, Idle, TeardownStep
<1>6. CASE ClearFails
  BY <1>0, <1>6 DEF ClearFails, TeardownStep
<1>7. CASE Edit
  <2>1. /\ ~spec.deleting /\ ~spec'.deleting /\ spec'.released = spec.released
        /\ UNCHANGED <<role, secret, push, pc, instance, outcome>>
    BY <1>7 DEF Edit, TypeOK
  <2> QED
    BY <1>0, <2>1
<1>8. CASE Delete
  BY <1>0, <1>8 DEF Delete, TypeOK
<1>9. CASE Meddle
  <2>1. /\ UNCHANGED <<spec, pc, push, outcome>> /\ secret' \in {secret, NoPassword}
        /\ (instance'.exists => instance.exists)
    BY <1>9 DEF Meddle, MeddleWithUser, MeddleAround, TypeOK
  <2>2. role'.exists => role.exists
    <3>1. CASE MeddleWithUser
      BY <3>1 DEF MeddleWithUser, NoRole, TypeOK
    <3>2. CASE MeddleAround
      BY <3>2, MeddledAround DEF LoseDatabase, LoseGroup, Remake, TypeOK
    <3> QED
      BY <1>9, <3>1, <3>2 DEF Meddle
  <2> QED
    BY <1>0, <2>1, <2>2
<1>10. CASE Gone \/ UNCHANGED vars
  BY <1>0, <1>10 DEF Gone, vars
<1>11. CASE Abandon
  <2>1. /\ spec'.released /\ spec'.policy = spec.policy /\ spec'.deleting = spec.deleting
        /\ spec.deleting /\ pc' = "idle" /\ outcome' = "abandoned"
    BY <1>11 DEF Abandon, Idle, TypeOK, TeardownStep
  <2> QED
    BY <1>0, <2>1 DEF TeardownStep
<1> QED
  BY <1>1, <1>2, <1>3, <1>4, <1>5, <1>6, <1>7, <1>8, <1>9, <1>10, <1>11 DEF Next, Operator

\* Under DROP, and short of a configuration error or a lost instance, the
\* finalizer is released only with the role, the Secret and the PushSecret gone,
\* whatever failed or was already missing.
THEOREM NothingLeftOfUser == Spec => []DroppedClean
<1>1. Init => DropInv
  BY TypeInit DEF Init, DropInv, DroppedClean, TeardownStep
<1>2. DropInv => DroppedClean
  BY DEF DropInv
<1> QED
  BY <1>1, <1>2, DropStep, PTL DEF Spec

-----------------------------------------------------------------------------
(***************************************************************************)
(* 5  No needless reset.  Between reading the Secret and setting the       *)
(* password the Secret may be deleted, but not replaced, so what the pass  *)
(* holds is still what the Secret shows, if it shows anything.             *)
(***************************************************************************)

PasswordInv ==
  /\ TypeOK
  /\ role.exists => role.password # NoPassword
  /\ pc = "role" =>
       /\ result.password # NoPassword
       /\ \/ body.provided /\ result.password = ProvidedPassword
          \/ ~body.provided /\ result.origin = "existing" /\ secret \in {result.password, NoPassword}
          \/ ~body.provided /\ result.origin = "generated" /\ secret = NoPassword

LEMMA PasswordStep == PasswordInv /\ [Next]_vars => PasswordInv'
<1> SUFFICES ASSUME PasswordInv, [Next]_vars PROVE PasswordInv'
  OBVIOUS
<1> USE DEF PasswordInv
<1>0. TypeOK'
  BY TypeStep
<1>1. CASE Resolve
  <2>1. PICK known \in Resolved :
          result'.password = known.password /\ result'.origin = known.origin
    BY <1>1 DEF Resolve, NoResult
  <2>2. /\ known.password # NoPassword
        /\ \/ body.provided /\ known.password = ProvidedPassword
           \/ ~body.provided /\ known.origin = "existing" /\ secret = known.password
           \/ ~body.provided /\ known.origin = "generated" /\ secret = NoPassword
    BY PasswordsDistinct DEF Resolved, FreshPasswords, TypeOK, Body
  <2>3. pc' = "role" /\ UNCHANGED <<role, secret, body>>
    BY <1>1 DEF Resolve, Step
  <2> QED
    BY <1>0, <2>1, <2>2, <2>3
<1>2. CASE EnsureRole
  <2>1. role' = role \/ (role'.password = result.password /\ pc = "role")
    BY <1>2 DEF EnsureRole, Step, TypeOK
  <2>2. pc' = "read"
    BY <1>2 DEF EnsureRole, Step
  <2> QED
    BY <1>0, <2>1, <2>2
<1>3. CASE Operator /\ ~Resolve /\ ~EnsureRole
  <2>1. pc' # "role"
    BY <1>3, StageIsStep DEF Operator, StartPass, StartTeardown, Pass, Teardown, ReadMemberships,
         GrantMembership, RevokeMembership, SetDefaultRole, ResetDefaultRole, WriteCredentials,
         SyncPushSecret, Publish, Refuse, FindRole, RevokeAll, ClearDatabase, DropRole,
         DeleteSecret, DeletePushSecret, Step, Idle
  <2>2. role'.exists => role.exists /\ role'.password = role.password
    <3>1. CASE DropRole
      BY <3>1 DEF DropRole, NoRole
    <3>2. CASE StartPass \/ StartTeardown \/ ReadMemberships \/ WriteCredentials
               \/ SyncPushSecret \/ Publish \/ Refuse \/ FindRole \/ DeleteSecret
               \/ DeletePushSecret
      BY <3>2 DEF StartPass, StartTeardown, ReadMemberships, WriteCredentials, SyncPushSecret,
                  Publish, Refuse, FindRole, DeleteSecret, DeletePushSecret
    <3>3. CASE GrantMembership \/ RevokeMembership \/ SetDefaultRole \/ ResetDefaultRole
      BY <3>3, ZenonT(60) DEF GrantMembership, RevokeMembership, SetDefaultRole, ResetDefaultRole, TypeOK
    <3>4. CASE RevokeAll \/ ClearDatabase
      BY <3>4, ZenonT(60) DEF RevokeAll, ClearDatabase, TypeOK
    <3> QED
      BY <1>3, <3>1, <3>2, <3>3, <3>4 DEF Operator, Pass, Teardown
  <2> QED
    BY <1>0, <2>1, <2>2
<1>4. CASE Abandon \/ Break \/ ClearFails \/ Edit \/ Delete
  <2>1. role'.exists => role.exists /\ role'.password = role.password
    BY <1>4 DEF Abandon, Break, ClearFails, Edit, Delete, TypeOK
  <2>2. pc' = "role" => UNCHANGED <<pc, result, secret, body>>
    BY <1>4 DEF Abandon, Break, ClearFails, Edit, Delete, Idle
  <2> QED
    BY <1>0, <2>1, <2>2
<1>5. CASE Meddle
  <2>1. role'.exists => role'.password # NoPassword
    <3>1. CASE MeddleWithUser
      <4>1. \/ ~role'.exists
            \/ role'.exists = role.exists /\ role'.password = role.password
            \/ \E p \in Password : role' = [role EXCEPT !.password = p]
        <5>1. \/ role' = role \/ role' = NoRole
              \/ \E g \in Group : role' = [role EXCEPT !.member[g] = "admin"]
              \/ \E p \in Password : role' = [role EXCEPT !.password = p]
              \/ \E D \in SUBSET Database : role' = [role EXCEPT !.owns = D]
          BY <3>1, MeddledRole
        <5> QED
          BY <5>1, SMTT(30) DEF NoRole, TypeOK
      <4>2. CASE ~role'.exists
        BY <4>2
      <4>3. CASE role'.exists = role.exists /\ role'.password = role.password
        BY <4>3
      <4>4. ASSUME NEW p \in Password, role' = [role EXCEPT !.password = p]
            PROVE  role'.password # NoPassword
        <5>1. role'.password = p
          BY <4>4 DEF TypeOK
        <5> QED
          BY <5>1, PasswordsDistinct
      <4> QED
        BY <4>1, <4>2, <4>3, <4>4
    <3>2. CASE MeddleAround
      <4>1. role'.exists = role.exists /\ role'.password = role.password
        BY <3>2, MeddledAround DEF LoseDatabase, LoseGroup, Remake, TypeOK
      <4> QED
        BY <4>1
    <3> QED
      BY <1>5, <3>1, <3>2 DEF Meddle
  <2>2. UNCHANGED <<pc, result, body>> /\ secret' \in {secret, NoPassword}
    BY <1>5 DEF Meddle, MeddleWithUser, MeddleAround
  <2> QED
    BY <1>0, <2>1, <2>2
<1>6. CASE Gone \/ UNCHANGED vars
  BY <1>0, <1>6 DEF Gone, vars
<1> QED
  BY <1>1, <1>2, <1>3, <1>4, <1>5, <1>6 DEF Next

\* Only EnsureRole moves a pass from the role to the memberships.
LEMMA OnlyEnsureRole ==
  ASSUME [Next]_vars, pc = "role", pc' = "read"
  PROVE  EnsureRole
  BY DEF Next, vars, Operator, StartPass, StartTeardown, Pass, Teardown, Resolve, ReadMemberships,
         GrantMembership, RevokeMembership, SetDefaultRole, ResetDefaultRole, WriteCredentials,
         SyncPushSecret, Publish, Refuse, FindRole, RevokeAll, ClearDatabase, DropRole,
         DeleteSecret, DeletePushSecret, Abandon, Break, ClearFails, Edit, Delete, Meddle, Gone,
         Step, Idle

\* A pass writes the password of a role it found only if the Secret does not carry
\* it, or the user brings another, or brings one that cannot be compared.
THEOREM SteadyPassword == Spec => NoNeedlessReset
<1>1. Init => PasswordInv
  <2> SUFFICES ASSUME Init PROVE PasswordInv
    OBVIOUS
  <2>1. ~role.exists /\ pc = "idle"
    BY DEF Init, NoRole
  <2> QED
    BY <2>1, TypeInit DEF PasswordInv
<1>2. PasswordInv /\ [Next]_vars => [WriteJustified]_vars
  <2> SUFFICES ASSUME PasswordInv, [Next]_vars, pc = "role", pc' = "read", role.exists,
                      result'.written
               PROVE  IF body.provided THEN role.password # ProvidedPassword \/ ~instance.readable
                      ELSE secret # role.password
    BY DEF WriteJustified
  <2>1. result'.written = (~role.exists \/ MustSetPassword)
    BY OnlyEnsureRole DEF EnsureRole, PasswordInv, TypeOK, Result
  <2>2. MustSetPassword
    BY <2>1
  <2>3. CASE instance.readable
    <3>1. role.password # result.password
      BY <2>2, <2>3 DEF MustSetPassword
    <3> QED
      BY <3>1 DEF PasswordInv
  <2>4. CASE ~instance.readable
    <3>1. result.origin \in {"generated", "byo"}
      BY <2>2, <2>4 DEF MustSetPassword
    <3> QED
      BY <2>4, <3>1 DEF PasswordInv
  <2> QED
    BY <2>3, <2>4
<1> QED
  BY <1>1, <1>2, PasswordStep, PTL DEF Spec, NoNeedlessReset

-----------------------------------------------------------------------------
(***************************************************************************)
(* 6  No gap in access.  The memberships are read once, so what a pass     *)
(* revokes it decided before it granted.  What carries the property: while *)
(* it grants and revokes, the group of each level its body asks for is     *)
(* held, still to be granted, skipped, or went since the pass began.       *)
(***************************************************************************)

Cover(g) == role.member[g] # "none" \/ g \in result.grant \cup result.skipped \cup lost

Covered == pc \in Wanted /\ role.exists => \A g \in Groups(body.access) : Cover(g)

GapInv ==
  /\ TypeOK
  /\ pc \in Wanted => result.revoke \cap Groups(body.access) = {}
  /\ pc = "revoke" => result.grant = {}
  /\ Covered

\* The group of the level a body asks for is one of those it names.
LEMMA NewGroups ==
  ASSUME TypeOK, NEW d \in Database, body.access[d] # "none"
  PROVE  <<d, body.access[d]>> \in Groups(body.access)
  BY DEF TypeOK, Body, Access, Group, Groups

\* What takes no membership from the role and no group from the work keeps all
\* groups covered.
LEMMA GapKept ==
  ASSUME GapInv, [Next]_vars, role'.exists => role.exists,
         pc' \in Wanted =>
           /\ pc \in Wanted /\ UNCHANGED body /\ result'.revoke \subseteq result.revoke
           /\ pc' = "revoke" => result'.grant = {}
           /\ role'.exists => \A g \in Groups(body.access) : Cover(g) => Cover(g)'
  PROVE  GapInv'
<1>1. TypeOK'
  BY TypeStep DEF GapInv
<1>2. "revoke" \in Wanted
  BY DEF Wanted
<1>3. Covered'
  <2> SUFFICES ASSUME pc' \in Wanted, role'.exists, NEW g \in Groups(body.access)'
               PROVE  Cover(g)'
    BY DEF Covered
  <2>1. g \in Groups(body.access)
    BY DEF Groups
  <2> QED
    BY <2>1 DEF GapInv, Covered
<1>4. pc' \in Wanted => result'.revoke \cap Groups(body.access)' = {}
  BY DEF GapInv, Groups
<1>5. pc' = "revoke" => result'.grant = {}
  BY <1>2
<1> QED
  BY <1>1, <1>3, <1>4, <1>5 DEF GapInv

LEMMA GapPass ==
  ASSUME GapInv, [Next]_vars, Pass
  PROVE  GapInv'
<1>a. TypeOK /\ TypeOK' /\ result \in Result /\ role \in RoleType
  BY TypeStep DEF GapInv, TypeOK, RoleType
<1>b. role.member \in [Group -> {"none", "operator", "admin"}]
  BY <1>a DEF RoleType
<1>1. CASE Resolve \/ EnsureRole \/ Publish \/ Refuse
  <2>1. pc' \notin Wanted
    BY <1>1 DEF Resolve, EnsureRole, Publish, Refuse, Step, Idle, Wanted
  <2> QED
    BY <1>a, <2>1 DEF GapInv, Covered, Wanted
<1>2. CASE ReadMemberships
  <2>1. /\ result'.grant = Groups(body.access) \ Held
        /\ result'.revoke = (Groups(body.grants) \ Groups(body.access)) \cap Held
        /\ pc' = Stage(result') /\ role' = role /\ UNCHANGED body
    BY <1>a, <1>2 DEF ReadMemberships, Step, Result
  <2>2. pc' = "revoke" => result'.grant = {}
    BY <2>1 DEF Stage
  <2>3. \A g \in Groups(body.access) : role'.member[g] # "none" \/ g \in result'.grant
    BY <2>1 DEF Held, Groups
  <2>4. Groups(body.access)' = Groups(body.access)
    BY <2>1 DEF Groups
  <2> QED
    BY <1>a, <2>1, <2>2, <2>3, <2>4 DEF GapInv, Covered, Cover
<1>3. CASE GrantMembership
  <2>1. PICK g \in result.grant :
          /\ result' = [result EXCEPT !.grant = @ \ {g}, !.skipped = @ \cup ({g} \ groups)]
          /\ role' = IF g \in groups /\ role.member[g] = "none"
                     THEN [role EXCEPT !.member[g] = "operator"] ELSE role
          /\ pc = "grant" /\ pc' = Stage(result') /\ UNCHANGED <<lost, body>>
    BY <1>3 DEF GrantMembership, Step
  <2>2. /\ result'.grant = result.grant \ {g} /\ result'.revoke = result.revoke
        /\ result'.skipped = result.skipped \cup ({g} \ groups)
    BY <1>a, <2>1 DEF Result
  <2>3. pc \in Wanted /\ g \in Group
    BY <1>a, <2>1 DEF Wanted, Result
  <2>4. /\ role'.exists = role.exists
        /\ role'.member = IF g \in groups /\ role.member[g] = "none"
                          THEN [role.member EXCEPT ![g] = "operator"] ELSE role.member
    BY <1>a, <2>1 DEF RoleType
  <2>5. /\ \A h \in Group : role.member[h] # "none" => role'.member[h] # "none"
        /\ g \in groups => role'.member[g] # "none"
    BY <1>b, <2>3, <2>4
  <2>6. ASSUME NEW h \in Groups(body.access), Cover(h)
        PROVE  Cover(h)'
    <3>1. h \in Group
      BY DEF Groups
    <3>2. CASE h = g
      BY <2>2, <2>5, <3>2 DEF Cover
    <3>3. CASE h # g
      BY <2>1, <2>2, <2>5, <2>6, <3>1, <3>3 DEF Cover
    <3> QED
      BY <3>2, <3>3
  <2>7. pc' = "revoke" => result'.grant = {}
    BY <2>1 DEF Stage
  <2> QED
    BY <2>1, <2>2, <2>3, <2>4, <2>6, <2>7, GapKept
<1>4. CASE RevokeMembership
  <2>1. PICK g \in result.revoke :
          /\ result' = [result EXCEPT !.revoke = @ \ {g}]
          /\ role' = [role EXCEPT !.member[g] = "none"]
          /\ pc = "revoke" /\ pc' = Stage(result') /\ UNCHANGED <<lost, body>>
    BY <1>4 DEF RevokeMembership, Step
  <2>2. /\ result'.grant = result.grant /\ result'.revoke = result.revoke \ {g}
        /\ result'.skipped = result.skipped
    BY <1>a, <2>1 DEF Result
  <2>3. pc \in Wanted /\ g \in Group /\ g \notin Groups(body.access)
    BY <1>a, <2>1 DEF Wanted, GapInv, Result
  <2>4. role'.exists = role.exists /\ role'.member = [role.member EXCEPT ![g] = "none"]
    BY <1>a, <2>1 DEF RoleType
  <2>5. \A h \in Groups(body.access) : role'.member[h] = role.member[h]
    BY <1>b, <2>3, <2>4 DEF Groups
  <2>6. pc' = "revoke" => result'.grant = {}
    BY <2>1 DEF Stage
  <2>7. \A h \in Groups(body.access) : Cover(h) => Cover(h)'
    BY <2>1, <2>2, <2>5 DEF Cover
  <2> QED
    BY <2>1, <2>2, <2>3, <2>4, <2>6, <2>7, GapKept
<1>5. CASE SetDefaultRole \/ ResetDefaultRole \/ WriteCredentials \/ SyncPushSecret
  <2>1. /\ role'.member = role.member /\ role'.exists = role.exists /\ UNCHANGED <<lost, body>>
        /\ result'.grant = result.grant /\ result'.revoke = result.revoke
        /\ result'.skipped = result.skipped
    <3>1. CASE SetDefaultRole \/ ResetDefaultRole
      BY <1>a, <3>1, ZenonT(60) DEF SetDefaultRole, ResetDefaultRole, Step, RoleType, Result
    <3>2. CASE WriteCredentials \/ SyncPushSecret
      BY <3>2 DEF WriteCredentials, SyncPushSecret, Step
    <3> QED
      BY <1>5, <3>1, <3>2
  <2>2. /\ pc \in {"setDefault", "resetDefault", "secret", "push"}
        /\ pc' \in {Stage(result'), "push", "publish"}
    BY <1>5 DEF SetDefaultRole, ResetDefaultRole, WriteCredentials, SyncPushSecret, Step
  <2>3. pc' = "revoke" => result'.grant = {}
    BY <2>2 DEF Stage
  <2>4. pc \in Wanted
    BY <2>2 DEF Wanted
  <2>5. \A h \in Groups(body.access) : Cover(h) => Cover(h)'
    BY <2>1 DEF Cover
  <2> QED
    BY <2>1, <2>3, <2>4, <2>5, GapKept
<1> QED
  BY <1>1, <1>2, <1>3, <1>4, <1>5 DEF Pass

\* Others add memberships, or take one with its group role, which is then lost,
\* or take the role, which the pass does not make again.
LEMMA GapMeddle ==
  ASSUME GapInv, [Next]_vars, Meddle
  PROVE  GapInv'
<1>a. TypeOK /\ role \in RoleType /\ UNCHANGED <<pc, body, result>>
  BY DEF GapInv, TypeOK, RoleType, Meddle
<1>b. role.member \in [Group -> {"none", "operator", "admin"}]
  BY <1>a DEF RoleType
<1>c. pc = "revoke" => result.grant = {}
  BY DEF GapInv
<1>1. ASSUME role'.exists => role.exists,
             role'.exists => \A g \in Group : Cover(g) => Cover(g)'
      PROVE  GapInv'
  <2>1. Groups(body.access) \subseteq Group
    BY DEF Groups
  <2> QED
    BY <1>a, <1>c, <1>1, <2>1, GapKept
<1>2. ASSUME UNCHANGED lost, role'.exists = role.exists,
             \A g \in Group : role.member[g] # "none" => role'.member[g] # "none"
      PROVE  GapInv'
  <2>1. \A g \in Group : Cover(g) => Cover(g)'
    BY <1>a, <1>2 DEF Cover
  <2> QED
    BY <1>1, <1>2, <2>1
<1>3. CASE MeddleWithUser
  <2>1. UNCHANGED lost
    BY <1>3 DEF MeddleWithUser
  <2>2. CASE \E g \in Group : role' = [role EXCEPT !.member[g] = "admin"]
    <3>1. PICK g \in Group : role' = [role EXCEPT !.member[g] = "admin"]
      BY <2>2
    <3>2. role'.exists = role.exists /\ role'.member = [role.member EXCEPT ![g] = "admin"]
      BY <1>a, <3>1 DEF RoleType
    <3> QED
      BY <1>b, <1>2, <2>1, <3>2
  <2>3. CASE role' = NoRole
    BY <1>1, <2>3 DEF NoRole
  <2>4. CASE \/ role' = role
             \/ \E p \in Password : role' = [role EXCEPT !.password = p]
             \/ \E D \in SUBSET Database : role' = [role EXCEPT !.owns = D]
    <3>1. role'.member = role.member /\ role'.exists = role.exists
      BY <1>a, <2>4 DEF RoleType
    <3> QED
      BY <1>2, <2>1, <3>1
  <2> QED
    BY <1>a, <1>3, <2>2, <2>3, <2>4, MeddledRole
<1>4. CASE MeddleAround
  <2>1. CASE UNCHANGED <<role, databases, groups, lost>>
    BY <1>2, <2>1
  <2>2. CASE \E d \in databases : LoseDatabase(d)
    <3>1. role'.member = role.member /\ role'.exists = role.exists /\ UNCHANGED lost
      BY <1>a, <2>2 DEF LoseDatabase, RoleType
    <3> QED
      BY <1>2, <3>1
  <2>3. CASE \E g \in groups : LoseGroup(g)
    <3>1. PICK g \in groups : LoseGroup(g)
      BY <2>3
    <3>2. /\ role'.exists = role.exists /\ role'.member = [role.member EXCEPT ![g] = "none"]
          /\ lost' = lost \cup {g}
      BY <1>a, <3>1 DEF LoseGroup, RoleType
    <3>3. \A h \in Group : Cover(h) => Cover(h)'
      BY <1>a, <1>b, <3>2 DEF Cover
    <3> QED
      BY <1>1, <3>2, <3>3
  <2>4. CASE \E d \in Database : Remake(d)
    BY <1>2, <2>4 DEF Remake
  <2> QED
    BY <1>4, <2>1, <2>2, <2>3, <2>4, MeddledAround
<1> QED
  BY <1>3, <1>4 DEF Meddle

LEMMA GapStep == GapInv /\ [Next]_vars => GapInv'
<1> SUFFICES ASSUME GapInv, [Next]_vars PROVE GapInv'
  OBVIOUS
<1>a. TypeOK'
  BY TypeStep DEF GapInv
<1>1. CASE StartPass \/ StartTeardown \/ Teardown \/ Abandon \/ Break \/ ClearFails
  <2>1. pc' \in {"resolve", "idle"} \cup TeardownStep
    <3>1. CASE StartPass \/ StartTeardown \/ Abandon \/ Break \/ ClearFails
      BY <3>1 DEF StartPass, StartTeardown, Abandon, Break, ClearFails, Idle, TeardownStep
    <3>2. CASE Teardown
      BY <3>2 DEF Teardown, FindRole, RevokeAll, ClearDatabase, DropRole, DeleteSecret,
                  DeletePushSecret, Step, Idle, TeardownStep
    <3> QED
      BY <1>1, <3>1, <3>2
  <2>2. pc' \notin Wanted
    BY <2>1 DEF Wanted, TeardownStep
  <2> QED
    BY <1>a, <2>2 DEF GapInv, Covered, Wanted
<1>2. CASE Edit \/ Delete \/ Gone \/ UNCHANGED vars
  <2>1. UNCHANGED <<role, lost, pc, body, result>>
    BY <1>2 DEF Edit, Delete, Gone, vars
  <2> QED
    BY <1>a, <2>1 DEF GapInv, Covered, Cover, Groups
<1> QED
  BY <1>1, <1>2, GapPass, GapMeddle DEF Next, Operator

\* The only step of a pass that takes a membership from a group role that stays
\* is its revocation.
LEMMA OnlyRevokeTakes ==
  ASSUME TypeOK, [Next]_vars, pc \in PassStep, role'.exists, NEW g \in groups', g \in Group,
         role.member[g] # "none", role'.member[g] = "none"
  PROVE  RevokeMembership
<1>a. /\ role \in RoleType /\ role.member \in [Group -> {"none", "operator", "admin"}]
  BY DEF TypeOK, RoleType
<1>b. role'.member # role.member
  OBVIOUS
<1>1. CASE GrantMembership
  <2>1. PICK h \in result.grant :
          role' = IF h \in groups /\ role.member[h] = "none"
                  THEN [role EXCEPT !.member[h] = "operator"] ELSE role
    BY <1>1 DEF GrantMembership
  <2>2. role'.member \in {role.member, [role.member EXCEPT ![h] = "operator"]}
    BY <1>a, <2>1 DEF RoleType
  <2> QED
    BY <1>a, <1>b, <2>2
<1>2. CASE Meddle
  <2>1. CASE MeddleWithUser
    <3>1. CASE \E h \in Group : role' = [role EXCEPT !.member[h] = "admin"]
      <4>1. PICK h \in Group : role'.member = [role.member EXCEPT ![h] = "admin"]
        BY <1>a, <3>1 DEF RoleType
      <4> QED
        BY <1>a, <4>1
    <3>2. CASE role' = NoRole
      BY <3>2 DEF NoRole
    <3>3. CASE \/ role' = role
               \/ \E p \in Password : role' = [role EXCEPT !.password = p]
               \/ \E D \in SUBSET Database : role' = [role EXCEPT !.owns = D]
      BY <1>a, <1>b, <3>3 DEF RoleType
    <3> QED
      BY <2>1, <3>1, <3>2, <3>3, MeddledRole
  <2>2. CASE MeddleAround
    <3>1. CASE \E h \in groups : LoseGroup(h)
      <4>1. PICK h \in groups : LoseGroup(h)
        BY <3>1
      <4>2. role'.member = [role.member EXCEPT ![h] = "none"] /\ g # h
        BY <1>a, <4>1 DEF LoseGroup, RoleType
      <4> QED
        BY <1>a, <4>2
    <3>2. CASE \/ UNCHANGED role \/ \E d \in databases : LoseDatabase(d)
               \/ \E d \in Database : Remake(d)
      BY <1>a, <1>b, <3>2 DEF LoseDatabase, Remake, RoleType
    <3> QED
      BY <2>2, <3>1, <3>2, MeddledAround
  <2> QED
    BY <1>2, <2>1, <2>2 DEF Meddle
<1>3. CASE Teardown \/ ClearFails \/ StartPass \/ StartTeardown \/ Abandon
  BY <1>3 DEF Teardown, ClearFails, StartPass, StartTeardown, Abandon, FindRole, RevokeAll,
              ClearDatabase, DropRole, DeleteSecret, DeletePushSecret, Step, PassStep
<1>4. CASE Break \/ Edit \/ Delete \/ Gone \/ UNCHANGED vars
  BY <1>4, <1>b DEF Break, Edit, Delete, Gone, vars
<1>5. CASE Resolve \/ EnsureRole \/ ReadMemberships \/ SetDefaultRole \/ ResetDefaultRole
           \/ WriteCredentials \/ SyncPushSecret \/ Publish \/ Refuse
  <2>1. role'.member = role.member
    BY <1>a, <1>5 DEF Resolve, EnsureRole, ReadMemberships, SetDefaultRole, ResetDefaultRole,
                      WriteCredentials, SyncPushSecret, Publish, Refuse, RoleType
  <2> QED
    BY <1>b, <2>1
<1> QED
  BY <1>1, <1>2, <1>3, <1>4, <1>5 DEF Next, Operator, Pass

\* A pass that changes a level of access never leaves the user without any in
\* between or after it, unless the group role of the new level was missing when
\* it was to be granted - the pass then says so - or went while the pass ran.
THEOREM NoGap == Spec => NoGapInAccess
<1> DEFINE Took ==
      \A d \in Database :
        /\ pc \in PassStep /\ role'.exists
        /\ \E l \in Level : <<d, l>> \in groups' /\ role.member[<<d, l>>] # "none"
        /\ \A l \in Level : role'.member[<<d, l>>] = "none"
        => \/ body.access[d] = "none"
           \/ <<d, body.access[d]>> \in result.skipped \cup lost
<1>1. Init => GapInv
  <2> SUFFICES ASSUME Init PROVE GapInv
    OBVIOUS
  <2>1. pc = "idle"
    BY DEF Init
  <2> QED
    BY <2>1, TypeInit DEF GapInv, Covered, Wanted
<1>2. GapInv /\ [Next]_vars => [Took]_vars
  <2> SUFFICES ASSUME GapInv, [Next]_vars, NEW d \in Database, pc \in PassStep, role'.exists,
                      NEW l \in Level, <<d, l>> \in groups', role.member[<<d, l>>] # "none",
                      \A k \in Level : role'.member[<<d, k>>] = "none",
                      body.access[d] # "none"
               PROVE  <<d, body.access[d]>> \in result.skipped \cup lost
    OBVIOUS
  <2>1. TypeOK /\ <<d, l>> \in Group /\ role'.member[<<d, l>>] = "none"
    BY DEF GapInv, Group
  <2>2. RevokeMembership
    BY <2>1, OnlyRevokeTakes
  <2>3. PICK g \in result.revoke :
          role.exists /\ pc = "revoke" /\ role' = [role EXCEPT !.member[g] = "none"]
    BY <2>2 DEF RevokeMembership, Step
  <2>4. role.member \in [Group -> {"none", "operator", "admin"}]
        /\ role'.member = [role.member EXCEPT ![g] = "none"]
    BY <2>1, <2>3 DEF TypeOK
  <2>5. <<d, body.access[d]>> \in Groups(body.access) /\ pc \in Wanted
    BY <2>1, <2>3, NewGroups DEF Wanted
  <2>6. <<d, body.access[d]>> \in Group /\ body.access[d] \in Level
    BY <2>1, <2>5 DEF Groups, Group
  <2>7. <<d, body.access[d]>> # g /\ role'.member[<<d, body.access[d]>>] = "none"
    BY <2>5, <2>6 DEF GapInv
  <2>8. role.member[<<d, body.access[d]>>] = "none"
    BY <2>4, <2>6, <2>7
  <2>9. Cover(<<d, body.access[d]>>) /\ result.grant = {}
    BY <2>3, <2>5 DEF GapInv, Covered
  <2> QED
    BY <2>8, <2>9 DEF Cover
<1> QED
  BY <1>1, <1>2, GapStep, PTL DEF Spec, NoGapInAccess
=============================================================================
