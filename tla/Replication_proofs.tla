-------------------------- MODULE Replication_proofs --------------------------
(***************************************************************************)
(* Proofs about Replication, for every value of its constants.             *)
(*                                                                         *)
(*   1  records keep their types under the updates the actions make        *)
(*   2  TypeOK is an invariant                                             *)
(*   3  CredentialsMatch is an invariant, and OthersUntouched holds, where *)
(*      no handler queues behind another                                   *)
(*   4  both where handlers do queue, and SecretOutlivesLogin, where the   *)
(*      publication is left to the operator                                *)
(*   5  GrantsUntouched                                                    *)
(*   6  the publication, the slot and the subscription are in status       *)
(*   7  so are the login, its Secret and its membership: Accounted and     *)
(*      NothingLeft                                                        *)
(*   8  the fingerprint in status can be trusted: Converged and            *)
(*      SupersededUnused                                                   *)
(*   9  all of it together: a replication implements Custody               *)
(*                                                                         *)
(* Sections 4 to 8 each conjoin to the invariant before them what their    *)
(* properties need: Ownership and Names, then Granting, Objects, Ledger    *)
(* and Links.                                                              *)
(***************************************************************************)
EXTENDS Replication, TLAPS

-----------------------------------------------------------------------------
(***************************************************************************)
(* 1  The sets TypeOK is made of, and the updates that stay inside them    *)
(***************************************************************************)

SpecType == [wanted : Login, enabled : BOOLEAN, deleting : BOOLEAN, released : BOOLEAN]

SourceType ==
  [publication : Holder, role : [Login -> Holder],
   password : Password \cup {NoPassword},
   member : [Login -> {"none", "operator", "admin"}],
   slot : {"absent", "idle", "active"}]

TargetType ==
  [subscription : Holder, connection : Connection \cup {NoConnection}, enabled : BOOLEAN]

SecretsType == [generated : Password \cup {NoPassword}, provided : BOOLEAN]

\* A spec stays one when a flag of it changes.
LEMMA SetSpec ==
  ASSUME NEW s \in SpecType, NEW b \in BOOLEAN, NEW l \in Login
  PROVE  /\ [s EXCEPT !.released = b] \in SpecType
         /\ [s EXCEPT !.deleting = b] \in SpecType
         /\ [s EXCEPT !.enabled = b] \in SpecType
         /\ [s EXCEPT !.wanted = l] \in SpecType
  BY DEF SpecType

\* A pass may set a flag, mark an object, or adopt a login in its result.
LEMMA SetSeen ==
  ASSUME NEW r \in Result, NEW b \in BOOLEAN
  PROVE  [r EXCEPT !.seen = b] \in Result
  BY DEF Result

LEMMA SetGranted ==
  ASSUME NEW r \in Result, NEW b \in BOOLEAN
  PROVE  [r EXCEPT !.granted = b] \in Result
  BY DEF Result

LEMMA SetCreated ==
  ASSUME NEW r \in Result, NEW o \in Object, NEW m \in Mark
  PROVE  [r EXCEPT !.created[o] = m] \in Result
  BY DEF Result

LEMMA SetPassword ==
  ASSUME NEW r \in Result, NEW s \in Password \cup {NoPassword}, NEW p \in Password
  PROVE  [r EXCEPT !.stored = s, !.password = p] \in Result
  BY DEF Result

LEMMA SetLogin ==
  ASSUME NEW r \in Result, NEW l \in Login
  PROVE  [r EXCEPT !.login = l] \in Result
  BY DEF Result

LEMMA SetCredentials ==
  ASSUME NEW r \in Result, NEW l \in Login, NEW b \in BOOLEAN
  PROVE  [r EXCEPT !.credentials = l, !.granted = b] \in Result
  BY DEF Result

LEMMA Adopted ==
  ASSUME NEW r \in Result, NEW b \in BOOLEAN
  PROVE  [r EXCEPT !.login = "provided", !.credentials = "provided",
                   !.password = ProvidedPassword, !.granted = b,
                   !.created["login"] = "no", !.created["secret"] = "no"] \in Result
  BY DEF Result, Login, Object, Mark

LEMMA NoStatusType == NoStatus \in Status
  BY DEF NoStatus, Status, NoConnection, Mark

LEMMA NewResultType ==
  ASSUME NEW st \in Status
  PROVE  NewResult(st) \in Result
  BY DEF Status, NewResult, Result

\* The JSON merge patch keeps status a status.
LEMMA MergeType ==
  ASSUME NEW a \in [Object -> Mark], NEW b \in [Object -> Mark]
  PROVE  Merge(a, b) \in [Object -> Mark]
  BY DEF Merge

LEMMA RecordedType ==
  ASSUME status \in Status, NEW r \in Result
  PROVE  Recorded(r) \in Status
<1>1. Merge(status.created, r.created) \in [Object -> Mark]
  BY MergeType DEF Status, Result
<1>2. /\ r.granted \in BOOLEAN
      /\ r.login \in Login \cup {"none"}
      /\ (IF r.credentials = "none" THEN status.credentials ELSE r.credentials)
           \in Login \cup {"none"}
  BY DEF Result, Status
<1> QED
  BY <1>1, <1>2 DEF Recorded, Status

\* Every bounded action leaves a budget.
LEMMA Spent ==
  ASSUME budget \in Budget
  PROVE  /\ budget.breaks > 0 => [budget EXCEPT !.breaks = @ - 1] \in Budget
         /\ budget.edits > 0 => [budget EXCEPT !.edits = @ - 1] \in Budget
         /\ budget.meddling > 0 => [budget EXCEPT !.meddling = @ - 1] \in Budget
  BY DEF Budget

LEMMA RemoveLoginType ==
  ASSUME source \in SourceType, NEW login, NEW made, NEW granted,
         RemoveLogin(login, made, granted)
  PROVE  source' \in SourceType
<1> DEFINE gone == [source EXCEPT !.role[login] = "absent", !.member[login] = "none",
                                  !.password = IF login = "generated" THEN NoPassword ELSE @]
           revoked == [source EXCEPT !.member[login] = "none"]
<1>1. gone \in SourceType
  BY DEF SourceType, Holder
<1>2. revoked \in SourceType
  BY DEF SourceType
<1>3. source' \in {source, gone, revoked}
  BY Zenon DEF RemoveLogin
<1> QED
  BY <1>1, <1>2, <1>3

LEMMA RemoveSecretType ==
  ASSUME secrets \in SecretsType, NEW owner, RemoveSecret(owner)
  PROVE  secrets' \in SecretsType
  BY DEF SecretsType, RemoveSecret

-----------------------------------------------------------------------------
(***************************************************************************)
(* 2  Type correctness.  TypeOK alone is not inductive: a role must not be *)
(* created with "no password", nor a subscription log in as "none", so the *)
(* strengthening says from which step on a pass has which of them.         *)
(***************************************************************************)

LoginInHand ==
  {"grant", "recordLogin", "tables", "slot", "recordSlot", "createSubscription",
   "commentSubscription", "recordSubscription", "setConnection", "setEnabled", "refresh",
   "dropSuperseded", "deleteSuperseded", "publish"}

ResultFits ==
  /\ pc \in {"createRole", "commentRole", "applySecret"} => result.password \in Password
  /\ pc = "applySecret" => result.login = "generated"
  /\ pc \in LoginInHand =>
       result.login \in Login /\ result.password \in Password \cup {ProvidedPassword}

Typed == TypeOK /\ ResultFits

LEMMA InitTyped == Init => Typed
<1> SUFFICES ASSUME Init PROVE Typed
  OBVIOUS
<1>1. body \in Body /\ status \in Status /\ result \in Result
  BY NoStatusType, NewResultType DEF Init, Body, Login
<1>2. \A n \in Name : HolderOf(n) \subseteq Holder
  BY DEF HolderOf, Holder
<1>3. source \in SourceType
  <2>1. PICK p \in HolderOf("publication"), r \in HolderOf("login"), s \in HolderOf("slot") :
          source = [publication |-> p,
                    role |-> [l \in Login |-> IF l = "generated" THEN r ELSE "foreign"],
                    password |-> NoPassword, member |-> [l \in Login |-> "none"],
                    slot |-> IF s = "foreign" THEN "active" ELSE "absent"]
    BY DEF Init
  <2>2. p \in Holder /\ r \in Holder
    BY <1>2 DEF Name
  <2> QED
    BY <2>1, <2>2 DEF SourceType, Holder
<1>4. target \in TargetType
  BY <1>2 DEF Init, TargetType, Name
<1>5. ResultFits
  BY DEF Init, ResultFits, LoginInHand
<1>6. spec \in SpecType
  BY DEF Init, SpecType
<1>7. budget \in Budget
  BY BudgetsAreBudgets DEF Init
<1> QED
  BY <1>1, <1>3, <1>4, <1>5, <1>6, <1>7 DEF Init, Typed, TypeOK, SpecType, SourceType,
     TargetType

LEMMA PassTyped ==
  ASSUME Typed, Pass
  PROVE  Typed'
<1> USE DEF Typed
<1>a. /\ source \in SourceType /\ target \in TargetType /\ secrets \in SecretsType
      /\ result \in Result /\ status \in Status /\ body \in Body
  BY DEF TypeOK, SourceType, TargetType, SecretsType
<1>b. /\ \A o \in Object : Marked(o) \in Result
      /\ Recorded(result) \in Status
      /\ \A l \in Login : Inherited(l) \in BOOLEAN
  BY <1>a, SetCreated, RecordedType DEF Marked, Inherited, Mark, Result
<1>1. CASE Inspect
  <2>1. result' \in Result
    BY <1>1, <1>a, SetSeen DEF Inspect
  <2> QED
    BY <1>1, <2>1 DEF Inspect, Step, TypeOK, ResultFits, LoginInHand, PassStep
<1>2. CASE EnsurePublication
  <2>1. result' \in Result
    BY <1>2, <1>b DEF EnsurePublication, Object
  <2>2. source' \in SourceType
    BY <1>2, <1>a DEF EnsurePublication, SourceType, Holder
  <2> QED
    BY <1>2, <2>1, <2>2 DEF EnsurePublication, Step, TypeOK, ResultFits, LoginInHand, PassStep,
       SourceType
<1>3. CASE CommentPublication
  <2>1. source' \in SourceType
    BY <1>3, <1>a DEF CommentPublication, SourceType, Holder
  <2> QED
    BY <1>3, <2>1 DEF CommentPublication, Step, TypeOK, ResultFits, LoginInHand, PassStep,
       SourceType
<1>4. CASE RecordPublication
  BY <1>4, <1>b DEF RecordPublication, Step, TypeOK, ResultFits, LoginInHand, PassStep
<1>5. CASE AdoptProvidedLogin
  <2>1. result' \in Result
    BY <1>5, <1>a, <1>b, Adopted DEF AdoptProvidedLogin, Login
  <2>2. result'.login = "provided" /\ result'.password = ProvidedPassword
    BY <1>5, <1>a DEF AdoptProvidedLogin, Result
  <2> QED
    BY <1>5, <2>1, <2>2 DEF AdoptProvidedLogin, Step, TypeOK, ResultFits, LoginInHand, PassStep,
       Login
<1>6. CASE ReadSecret
  <2>1. PICK p \in IF secrets.generated = NoPassword THEN FreshPasswords
                   ELSE {secrets.generated} :
          result' = [result EXCEPT !.stored = secrets.generated, !.password = p]
    BY <1>6 DEF ReadSecret
  <2>2. p \in Password /\ secrets.generated \in Password \cup {NoPassword}
    BY <1>a, <2>1 DEF SecretsType, FreshPasswords
  <2>3. result' \in Result
    BY <1>a, <2>1, <2>2, SetPassword
  <2>4. result'.password \in Password
    BY <1>a, <2>1, <2>2 DEF Result
  <2> QED
    BY <1>6, <2>3, <2>4 DEF ReadSecret, Step, TypeOK, ResultFits, LoginInHand, PassStep
<1>7. CASE EnsureLoginRole
  <2> DEFINE r == [Marked("login") EXCEPT !.login = "generated"]
  <2>1. pc = "createRole" /\ result.password \in Password
    BY <1>7 DEF EnsureLoginRole, Step, ResultFits
  <2>2. r \in Result /\ r.login = "generated" /\ r.password = result.password
    <3>1. Marked("login") \in Result
      BY <1>b DEF Object
    <3>2. Marked("login").password = result.password
      BY <1>a DEF Marked, Result
    <3>3. r \in Result
      BY <3>1, SetLogin DEF Login
    <3>4. r.login = "generated" /\ r.password = Marked("login").password
      BY <3>1 DEF Result
    <3> QED
      BY <3>2, <3>3, <3>4
  <2>3. CASE source.role["generated"] = "absent"
    <3>1. source' \in SourceType
      <4>1. source' = [source EXCEPT !.role["generated"] = "bare",
                                     !.password = result.password]
        BY <1>7, <2>3 DEF EnsureLoginRole
      <4> QED
        BY <1>a, <2>1, <4>1 DEF SourceType, Holder
    <3> QED
      BY <1>7, <2>1, <2>3, <3>1 DEF EnsureLoginRole, Step, TypeOK, ResultFits, LoginInHand,
         PassStep, SourceType
  <2>4. CASE source.role["generated"] # "absent"
    <3>1. source' \in SourceType
      BY <1>7, <1>a, <2>1, <2>4 DEF EnsureLoginRole, SourceType
    <3>2. result' = r
      BY <1>7, <2>4 DEF EnsureLoginRole
    <3> HIDE DEF r
    <3> QED
      BY <1>7, <2>1, <2>2, <2>4, <3>1, <3>2 DEF EnsureLoginRole, Step, TypeOK, ResultFits,
         LoginInHand, PassStep, SourceType
  <2> QED
    BY <2>3, <2>4
<1>8. CASE CommentRole
  <2> DEFINE r == [Marked("login") EXCEPT !.login = "generated"]
  <2>1. pc = "commentRole" /\ result.password \in Password /\ result' = r
    BY <1>8 DEF CommentRole, Step, ResultFits
  <2>2. Marked("login") \in Result
    BY <1>b DEF Object
  <2>3. Marked("login").password = result.password
    BY <1>a DEF Marked, Result
  <2>4. r \in Result
    BY <2>2, SetLogin DEF Login
  <2>5. r.login = "generated" /\ r.password = Marked("login").password
    BY <2>2 DEF Result
  <2>6. source' \in SourceType
    BY <1>8, <1>a DEF CommentRole, SourceType, Holder
  <2> HIDE DEF r
  <2> QED
    BY <1>8, <2>1, <2>3, <2>4, <2>5, <2>6 DEF CommentRole, Step, TypeOK, ResultFits,
       LoginInHand, PassStep, SourceType
<1>9. CASE ApplySecret
  <2> DEFINE g == Inherited("generated")
             r == [Marked("secret") EXCEPT !.credentials = "generated", !.granted = g]
  <2>1. /\ pc = "applySecret" /\ result.password \in Password /\ result.login = "generated"
        /\ result' = r
    BY <1>9 DEF ApplySecret, Step, ResultFits
  <2>2. Marked("secret") \in Result /\ g \in BOOLEAN
    BY <1>b DEF Object, Login
  <2>3. Marked("secret").password = result.password /\ Marked("secret").login = result.login
    BY <1>a DEF Marked, Result
  <2> HIDE DEF g
  <2>4. r \in Result
    BY <2>2, SetCredentials DEF Login
  <2>5. r.login = Marked("secret").login /\ r.password = Marked("secret").password
    BY <2>2 DEF Result
  <2>6. secrets' \in SecretsType
    BY <1>9, <1>a, <2>1 DEF ApplySecret, SecretsType
  <2> HIDE DEF r
  <2> QED
    BY <1>9, <2>1, <2>3, <2>4, <2>5, <2>6 DEF ApplySecret, Step, TypeOK, ResultFits,
       LoginInHand, PassStep, SecretsType, Login
<1>10. CASE GrantReadGroup
  <2>1. pc = "grant"
    BY <1>10 DEF GrantReadGroup, Step
  <2>2. PICK b \in BOOLEAN : result' = [result EXCEPT !.granted = b]
    BY <1>10, <1>a, Zenon DEF GrantReadGroup
  <2>3. result' \in Result /\ result'.login = result.login /\ result'.password = result.password
    BY <1>a, <2>2, SetGranted DEF Result
  <2>4. source' \in SourceType
    BY <1>10, <1>a DEF GrantReadGroup, SourceType
  <2>5. pc' \in {"recordLogin", "tables"}
    BY <1>10 DEF GrantReadGroup, Step
  <2> QED
    BY <1>10, <2>1, <2>3, <2>4, <2>5 DEF GrantReadGroup, Step, TypeOK, ResultFits, LoginInHand,
       PassStep, SourceType
<1>11. CASE RecordLogin
  BY <1>11, <1>b DEF RecordLogin, Step, TypeOK, ResultFits, LoginInHand, PassStep
<1>12. CASE ConvergeTables
  BY <1>12 DEF ConvergeTables, Step, TypeOK, ResultFits, LoginInHand, PassStep
<1>13. CASE EnsureSlot
  <2>1. result' \in Result
    BY <1>13, <1>b DEF EnsureSlot, Object
  <2>2. result'.login = result.login /\ result'.password = result.password
    BY <1>13, <1>a DEF EnsureSlot, Marked, Result
  <2>3. source' \in SourceType
    BY <1>13, <1>a DEF EnsureSlot, SourceType
  <2> QED
    BY <1>13, <2>1, <2>2, <2>3 DEF EnsureSlot, Step, TypeOK, ResultFits, LoginInHand, PassStep,
       SourceType
<1>14. CASE RecordSlot
  BY <1>14, <1>b DEF RecordSlot, Step, TypeOK, ResultFits, LoginInHand, PassStep
<1>15. CASE CreateSubscription
  <2>1. ConnectionOf(result) \in Connection
    BY <1>15 DEF CreateSubscription, Step, ResultFits, LoginInHand, ConnectionOf, Connection
  <2>2. target' \in TargetType
    BY <1>15, <1>a, <2>1 DEF CreateSubscription, TargetType, Holder, Body
  <2> QED
    BY <1>15, <2>2 DEF CreateSubscription, Step, TypeOK, ResultFits, LoginInHand, PassStep,
       TargetType
<1>16. CASE CommentSubscription
  <2>1. result' \in Result
    BY <1>16, <1>b DEF CommentSubscription, Object
  <2>2. result'.login = result.login /\ result'.password = result.password
    BY <1>16, <1>a DEF CommentSubscription, Marked, Result
  <2>3. target' \in TargetType
    BY <1>16, <1>a DEF CommentSubscription, TargetType, Holder
  <2> QED
    BY <1>16, <2>1, <2>2, <2>3 DEF CommentSubscription, Step, TypeOK, ResultFits, LoginInHand,
       PassStep, TargetType
<1>17. CASE RecordSubscription
  BY <1>17, <1>b DEF RecordSubscription, Step, TypeOK, ResultFits, LoginInHand, PassStep
<1>18. CASE SetConnection
  <2>1. ConnectionOf(result) \in Connection
    BY <1>18 DEF SetConnection, Step, ResultFits, LoginInHand, ConnectionOf, Connection
  <2>2. target' \in TargetType
    BY <1>18, <1>a, <2>1 DEF SetConnection, TargetType
  <2>3. result' \in Result
    BY <1>18, <1>b DEF SetConnection, Object
  <2>4. result'.login = result.login /\ result'.password = result.password
    BY <1>18, <1>a DEF SetConnection, Marked, Result
  <2> QED
    BY <1>18, <2>2, <2>3, <2>4 DEF SetConnection, Step, TypeOK, ResultFits, LoginInHand,
       PassStep, TargetType
<1>19. CASE SetEnabled
  <2>1. target' \in TargetType
    BY <1>19, <1>a DEF SetEnabled, TargetType, Body
  <2> QED
    BY <1>19, <2>1 DEF SetEnabled, Step, TypeOK, ResultFits, LoginInHand, PassStep, TargetType
<1>20. CASE Refresh
  BY <1>20 DEF Refresh, Step, TypeOK, ResultFits, LoginInHand, PassStep
<1>21. CASE DropSupersededLogin
  <2>1. source' \in SourceType
    BY <1>21, <1>a, RemoveLoginType DEF DropSupersededLogin
  <2> QED
    BY <1>21, <2>1 DEF DropSupersededLogin, Step, TypeOK, ResultFits, LoginInHand, PassStep,
       SourceType
<1>22. CASE DeleteSupersededSecret
  <2>1. secrets' \in SecretsType
    BY <1>22, <1>a, RemoveSecretType DEF DeleteSupersededSecret
  <2> QED
    BY <1>22, <2>1 DEF DeleteSupersededSecret, Step, TypeOK, ResultFits, LoginInHand, PassStep,
       SecretsType
<1>23. CASE Publish
  <2>1. ConnectionOf(result) \in Connection
    BY <1>23 DEF Publish, ResultFits, LoginInHand, ConnectionOf, Connection
  <2>2. status' \in Status
    BY <1>23, <1>b, <2>1 DEF Publish, Status
  <2>3. result' \in Result
    BY <1>23, NoStatusType, NewResultType DEF Publish, Idle
  <2> QED
    BY <1>23, <2>2, <2>3 DEF Publish, Idle, TypeOK, ResultFits, LoginInHand
<1>24. CASE Refuse
  <2>1. result' \in Result
    BY <1>24, NoStatusType, NewResultType DEF Refuse, Idle
  <2> QED
    BY <1>24, <2>1 DEF Refuse, Idle, TypeOK, ResultFits, LoginInHand
<1> QED
  BY <1>1, <1>2, <1>3, <1>4, <1>5, <1>6, <1>7, <1>8, <1>9, <1>10, <1>11, <1>12, <1>13, <1>14,
     <1>15, <1>16, <1>17, <1>18, <1>19, <1>20, <1>21, <1>22, <1>23, <1>24 DEF Pass

LEMMA StartTyped ==
  ASSUME Typed, StartPass \/ StartTeardown \/ StartQueued
  PROVE  Typed'
<1> USE DEF Typed
<1>1. Snapshot \in Body /\ queued \subseteq Body /\ spec \in SpecType
  BY DEF TypeOK, Snapshot, Body, SpecType
<1>2. ASSUME NEW b \in Body, BeginPass(b), queued' \in {queued, {}}
      PROVE  Typed'
  <2>1. result' \in Result
    BY <1>2, NewResultType DEF BeginPass, Body
  <2> QED
    BY <1>2, <2>1, <1>1 DEF BeginPass, TypeOK, ResultFits, LoginInHand, PassStep
<1>3. ASSUME NEW b \in Body, BeginTeardown(b), queued' \in {queued, {}}
      PROVE  Typed'
  <2>1. result' \in Result
    BY <1>3, NoStatusType, NewResultType DEF BeginTeardown
  <2>2. /\ spec' \in {spec, [spec EXCEPT !.released = TRUE]}
        /\ pc' \in {"idle", "dropSubscription"}
    BY <1>3, Zenon DEF BeginTeardown
  <2>3. spec' \in SpecType
    BY <1>1, <2>2, SetSpec DEF Login
  <2> QED
    BY <1>3, <2>1, <2>2, <2>3, <1>1 DEF BeginTeardown, TypeOK, ResultFits, LoginInHand,
       TeardownStep, SpecType
<1>4. CASE StartPass
  BY <1>1, <1>2, <1>4 DEF StartPass
<1>5. CASE StartTeardown
  BY <1>1, <1>3, <1>5 DEF StartTeardown
<1>6. CASE StartQueued
  BY <1>1, <1>2, <1>3, <1>6 DEF StartQueued
<1> QED
  BY <1>4, <1>5, <1>6

LEMMA TeardownTyped ==
  ASSUME Typed, Teardown \/ TargetUnreachable \/ SourceUnreachable \/ Abandon
         \/ ResetLoginPassword
  PROVE  Typed'
<1> USE DEF Typed
<1>a. /\ source \in SourceType /\ target \in TargetType /\ secrets \in SecretsType
      /\ spec \in SpecType
  BY DEF TypeOK, SourceType, TargetType, SecretsType, SpecType
<1>1. CASE DropSubscription
  <2> DEFINE none == [subscription |-> "absent", connection |-> NoConnection,
                      enabled |-> FALSE]
  <2>1. target' \in TargetType
    <3>1. target' \in {target, none}
      BY <1>1, Zenon DEF DropSubscription
    <3>2. none \in TargetType
      BY DEF TargetType, Holder
    <3> QED
      BY <3>1, <3>2, <1>a
  <2>2. source' \in SourceType
    BY <1>1, <1>a DEF DropSubscription, SourceType
  <2> QED
    BY <1>1, <2>1, <2>2 DEF DropSubscription, Step, TypeOK, ResultFits, LoginInHand,
       TeardownStep, SourceType, TargetType
<1>2. CASE SourceGone
  BY <1>2 DEF SourceGone, Step, TypeOK, ResultFits, LoginInHand, TeardownStep
<1>3. CASE EndWalsender
  <2>1. source' \in SourceType
    BY <1>3, <1>a DEF EndWalsender, SourceType
  <2> QED
    BY <1>3, <2>1 DEF EndWalsender, TypeOK, ResultFits, SourceType
<1>4. CASE DropSlot
  <2>1. source' \in SourceType
    BY <1>4, <1>a DEF DropSlot, SourceType
  <2> QED
    BY <1>4, <2>1 DEF DropSlot, Step, TypeOK, ResultFits, LoginInHand, TeardownStep, SourceType
<1>5. CASE DropPublication
  <2>1. source' \in SourceType
    BY <1>5, <1>a DEF DropPublication, SourceType, Holder
  <2> QED
    BY <1>5, <2>1 DEF DropPublication, Step, TypeOK, ResultFits, LoginInHand, TeardownStep,
       SourceType
<1>6. CASE DropLogin
  <2>1. source' \in SourceType
    BY <1>6, <1>a, RemoveLoginType DEF DropLogin
  <2> QED
    BY <1>6, <2>1 DEF DropLogin, Step, TypeOK, ResultFits, LoginInHand, TeardownStep, SourceType
<1>7. CASE DeleteSecret
  <2>1. secrets' \in SecretsType
    BY <1>7, <1>a, RemoveSecretType DEF DeleteSecret
  <2> QED
    BY <1>7, <2>1 DEF DeleteSecret, Step, TypeOK, ResultFits, LoginInHand, TeardownStep,
       SecretsType
<1>8. CASE Finish
  <2>1. result' \in Result
    BY <1>8, NoStatusType, NewResultType DEF Finish, Idle
  <2>2. spec' \in SpecType
    BY <1>8, <1>a, SetSpec DEF Finish, Login
  <2>3. outcome' \in {"none", "ok", "failed"}
    BY <1>8 DEF Finish, Idle
  <2> QED
    BY <1>8, <2>1, <2>2, <2>3 DEF Finish, Idle, TypeOK, ResultFits, LoginInHand, SpecType
<1>9. ASSUME NEW side \in Side, NEW step, NEW next \in {"dropSlot", "finish"},
             Unreachable(side, step, next)
      PROVE  Typed'
  <2>1. budget' \in Budget
    BY <1>9, Spent DEF Unreachable, TypeOK
  <2> QED
    BY <1>9, <2>1 DEF Unreachable, TypeOK, ResultFits, LoginInHand, TeardownStep
<1>10. CASE TargetUnreachable
  BY <1>9, <1>10 DEF TargetUnreachable, Side
<1>11. CASE SourceUnreachable
  BY <1>9, <1>11 DEF SourceUnreachable, Side
<1>12. CASE ResetLoginPassword
  <2>1. source' \in SourceType
    BY <1>12, <1>a DEF ResetLoginPassword, SourceType, FreshPasswords
  <2> QED
    BY <1>12, <2>1 DEF ResetLoginPassword, TypeOK, ResultFits, SourceType
<1>13. CASE Abandon
  <2>1. result' \in Result
    BY <1>13, NoStatusType, NewResultType DEF Abandon, Idle
  <2>2. spec' \in SpecType
    BY <1>13, <1>a, SetSpec DEF Abandon, Login
  <2>3. outcome' = "failed"
    BY <1>13 DEF Abandon, Idle
  <2>4. budget' \in Budget
    BY <1>13, Spent DEF Abandon, Idle, TypeOK
  <2> QED
    BY <1>13, <2>1, <2>2, <2>3, <2>4 DEF Abandon, Idle, TypeOK, ResultFits, LoginInHand,
       SpecType
<1> QED
  BY <1>1, <1>2, <1>3, <1>4, <1>5, <1>6, <1>7, <1>8, <1>10, <1>11, <1>12, <1>13 DEF Teardown

LEMMA EnvironmentTyped ==
  ASSUME Typed,
         \/ QueueHandler \/ Break \/ Edit \/ Delete \/ WorkerConnects \/ WorkerStops
         \/ Meddle \/ UNCHANGED vars
  PROVE  Typed'
<1> USE DEF Typed
<1>a. /\ source \in SourceType /\ target \in TargetType /\ secrets \in SecretsType
      /\ spec \in SpecType
  BY DEF TypeOK, SourceType, TargetType, SecretsType, SpecType
<1>1. CASE QueueHandler
  <2>1. Snapshot \in Body
    BY DEF TypeOK, Snapshot, Body
  <2> QED
    BY <1>1, <2>1 DEF QueueHandler, TypeOK, ResultFits
<1>2. CASE Break
  <2>1. result' \in Result
    BY <1>2, NoStatusType, NewResultType DEF Break, Idle
  <2>2. budget' \in Budget
    BY <1>2, Spent DEF Break, Idle, TypeOK
  <2> QED
    BY <1>2, <2>1, <2>2 DEF Break, Idle, TypeOK, ResultFits, LoginInHand
<1>3. CASE Edit
  <2>1. \/ spec' = [spec EXCEPT !.enabled = ~spec.enabled]
        \/ \E l \in Login : spec' = [spec EXCEPT !.wanted = l]
    BY <1>3 DEF Edit
  <2>2. (~spec.enabled) \in BOOLEAN
    OBVIOUS
  <2>3. spec' \in SpecType
    BY <1>a, <2>1, <2>2, SetSpec DEF Login
  <2>4. budget' \in Budget
    BY <1>3, Spent DEF Edit, TypeOK
  <2> QED
    BY <1>3, <2>3, <2>4 DEF Edit, TypeOK, ResultFits, SpecType
<1>4. CASE Delete
  <2>1. spec' \in SpecType
    BY <1>4, <1>a, SetSpec DEF Delete, Login
  <2> QED
    BY <1>4, <2>1 DEF Delete, TypeOK, ResultFits, SpecType
<1>5. CASE WorkerConnects
  <2>1. source' \in SourceType
    BY <1>5, <1>a DEF WorkerConnects, SourceType
  <2> QED
    BY <1>5, <2>1 DEF WorkerConnects, TypeOK, ResultFits, SourceType
<1>6. CASE WorkerStops
  <2>1. source' \in SourceType
    BY <1>6, <1>a DEF WorkerStops, SourceType
  <2> QED
    BY <1>6, <2>1 DEF WorkerStops, TypeOK, ResultFits, SourceType
<1>7. CASE Meddle
  <2>1. source' \in SourceType
    BY <1>7, <1>a DEF Meddle, SourceType, Holder
  <2>2. secrets' \in SecretsType /\ instances' \subseteq Side
    BY <1>7, <1>a DEF Meddle, SecretsType, TypeOK
  <2>3. budget' \in Budget
    BY <1>7, Spent DEF Meddle, TypeOK
  <2> QED
    BY <1>7, <2>1, <2>2, <2>3 DEF Meddle, TypeOK, ResultFits, SourceType, SecretsType
<1>8. CASE UNCHANGED vars
  BY <1>8 DEF vars, TypeOK, ResultFits
<1> QED
  BY <1>1, <1>2, <1>3, <1>4, <1>5, <1>6, <1>7, <1>8

LEMMA NextTyped == Typed /\ [Next]_vars => Typed'
  BY PassTyped, StartTyped, TeardownTyped, EnvironmentTyped DEF Next, Operator, Environment, Gone

\* Every variable keeps its type whatever fails, overlaps or is meddled with.
THEOREM TypeCorrect == Spec => []TypeOK
<1>1. Typed => TypeOK
  BY DEF Typed
<1> QED
  BY InitTyped, NextTyped, <1>1, PTL DEF Spec

-----------------------------------------------------------------------------
(***************************************************************************)
(* 3  Whose objects they are.  CredentialsMatch is about status alone, but *)
(* status is written from a result that was begun from the body: the       *)
(* induction follows the two flags and the two names through all three.    *)
(* It needs a body no pass has overtaken, so it assumes that no handler    *)
(* queues behind another with an old one (~Overlap); with one, and a DBA   *)
(* who drops the publication, TLC finds a behaviour in which status names  *)
(* the user's Secret as the operator's.                                    *)
(***************************************************************************)

\* The steps before a pass has touched the login.
Early == {"inspect", "publication", "commentPublication", "recordPublication", "login"}

\* What the result of a running pass can be recorded as.
ResultMatches ==
  /\ pc \in Early =>
       /\ result.login = "none" /\ result.credentials = "none"
       /\ result.created["secret"] = body.status.created["secret"]
       /\ status.credentials = body.status.credentials
  /\ pc \in LoginInHand =>
       /\ result.credentials = result.login
       /\ result.login = "provided" =>
            result.created["login"] = "no" /\ result.created["secret"] = "no"

\* What is marked as made is not somebody else's.
Owns(created) ==
  /\ created["subscription"] = "yes" => target.subscription # "foreign"
  /\ created["publication"] = "yes" => source.publication # "foreign"
  /\ created["login"] = "yes" => source.role["generated"] # "foreign"

\* A pass that got past its inspection works on names that were free or its own.
PassOwns ==
  /\ pc \in PassStep \ {"inspect"} =>
       /\ target.subscription # "foreign" /\ source.publication # "foreign"
       /\ body.wanted = "generated" => source.role["generated"] # "foreign"
  /\ pc \in {"createRole", "commentRole", "applySecret"} => body.wanted = "generated"

\* The login and the Secret the user provides are there.
ProvidedStand == source.role["provided"] = "foreign" /\ secrets.provided

\* All a step needs to leave others alone: the names the handler's body gives, and
\* what the pass has still to write.
Guarded ==
  /\ Typed
  /\ NamesWhatItMade(body.status) /\ Owns(body.status.created)
  /\ PassOwns

Ownership ==
  /\ Guarded
  /\ queued = {}
  /\ CredentialsMatch
  /\ ResultMatches
  /\ Owns(status.created) /\ Owns(result.created)
  /\ ProvidedStand

LEMMA RecordedFields ==
  ASSUME status \in Status, NEW r \in Result
  PROVE  /\ \A o \in Object : Recorded(r).created[o] =
              IF r.created[o] = "unset" THEN status.created[o] ELSE r.created[o]
         /\ Recorded(r).login = r.login
         /\ Recorded(r).credentials =
              IF r.credentials = "none" THEN status.credentials ELSE r.credentials
  BY DEF Recorded, Merge, Status, Result

\* Marking one object leaves the rest of the result as it was.
LEMMA MarkedFields ==
  ASSUME NEW o \in Object, result \in Result
  PROVE  /\ Marked(o).created[o] = "yes"
         /\ \A other \in Object \ {o} : Marked(o).created[other] = result.created[other]
         /\ Marked(o).login = result.login
         /\ Marked(o).credentials = result.credentials
  BY DEF Marked, Result

\* Adopting a provided login clears both flags and touches no other.
LEMMA AdoptedFields ==
  ASSUME result \in Result, AdoptProvidedLogin
  PROVE  /\ result'.login = "provided" /\ result'.credentials = "provided"
         /\ result'.created["login"] = "no" /\ result'.created["secret"] = "no"
         /\ \A o \in {"publication", "slot", "subscription"} :
              result'.created[o] = result.created[o]
<1> DEFINE g == Inherited("provided")
           r == [result EXCEPT !.login = "provided", !.credentials = "provided",
                               !.password = ProvidedPassword, !.granted = g,
                               !.created["login"] = "no", !.created["secret"] = "no"]
<1>1. result' = r
  BY DEF AdoptProvidedLogin
<1> HIDE DEF g
<1>2. result.created \in [Object -> Mark]
  BY DEF Result
<1>3. r.created = [result.created EXCEPT !["login"] = "no", !["secret"] = "no"]
  BY DEF Result
<1>4. r.login = "provided" /\ r.credentials = "provided"
  BY DEF Result
<1> HIDE DEF r
<1> QED
  BY <1>1, <1>2, <1>3, <1>4 DEF Object

\* What every action of a pass that only records does to status.
LEMMA RecordOwned ==
  ASSUME Ownership, pc \in Early \cup LoginInHand
  PROVE  NamesWhatItMade(Recorded(result)) /\ Owns(Recorded(result).created)
<1>1. status \in Status /\ result \in Result /\ body \in Body
  BY DEF Ownership, Guarded, Typed, TypeOK
<1>2. /\ \A o \in {"login", "secret", "publication", "subscription"} :
           Recorded(result).created[o] =
             IF result.created[o] = "unset" THEN status.created[o] ELSE result.created[o]
      /\ Recorded(result).login = result.login
      /\ Recorded(result).credentials =
           IF result.credentials = "none" THEN status.credentials ELSE result.credentials
  BY <1>1, RecordedFields DEF Object
<1>3. Owns(Recorded(result).created)
  <2>1. \A o \in {"login", "publication", "subscription"} :
          Recorded(result).created[o] = "yes" =>
            result.created[o] = "yes" \/ status.created[o] = "yes"
    BY <1>2
  <2>2. Owns(status.created) /\ Owns(result.created)
    BY DEF Ownership, Guarded
  <2> QED
    BY <2>1, <2>2 DEF Owns
<1>4. CASE pc \in Early
  <2>1. /\ result.login = "none" /\ result.credentials = "none"
        /\ result.created["secret"] = body.status.created["secret"]
        /\ status.credentials = body.status.credentials
    BY <1>4 DEF Ownership, Guarded, ResultMatches
  <2>2. /\ status.created["secret"] = "yes" => status.credentials = "generated"
        /\ body.status.created["secret"] = "yes" => body.status.credentials = "generated"
    BY DEF Ownership, Guarded, CredentialsMatch, NamesWhatItMade
  <2>3. Recorded(result).login = "none" /\ Recorded(result).credentials = status.credentials
    BY <1>2, <2>1
  <2>4. Recorded(result).created["secret"] = "yes" => status.credentials = "generated"
    BY <1>2, <2>1, <2>2
  <2> QED
    BY <1>3, <2>3, <2>4 DEF NamesWhatItMade
<1>5. CASE pc \in LoginInHand
  <2>1. result.login \in {"generated", "provided"} /\ result.credentials = result.login
    BY <1>5 DEF Ownership, Guarded, Typed, ResultFits, ResultMatches, Login
  <2>2. result.login = "provided" =>
          result.created["login"] = "no" /\ result.created["secret"] = "no"
    BY <1>5 DEF Ownership, Guarded, ResultMatches
  <2>3. Recorded(result).login = result.login /\ Recorded(result).credentials = result.login
    BY <1>2, <2>1
  <2>4. result.login = "provided" =>
          Recorded(result).created["login"] = "no" /\ Recorded(result).created["secret"] = "no"
    BY <1>2, <2>2
  <2> QED
    BY <1>3, <2>1, <2>3, <2>4 DEF NamesWhatItMade
<1> QED
  BY <1>4, <1>5

\* Nothing becomes somebody else's.
NoNewForeign ==
  /\ target'.subscription = "foreign" => target.subscription = "foreign"
  /\ source'.publication = "foreign" => source.publication = "foreign"
  /\ source'.role["generated"] = "foreign" => source.role["generated"] = "foreign"

Respects == LeavesOthersAlone /\ NoNewForeign

\* What is gone, or was not made, is not taken from anyone.
LEMMA RemoveLoginRespects ==
  ASSUME source \in SourceType, UNCHANGED <<target, secrets>>,
         NEW login, NEW made \in BOOLEAN, NEW granted \in BOOLEAN,
         login \in Login /\ made => source.role[login] # "foreign",
         RemoveLogin(login, made, granted)
  PROVE  Respects
<1>1. CASE source.role[login] = "absent"
  BY <1>1 DEF RemoveLogin, Respects, LeavesOthersAlone, NoNewForeign
<1>2. CASE source.role[login] # "absent" /\ made
  <2>1. source' = [source EXCEPT !.role[login] = "absent", !.member[login] = "none",
                     !.password = IF login = "generated" THEN NoPassword ELSE @]
    BY <1>2 DEF RemoveLogin
  <2>2. /\ source'.publication = source.publication
        /\ \A l \in Login : source'.role[l] = IF l = login THEN "absent" ELSE source.role[l]
    BY <2>1 DEF SourceType
  <2> QED
    BY <1>2, <2>2 DEF Respects, LeavesOthersAlone, NoNewForeign, Login
<1>3. CASE source.role[login] # "absent" /\ ~made
  <2>1. source' = IF granted THEN [source EXCEPT !.member[login] = "none"] ELSE source
    BY <1>3 DEF RemoveLogin
  <2>2. source'.publication = source.publication /\ source'.role = source.role
    BY <2>1 DEF SourceType
  <2> QED
    BY <2>2 DEF Respects, LeavesOthersAlone, NoNewForeign, Login
<1> QED
  BY <1>1, <1>2, <1>3

\* The login and the Secret status says were made are not the provided ones.
LEMMA MadeIsGenerated ==
  ASSUME Guarded
  PROVE  /\ body.status.created["login"] = "yes" =>
              /\ body.status.login # "provided"
              /\ source.role["generated"] # "foreign"
         /\ body.status.created["secret"] = "yes" => body.status.credentials = "generated"
  BY DEF Guarded, Owns, NamesWhatItMade

LEMMA PassRespects ==
  ASSUME Guarded, Pass
  PROVE  Respects
<1>a. /\ source \in SourceType /\ target \in TargetType /\ secrets \in SecretsType
      /\ body \in Body /\ result.login \in Login \cup {"none"}
  BY DEF Guarded, Typed, TypeOK, SourceType, TargetType, SecretsType, Result
<1>b. pc \in PassStep \ {"inspect"} =>
        /\ target.subscription # "foreign" /\ source.publication # "foreign"
        /\ body.wanted = "generated" => source.role["generated"] # "foreign"
  BY DEF Guarded, PassOwns
<1>c. pc \in {"createRole", "commentRole", "applySecret"} => body.wanted = "generated"
  BY DEF Guarded, PassOwns
<1>1. CASE UNCHANGED <<source, target, secrets>>
  BY <1>1 DEF Respects, LeavesOthersAlone, NoNewForeign
<1>2. CASE EnsurePublication
  BY <1>2, <1>a DEF EnsurePublication, Respects, LeavesOthersAlone, NoNewForeign, SourceType, Login
<1>3. CASE CommentPublication
  <2>1. source' = [source EXCEPT !.publication = "ours"] /\ pc = "commentPublication"
        /\ UNCHANGED <<target, secrets>>
    BY <1>3 DEF CommentPublication, Step
  <2> QED
    BY <2>1, <1>a, <1>b DEF PassStep, Respects, LeavesOthersAlone, NoNewForeign, SourceType, Login
<1>4. CASE EnsureLoginRole \/ CommentRole
  <2>1. pc \in {"createRole", "commentRole"} /\ UNCHANGED <<target, secrets>>
    BY <1>4 DEF EnsureLoginRole, CommentRole, Step
  <2>2. source.role["generated"] # "foreign"
    BY <1>b, <1>c, <2>1 DEF PassStep
  <2>3. /\ source'.publication = source.publication
        /\ source'.role["provided"] = source.role["provided"]
        /\ source'.role["generated"] # "foreign"
    <3>1. CASE CommentRole
      BY <1>a, <3>1 DEF CommentRole, SourceType, Login
    <3>2. CASE EnsureLoginRole /\ source.role["generated"] = "absent"
      <4>1. source' = [source EXCEPT !.role["generated"] = "bare", !.password = result.password]
        BY <3>2 DEF EnsureLoginRole
      <4> QED
        BY <1>a, <4>1 DEF SourceType, Login
    <3>3. CASE EnsureLoginRole /\ source.role["generated"] # "absent"
      <4>1. PICK p : source' = [source EXCEPT !.password = p]
        BY <3>3 DEF EnsureLoginRole
      <4> QED
        BY <1>a, <2>2, <4>1 DEF SourceType, Login
    <3> QED
      BY <1>4, <3>1, <3>2, <3>3
  <2> QED
    BY <2>1, <2>2, <2>3 DEF Respects, LeavesOthersAlone, NoNewForeign, Login
<1>5. CASE ApplySecret
  BY <1>5, <1>a DEF ApplySecret, Respects, LeavesOthersAlone, NoNewForeign, SecretsType
<1>6. CASE GrantReadGroup \/ EnsureSlot
  <2>1. UNCHANGED <<target, secrets>>
    BY <1>6 DEF GrantReadGroup, EnsureSlot
  <2>2. source'.publication = source.publication /\ source'.role = source.role
    BY <1>6, <1>a DEF GrantReadGroup, EnsureSlot, SourceType
  <2> QED
    BY <2>1, <2>2 DEF Respects, LeavesOthersAlone, NoNewForeign, Login
<1>7. CASE CreateSubscription \/ CommentSubscription \/ SetConnection \/ SetEnabled
  <2>1. target.subscription # "foreign" /\ UNCHANGED <<source, secrets>>
    BY <1>7, <1>b DEF CreateSubscription, CommentSubscription, SetConnection, SetEnabled, Step,
       PassStep
  <2>2. target'.subscription # "foreign"
    BY <1>7, <1>a, <2>1 DEF CreateSubscription, CommentSubscription, SetConnection, SetEnabled,
       TargetType
  <2> QED
    BY <2>1, <2>2 DEF Respects, LeavesOthersAlone, NoNewForeign
<1>8. CASE DropSupersededLogin
  <2> DEFINE made == body.status.created["login"] = "yes"
  <2>1. /\ RemoveLogin(body.status.login, made, body.status.granted)
        /\ UNCHANGED <<target, secrets>>
    BY <1>8 DEF DropSupersededLogin
  <2>2. body.status.granted \in BOOLEAN
    BY <1>a DEF Body, Status
  <2>3. body.status.login \in Login /\ made => source.role[body.status.login] # "foreign"
    BY MadeIsGenerated DEF Login
  <2> QED
    BY <1>a, <2>1, <2>2, <2>3, RemoveLoginRespects
<1>9. CASE DeleteSupersededSecret
  <2>1. UNCHANGED <<source, target>> /\ secrets'.provided = secrets.provided
    BY <1>9, <1>a, MadeIsGenerated DEF DeleteSupersededSecret, RemoveSecret, SecretsType
  <2> QED
    BY <2>1 DEF Respects, LeavesOthersAlone, NoNewForeign
<1> QED
  BY <1>1, <1>2, <1>3, <1>4, <1>5, <1>6, <1>7, <1>8, <1>9 DEF Pass, Inspect, RecordPublication,
     AdoptProvidedLogin, ReadSecret, RecordLogin, ConvergeTables, RecordSlot,
     RecordSubscription, Refresh, Publish, Refuse

LEMMA RestRespects ==
  ASSUME Guarded,
         \/ Teardown \/ TargetUnreachable \/ SourceUnreachable \/ Abandon
         \/ ResetLoginPassword
         \/ StartPass \/ StartTeardown \/ StartQueued \/ QueueHandler
         \/ Break \/ Edit \/ Delete \/ WorkerConnects \/ WorkerStops \/ Meddle
         \/ UNCHANGED vars
  PROVE  Respects
<1>a. /\ source \in SourceType /\ target \in TargetType /\ secrets \in SecretsType
      /\ body \in Body
  BY DEF Guarded, Typed, TypeOK, SourceType, TargetType, SecretsType
<1>1. CASE UNCHANGED <<source, target, secrets>>
  BY <1>1 DEF Respects, LeavesOthersAlone, NoNewForeign
<1>2. CASE \/ EndWalsender \/ DropSlot \/ ResetLoginPassword \/ WorkerConnects \/ WorkerStops
  <2>1. /\ UNCHANGED <<target, secrets>>
        /\ source'.publication = source.publication /\ source'.role = source.role
    BY <1>2, <1>a DEF EndWalsender, DropSlot, Step, ResetLoginPassword, WorkerConnects,
       WorkerStops, SourceType
  <2> QED
    BY <2>1 DEF Respects, LeavesOthersAlone, NoNewForeign, Login
<1>3. CASE DropSubscription
  <2>1. CASE Made("subscription") /\ "target" \in instances /\ target.subscription # "absent"
    <3>1. target.subscription # "foreign"
      BY <2>1 DEF Guarded, Owns, Made
    <3>2. PICK left \in {"absent", source.slot} : source' = [source EXCEPT !.slot = left]
      BY <1>3, <2>1, Zenon DEF DropSubscription
    <3>3. /\ target'.subscription = "absent" /\ UNCHANGED secrets
          /\ source'.publication = source.publication /\ source'.role = source.role
      BY <1>3, <1>a, <2>1, <3>2 DEF DropSubscription, SourceType
    <3> QED
      BY <3>1, <3>3 DEF Respects, LeavesOthersAlone, NoNewForeign, Login
  <2>2. CASE ~(Made("subscription") /\ "target" \in instances /\ target.subscription # "absent")
    <3>1. UNCHANGED <<source, target, secrets>>
      BY <1>3, <2>2, Zenon DEF DropSubscription
    <3> QED
      BY <1>1, <3>1
  <2> QED
    BY <2>1, <2>2
<1>4. CASE DropPublication
  <2>1. /\ UNCHANGED <<target, secrets>> /\ source'.role = source.role
        /\ source'.publication \in {source.publication, "absent"}
        /\ source'.publication # source.publication => source.publication # "foreign"
    BY <1>4, <1>a DEF DropPublication, Made, Guarded, Owns, SourceType
  <2> QED
    BY <2>1 DEF Respects, LeavesOthersAlone, NoNewForeign, Login
<1>5. CASE DropLogin
  <2>1. UNCHANGED <<target, secrets>>
    BY <1>5 DEF DropLogin
  <2>2. CASE body.status.login = "none"
    BY <1>1, <1>5, <2>1, <2>2 DEF DropLogin
  <2>3. CASE body.status.login # "none"
    <3>1. RemoveLogin(body.status.login, Made("login"), body.status.granted)
      BY <1>5, <2>3, Zenon DEF DropLogin
    <3>2. body.status.granted \in BOOLEAN /\ Made("login") \in BOOLEAN
      BY <1>a DEF Body, Status, Made
    <3>3. body.status.login \in Login /\ Made("login") =>
            source.role[body.status.login] # "foreign"
      BY MadeIsGenerated DEF Login, Made
    <3> QED
      BY <1>a, <2>1, <3>1, <3>2, <3>3, RemoveLoginRespects
  <2> QED
    BY <2>2, <2>3
<1>6. CASE DeleteSecret
  <2>1. UNCHANGED <<source, target>> /\ secrets'.provided = secrets.provided
    BY <1>6, <1>a, MadeIsGenerated DEF DeleteSecret, Made, RemoveSecret, SecretsType
  <2> QED
    BY <2>1 DEF Respects, LeavesOthersAlone, NoNewForeign
<1>7. CASE Meddle
  <2>1. UNCHANGED target
    BY <1>7 DEF Meddle
  <2>2. /\ source'.role = source.role
        /\ \/ source'.publication = source.publication
           \/ /\ source.publication = "ours"
              /\ source'.publication = "absent"
    <3>1. \/ source.publication = "ours" /\ source' = [source EXCEPT !.publication = "absent"]
          \/ source' = [source EXCEPT !.member["provided"] = "admin"]
          \/ source' = source
      BY <1>7, Zenon DEF Meddle
    <3>2. CASE source.publication = "ours" /\ source' = [source EXCEPT !.publication = "absent"]
      BY <3>2, <1>a DEF SourceType
    <3>3. CASE source' = [source EXCEPT !.member["provided"] = "admin"]
      BY <3>3, <1>a DEF SourceType
    <3> QED
      BY <3>1, <3>2, <3>3
  <2>3. secrets'.provided = secrets.provided
    BY <1>7, <1>a DEF Meddle, SecretsType
  <2> QED
    BY <2>1, <2>2, <2>3 DEF Respects, LeavesOthersAlone, NoNewForeign, Login
<1>8. UNCHANGED <<source, target, secrets>> \/ Teardown \/ ResetLoginPassword
      \/ WorkerConnects \/ WorkerStops \/ Meddle
  BY DEF TargetUnreachable, SourceUnreachable, Unreachable, Abandon, StartPass, StartTeardown,
     StartQueued, BeginPass, BeginTeardown, QueueHandler, Break, Edit, Delete, vars
<1>9. CASE SourceGone \/ Finish
  BY <1>1, <1>9 DEF SourceGone, Finish
<1> QED
  BY <1>1, <1>2, <1>3, <1>4, <1>5, <1>6, <1>7, <1>8, <1>9 DEF Teardown

\* A step that respects others leaves what is marked as made with the operator.
LEMMA OwnsKept ==
  ASSUME Respects, NEW now, Owns(now), NEW next,
         next["subscription"] = "yes" /\ now["subscription"] # "yes" =>
           target'.subscription # "foreign",
         next["publication"] = "yes" /\ now["publication"] # "yes" =>
           source'.publication # "foreign",
         next["login"] = "yes" /\ now["login"] # "yes" =>
           source'.role["generated"] # "foreign"
  PROVE  /\ next["subscription"] = "yes" => target'.subscription # "foreign"
         /\ next["publication"] = "yes" => source'.publication # "foreign"
         /\ next["login"] = "yes" => source'.role["generated"] # "foreign"
  BY DEF Respects, NoNewForeign, Owns

\* Once the login is in hand a pass marks publication, slot or subscription only.
LEMMA LoginStays ==
  ASSUME result \in Result, Pass, pc \in LoginInHand, pc' \in LoginInHand
  PROVE  /\ result'.login = result.login /\ result'.credentials = result.credentials
         /\ \A o \in {"publication", "login", "secret"} :
              result'.created[o] = result.created[o]
         /\ result'.password = result.password
<1>1. \/ result' = result
      \/ \E b \in BOOLEAN : result' = [result EXCEPT !.granted = b]
      \/ result' \in {Marked("slot"), Marked("subscription")}
  <2>1. CASE GrantReadGroup
    <3>1. \A h \in BOOLEAN : (result.granted \/ h) \in BOOLEAN
      OBVIOUS
    <3> QED
      BY <2>1, <3>1, Zenon DEF GrantReadGroup
  <2>2. CASE EnsureSlot \/ CommentSubscription \/ SetConnection
    BY <2>2 DEF EnsureSlot, CommentSubscription, SetConnection
  <2>3. \/ result' = result
        \/ GrantReadGroup \/ EnsureSlot \/ CommentSubscription \/ SetConnection
        \/ \/ Inspect \/ EnsurePublication \/ AdoptProvidedLogin \/ ReadSecret
           \/ EnsureLoginRole \/ CommentRole \/ ApplySecret \/ Publish \/ Refuse
    BY DEF Pass, CommentPublication, RecordPublication, RecordLogin, ConvergeTables,
       RecordSlot, CreateSubscription, RecordSubscription, SetEnabled, Refresh,
       DropSupersededLogin, DeleteSupersededSecret
  <2>4. ~ \/ Inspect \/ EnsurePublication \/ AdoptProvidedLogin \/ ReadSecret
          \/ EnsureLoginRole \/ CommentRole \/ ApplySecret \/ Publish \/ Refuse
    BY DEF LoginInHand, Step, Idle, Inspect, EnsurePublication, AdoptProvidedLogin,
       ReadSecret, EnsureLoginRole, CommentRole, ApplySecret, Publish, Refuse
  <2> QED
    BY <2>1, <2>2, <2>3, <2>4
<1>2. ASSUME NEW o \in Object
      PROVE  Marked(o).password = result.password
  BY DEF Marked, Result
<1> QED
  BY <1>1, <1>2, MarkedFields DEF Result, Object

\* A pass marks only what is its own, and writes only names that are.
LEMMA PassKeepsOwned ==
  ASSUME Guarded, Owns(result.created), Pass
  PROVE  Owns(result.created)' /\ PassOwns'
<1>a. Respects /\ Typed
  BY PassRespects DEF Guarded
<1>b. result \in Result
  BY <1>a DEF Typed, TypeOK
<1>c. body' = body
  BY DEF Pass, Step, Inspect, EnsurePublication, CommentPublication, RecordPublication,
     AdoptProvidedLogin, ReadSecret, EnsureLoginRole, CommentRole, ApplySecret,
     GrantReadGroup, RecordLogin, ConvergeTables, EnsureSlot, RecordSlot, CreateSubscription,
     CommentSubscription, RecordSubscription, SetConnection, SetEnabled, Refresh,
     DropSupersededLogin, DeleteSupersededSecret, Publish, Refuse
<1>e. Owns(body.status.created) /\ Owns(result.created) /\ PassOwns
  BY DEF Guarded
<1>1. Owns(result.created)'
  <2>1. CASE UNCHANGED result
    BY <1>a, <1>e, <2>1, OwnsKept DEF Owns
  <2>2. ASSUME NEW o \in Object, result'.created = Marked(o).created,
               o = "subscription" => target'.subscription # "foreign",
               o = "publication" => source'.publication # "foreign",
               o = "login" => source'.role["generated"] # "foreign"
        PROVE  Owns(result.created)'
    <3>1. \A other \in {"subscription", "publication", "login"} :
            result'.created[other] = "yes" => other = o \/ result.created[other] = "yes"
      BY <1>b, <2>2, MarkedFields DEF Object
    <3> QED
      BY <1>a, <1>e, <2>2, <3>1, OwnsKept DEF Owns
  <2>3. CASE result'.created = result.created
    BY <1>a, <1>e, <2>3, OwnsKept DEF Owns
  <2>4. CASE Inspect \/ ReadSecret \/ GrantReadGroup
    <3>1. result'.created = result.created
      BY <1>b, <2>4 DEF Inspect, ReadSecret, GrantReadGroup, Result
    <3> QED
      BY <2>3, <3>1
  <2>5. CASE AdoptProvidedLogin
    <3>1. \A o \in {"subscription", "publication", "login"} :
            result'.created[o] = "yes" => result.created[o] = "yes"
      BY <1>b, <2>5, AdoptedFields
    <3> QED
      BY <1>a, <1>e, <3>1, OwnsKept DEF Owns
  <2>6. CASE EnsurePublication \/ SetConnection \/ CommentSubscription \/ EnsureSlot
    <3>1. target.subscription # "foreign" /\ source.publication # "foreign"
      BY <1>e, <2>6 DEF PassOwns, EnsurePublication, SetConnection, CommentSubscription,
         EnsureSlot, Step, PassStep
    <3>2. target'.subscription # "foreign" /\ source'.publication # "foreign"
      BY <1>a, <3>1 DEF Respects, NoNewForeign
    <3>3. \/ result'.created = Marked("publication").created
          \/ result'.created = Marked("subscription").created
          \/ result'.created = Marked("slot").created
      BY <2>6 DEF EnsurePublication, SetConnection, CommentSubscription, EnsureSlot
    <3> QED
      BY <2>2, <3>2, <3>3 DEF Object
  <2>7. CASE EnsureLoginRole \/ CommentRole
    <3>1. source.role["generated"] # "foreign"
      BY <1>e, <2>7 DEF PassOwns, EnsureLoginRole, CommentRole, Step, PassStep
    <3>2. source'.role["generated"] # "foreign"
      BY <1>a, <3>1 DEF Respects, NoNewForeign
    <3>3. \/ result' = result
          \/ result' = [Marked("login") EXCEPT !.login = "generated"]
      BY <2>7 DEF EnsureLoginRole, CommentRole
    <3>4. Marked("login") \in Result
      BY <1>b, SetCreated DEF Marked, Object, Mark
    <3>5. [Marked("login") EXCEPT !.login = "generated"].created = Marked("login").created
      BY <3>4 DEF Result
    <3> QED
      BY <2>1, <2>2, <3>2, <3>3, <3>5 DEF Object
  <2>8. CASE ApplySecret
    <3>1. Marked("secret") \in Result
      BY <1>b, SetCreated DEF Marked, Object, Mark
    <3>2. result'.created = Marked("secret").created
      BY <2>8, <3>1 DEF ApplySecret, Result
    <3> QED
      BY <2>2, <3>2 DEF Object
  <2>9. CASE Publish \/ Refuse
    <3>1. \A o \in Object : result'.created[o] = "unset"
      BY <2>9 DEF Publish, Refuse, Idle, NewResult, NoStatus
    <3> QED
      BY <1>a, <1>e, <3>1, OwnsKept DEF Owns, Object
  <2> QED
    BY <2>1, <2>4, <2>5, <2>6, <2>7, <2>8, <2>9 DEF Pass, CommentPublication, RecordPublication,
       RecordLogin, ConvergeTables, RecordSlot, CreateSubscription, RecordSubscription,
       SetEnabled, Refresh, DropSupersededLogin, DeleteSupersededSecret
<1>2. PassOwns'
  <2>1. CASE Inspect
    <3>1. target.subscription # "foreign" /\ source.publication # "foreign"
      BY <1>e, <2>1 DEF Inspect, Refused, Owns
    <3>2. body.wanted = "generated" => source.role["generated"] # "foreign"
      BY <1>e, <2>1 DEF Inspect, Refused, Owns
    <3> QED
      BY <1>c, <2>1, <3>1, <3>2 DEF Inspect, Step, PassOwns
  <2>2. CASE pc' = "idle"
    BY <2>2 DEF PassOwns, PassStep
  <2>3. CASE pc \in PassStep \ {"inspect"} /\ pc' \in PassStep
    <3>1. /\ target'.subscription # "foreign" /\ source'.publication # "foreign"
          /\ body.wanted = "generated" => source'.role["generated"] # "foreign"
      BY <1>a, <1>e, <2>3 DEF PassOwns, Respects, NoNewForeign
    <3>2. pc' \in {"createRole", "commentRole", "applySecret"} => body.wanted = "generated"
      <4>1. CASE ReadSecret
        BY <4>1 DEF ReadSecret
      <4>2. CASE EnsureLoginRole \/ CommentRole
        BY <1>e, <4>2 DEF PassOwns, EnsureLoginRole, CommentRole, Step
      <4>3. CASE ~(ReadSecret \/ EnsureLoginRole \/ CommentRole)
        BY <4>3 DEF Pass, Step, Inspect, EnsurePublication, CommentPublication,
           RecordPublication, AdoptProvidedLogin, ApplySecret, GrantReadGroup, RecordLogin,
           ConvergeTables, EnsureSlot, RecordSlot, CreateSubscription, CommentSubscription,
           RecordSubscription, SetConnection, SetEnabled, Refresh, DropSupersededLogin,
           DeleteSupersededSecret, Publish, Refuse, Idle
      <4> QED
        BY <4>1, <4>2, <4>3
    <3> QED
      BY <1>c, <3>1, <3>2 DEF PassOwns
  <2>4. pc = "inspect" => Inspect \/ pc' = "idle"
    BY DEF Pass, Step, Inspect, EnsurePublication, CommentPublication,
       RecordPublication, AdoptProvidedLogin, ReadSecret, EnsureLoginRole, CommentRole,
       ApplySecret, GrantReadGroup,
       RecordLogin, ConvergeTables, EnsureSlot, RecordSlot, CreateSubscription,
       CommentSubscription, RecordSubscription, SetConnection, SetEnabled, Refresh,
       DropSupersededLogin, DeleteSupersededSecret, Publish, Refuse, Idle
  <2>5. pc \in PassStep /\ pc' \in PassStep \cup {"idle"}
    BY DEF Pass, PassStep, Step, Inspect, EnsurePublication, CommentPublication,
       RecordPublication, AdoptProvidedLogin, ReadSecret, EnsureLoginRole, CommentRole,
       ApplySecret, GrantReadGroup,
       RecordLogin, ConvergeTables, EnsureSlot, RecordSlot, CreateSubscription,
       CommentSubscription, RecordSubscription, SetConnection, SetEnabled, Refresh,
       DropSupersededLogin, DeleteSupersededSecret, Publish, Refuse, Idle
  <2> QED
    BY <2>1, <2>2, <2>3, <2>4, <2>5
<1> QED
  BY <1>1, <1>2

LEMMA PassKeepsOwnership ==
  ASSUME ~Overlap, Ownership, Pass
  PROVE  Ownership'
<1>a. Respects /\ Typed /\ Typed'
  BY PassRespects, NextTyped DEF Ownership, Guarded, Next, Operator
<1>b. /\ status \in Status /\ result \in Result /\ body \in Body
      /\ result' \in Result /\ status' \in Status
  BY <1>a DEF Typed, TypeOK
<1>c. body' = body /\ queued' = {}
  <2>1. queued = {}
    BY DEF Ownership, Guarded
  <2> QED
    BY <2>1 DEF Pass, Step, Inspect, EnsurePublication, CommentPublication, RecordPublication,
       AdoptProvidedLogin, ReadSecret, EnsureLoginRole, CommentRole, ApplySecret,
       GrantReadGroup, RecordLogin, ConvergeTables, EnsureSlot, RecordSlot, CreateSubscription,
       CommentSubscription, RecordSubscription, SetConnection, SetEnabled, Refresh,
       DropSupersededLogin, DeleteSupersededSecret, Publish, Refuse
<1>d. ProvidedStand'
  BY <1>a DEF Respects, LeavesOthersAlone, Ownership, ProvidedStand, Login
<1>e. /\ Owns(status.created) /\ Owns(body.status.created) /\ Owns(result.created)
      /\ CredentialsMatch /\ NamesWhatItMade(body.status) /\ ResultMatches /\ PassOwns
  BY DEF Ownership, Guarded
<1>1. NamesWhatItMade(body.status)' /\ Owns(body.status.created)'
  BY <1>a, <1>c, <1>e, OwnsKept DEF NamesWhatItMade, Owns
<1>2. CredentialsMatch' /\ Owns(status.created)'
  <2>1. CASE UNCHANGED status
    BY <1>a, <1>e, <2>1, OwnsKept DEF CredentialsMatch, NamesWhatItMade, Owns
  <2>2. ASSUME pc \in Early \cup LoginInHand, status'.created = Recorded(result).created,
               status'.login = Recorded(result).login,
               status'.credentials = Recorded(result).credentials
        PROVE  CredentialsMatch' /\ Owns(status.created)'
    <3>1. NamesWhatItMade(Recorded(result)) /\ Owns(Recorded(result).created)
      BY <2>2, RecordOwned
    <3>2. Owns(status.created)'
      BY <1>a, <2>2, <3>1, OwnsKept DEF Owns
    <3> QED
      BY <2>2, <3>1, <3>2 DEF CredentialsMatch, NamesWhatItMade
  <2>3. CASE RecordPublication \/ RecordLogin \/ RecordSlot \/ RecordSubscription
    BY <2>2, <2>3 DEF RecordPublication, RecordLogin, RecordSlot, RecordSubscription, Step,
       Early, LoginInHand
  <2>4. CASE Publish
    <3>1. /\ pc = "publish"
          /\ status' = [Recorded(result) EXCEPT !.connection = ConnectionOf(result)]
      BY <2>4 DEF Publish
    <3>2. Recorded(result) \in Status
      BY <1>b, RecordedType
    <3>3. /\ status'.created = Recorded(result).created
          /\ status'.login = Recorded(result).login
          /\ status'.credentials = Recorded(result).credentials
      BY <3>1, <3>2 DEF Status
    <3> QED
      BY <2>2, <3>1, <3>3 DEF LoginInHand
  <2> QED
    BY <2>1, <2>3, <2>4 DEF Pass, Inspect, EnsurePublication, CommentPublication,
       AdoptProvidedLogin, ReadSecret, EnsureLoginRole, CommentRole, ApplySecret,
       GrantReadGroup, ConvergeTables, EnsureSlot, CreateSubscription, CommentSubscription,
       SetConnection, SetEnabled, Refresh, DropSupersededLogin, DeleteSupersededSecret, Refuse
<1>3. Owns(result.created)' /\ PassOwns'
  BY PassKeepsOwned DEF Ownership
<1>4. ResultMatches'
  <2>1. CASE pc' \notin Early \cup LoginInHand
    BY <2>1 DEF ResultMatches
  <2>2. CASE RecordPublication
    <3>1. Recorded(result).credentials = status.credentials
      BY <1>b, <1>e, <2>2, RecordedFields DEF RecordPublication, Step, ResultMatches, Early
    <3> QED
      BY <1>c, <1>e, <2>2, <3>1 DEF RecordPublication, Step, ResultMatches, Early, LoginInHand
  <2>3. CASE Inspect \/ EnsurePublication \/ CommentPublication
    <3>1. pc \in Early /\ pc' \in Early /\ status' = status
      BY <2>3 DEF Inspect, EnsurePublication, CommentPublication, Step, Early
    <3>2. /\ result'.login = result.login /\ result'.credentials = result.credentials
          /\ result'.created["secret"] = result.created["secret"]
      BY <1>b, <2>3, MarkedFields DEF Inspect, EnsurePublication, CommentPublication, Result,
         Object
    <3> QED
      BY <1>c, <1>e, <3>1, <3>2 DEF ResultMatches, Early, LoginInHand
  <2>4. CASE AdoptProvidedLogin
    BY <1>b, <2>4, AdoptedFields DEF AdoptProvidedLogin, Step, ResultMatches, Early, LoginInHand
  <2>5. CASE ApplySecret
    <3>1. Marked("secret") \in Result /\ result.login = "generated" /\ pc' = "grant"
      BY <1>a, <1>b, <2>5, SetCreated DEF Marked, Object, Mark, Typed, ResultFits, ApplySecret,
         Step
    <3>2. result'.login = Marked("secret").login /\ result'.credentials = "generated"
      BY <2>5, <3>1 DEF ApplySecret, Result
    <3>3. Marked("secret").login = result.login
      BY <1>b, MarkedFields DEF Object
    <3> QED
      BY <3>1, <3>2, <3>3 DEF ResultMatches, Early, LoginInHand
  <2>6. CASE pc \in LoginInHand /\ pc' \in LoginInHand
    <3>1. /\ result'.login = result.login /\ result'.credentials = result.credentials
          /\ result'.created["login"] = result.created["login"]
          /\ result'.created["secret"] = result.created["secret"]
      BY <1>b, <2>6, LoginStays
    <3> QED
      BY <1>e, <2>6, <3>1 DEF ResultMatches, Early, LoginInHand
  <2> QED
    BY <2>1, <2>2, <2>3, <2>4, <2>5, <2>6 DEF Pass, Step, Early, LoginInHand, ReadSecret,
       EnsureLoginRole, CommentRole, GrantReadGroup, RecordLogin, ConvergeTables, EnsureSlot,
       RecordSlot, CreateSubscription, CommentSubscription, RecordSubscription,
       SetConnection, SetEnabled, Refresh, DropSupersededLogin, DeleteSupersededSecret,
       Publish, Refuse, Idle
<1> QED
  BY <1>a, <1>c, <1>d, <1>1, <1>2, <1>3, <1>4 DEF Ownership, Guarded

LEMMA RestKeepsOwnership ==
  ASSUME ~Overlap, Ownership,
         \/ Teardown \/ TargetUnreachable \/ SourceUnreachable \/ Abandon
         \/ ResetLoginPassword
         \/ StartPass \/ StartTeardown \/ StartQueued \/ QueueHandler
         \/ Break \/ Edit \/ Delete \/ WorkerConnects \/ WorkerStops \/ Meddle
         \/ UNCHANGED vars
  PROVE  Ownership'
<1>a. Respects /\ Typed'
  BY RestRespects, NextTyped DEF Ownership, Guarded, Next, Operator, Environment
<1>b. ProvidedStand'
  BY <1>a DEF Respects, LeavesOthersAlone, Ownership, ProvidedStand, Login
<1>c. /\ Owns(status.created) /\ Owns(body.status.created) /\ Owns(result.created)
      /\ CredentialsMatch /\ NamesWhatItMade(body.status) /\ ResultMatches /\ PassOwns
      /\ queued = {}
  BY DEF Ownership, Guarded
<1>d. \A o \in Object : NewResult(NoStatus).created[o] = "unset"
  BY DEF NewResult, NoStatus
<1>1. CASE UNCHANGED <<status, body, result, pc, queued>>
  <2>1. Owns(status.created)' /\ Owns(body.status.created)' /\ Owns(result.created)'
    BY <1>a, <1>c, <1>1, OwnsKept DEF Owns
  <2>2. PassOwns'
    BY <1>a, <1>c, <1>1 DEF PassOwns, Respects, NoNewForeign
  <2>3. CredentialsMatch' /\ NamesWhatItMade(body.status)' /\ ResultMatches' /\ queued' = {}
    BY <1>c, <1>1 DEF CredentialsMatch, NamesWhatItMade, ResultMatches
  <2> QED
    BY <1>a, <1>b, <2>1, <2>2, <2>3 DEF Ownership, Guarded
<1>2. ASSUME UNCHANGED <<status, body, queued>>, pc' \in TeardownStep \cup {"idle"},
             result' \in {result, NewResult(NoStatus)}
      PROVE  Ownership'
  <2>1. Owns(status.created)' /\ Owns(body.status.created)'
    BY <1>a, <1>c, <1>2, OwnsKept DEF Owns
  <2>2. Owns(result.created)'
    BY <1>a, <1>c, <1>d, <1>2, OwnsKept DEF Owns, Object
  <2>3. PassOwns' /\ ResultMatches'
    BY <1>2 DEF PassOwns, ResultMatches, PassStep, TeardownStep, Early, LoginInHand
  <2>4. CredentialsMatch' /\ NamesWhatItMade(body.status)' /\ queued' = {}
    BY <1>c, <1>2 DEF CredentialsMatch, NamesWhatItMade
  <2> QED
    BY <1>a, <1>b, <2>1, <2>2, <2>3, <2>4 DEF Ownership, Guarded
<1>3. ASSUME UNCHANGED <<status, queued>>, body'.status = status,
             \/ pc' = "inspect" /\ result' = NewResult(status)
             \/ pc' \in TeardownStep \cup {"idle"} /\ result' = NewResult(NoStatus)
      PROVE  Ownership'
  <2>1. Owns(status.created)' /\ Owns(body.status.created)'
    BY <1>a, <1>c, <1>3, OwnsKept DEF Owns
  <2>2. Owns(result.created)'
    <3>1. NewResult(status).created = status.created
      BY DEF NewResult
    <3> QED
      BY <1>a, <1>c, <1>d, <1>3, <3>1, OwnsKept DEF Owns, Object
  <2>3. PassOwns'
    BY <1>3 DEF PassOwns, PassStep, TeardownStep
  <2>4. ResultMatches'
    BY <1>3 DEF ResultMatches, NewResult, TeardownStep, Early, LoginInHand
  <2>5. CredentialsMatch' /\ NamesWhatItMade(body.status)' /\ queued' = {}
    BY <1>c, <1>3 DEF CredentialsMatch, NamesWhatItMade
  <2> QED
    BY <1>a, <1>b, <2>1, <2>2, <2>3, <2>4, <2>5 DEF Ownership, Guarded
<1>4. CASE StartPass \/ StartTeardown
  <2>1. UNCHANGED <<status, queued>> /\ body' = Snapshot
    BY <1>4 DEF StartPass, StartTeardown, BeginPass, BeginTeardown
  <2>2. Snapshot.status = status
    BY DEF Snapshot
  <2>3. \/ pc' = "inspect" /\ result' = NewResult(status)
        \/ pc' \in TeardownStep \cup {"idle"} /\ result' = NewResult(NoStatus)
    BY <1>4, <2>2, Zenon DEF StartPass, StartTeardown, BeginPass, BeginTeardown, TeardownStep
  <2> QED
    BY <1>3, <2>1, <2>2, <2>3
<1>5. CASE Teardown /\ ~EndWalsender
  BY <1>2, <1>5 DEF Teardown, DropSubscription, SourceGone, DropSlot, DropPublication,
     DropLogin, DeleteSecret, Finish, Step, Idle, TeardownStep
<1>6. CASE TargetUnreachable \/ SourceUnreachable \/ Abandon \/ Break
  BY <1>2, <1>6 DEF TargetUnreachable, SourceUnreachable, Unreachable, Abandon, Break, Idle,
     TeardownStep
<1>7. CASE \/ EndWalsender \/ ResetLoginPassword \/ Edit \/ Delete \/ WorkerConnects
           \/ WorkerStops \/ Meddle \/ UNCHANGED vars
  BY <1>1, <1>7 DEF EndWalsender, ResetLoginPassword, Edit, Delete, WorkerConnects,
     WorkerStops, Meddle, vars
<1>8. ~StartQueued /\ ~QueueHandler
  BY <1>c DEF StartQueued, QueueHandler
<1> QED
  BY <1>4, <1>5, <1>6, <1>7, <1>8

LEMMA InitOwned == Init => Ownership
<1> SUFFICES ASSUME Init PROVE Ownership
  OBVIOUS
<1>1. Typed
  BY InitTyped
<1>2. /\ status = NoStatus /\ body.status = NoStatus /\ result = NewResult(NoStatus)
      /\ queued = {} /\ pc = "idle" /\ secrets.provided = TRUE
  BY DEF Init
<1>3. source.role["provided"] = "foreign"
  <2>1. PICK p \in HolderOf("publication"), r \in HolderOf("login"), s \in HolderOf("slot") :
          source = [publication |-> p,
                    role |-> [l \in Login |-> IF l = "generated" THEN r ELSE "foreign"],
                    password |-> NoPassword, member |-> [l \in Login |-> "none"],
                    slot |-> IF s = "foreign" THEN "active" ELSE "absent"]
    BY Zenon DEF Init
  <2> QED
    BY <2>1 DEF Login
<1>4. Owns(status.created) /\ Owns(body.status.created) /\ Owns(result.created)
  BY <1>2 DEF Owns, NoStatus, NewResult, Object
<1>5. CredentialsMatch /\ NamesWhatItMade(body.status)
  BY <1>2 DEF CredentialsMatch, NamesWhatItMade, NoStatus, Object
<1>6. ResultMatches /\ PassOwns
  BY <1>2 DEF ResultMatches, PassOwns, Early, LoginInHand, PassStep
<1> QED
  BY <1>1, <1>2, <1>3, <1>4, <1>5, <1>6 DEF Ownership, Guarded, ProvidedStand

\* One step: the induction, and what the step leaves alone.
LEMMA NextOwned ==
  ASSUME ~Overlap, Ownership, [Next]_vars
  PROVE  Ownership' /\ LeavesOthersAlone
<1>1. Guarded
  BY DEF Ownership
<1> QED
  BY <1>1, PassKeepsOwnership, RestKeepsOwnership, PassRespects, RestRespects
     DEF Next, Operator, Environment, Gone, Respects

\* Status never names the user's login or Secret beside a flag that says the
\* operator made one (_adopt_provided_login, _record_created), whatever call of
\* which pass fails, and however often the login is swapped.
THEOREM CredentialsKept ==
  ASSUME ~Overlap
  PROVE  Spec => []CredentialsMatch
<1>1. Ownership => CredentialsMatch
  BY DEF Ownership, Guarded
<1>2. Ownership /\ [Next]_vars => Ownership'
  BY NextOwned
<1> QED
  BY InitOwned, <1>1, <1>2, PTL DEF Spec

\* No step of the operator takes over, alters or removes what somebody else
\* holds (_refuse_foreign_objects, _remove_superseded_login,
\* _remove_source_objects).
THEOREM OthersKept ==
  ASSUME ~Overlap
  PROVE  Spec => OthersUntouched
<1>1. Ownership /\ [Next]_vars => Ownership'
  BY NextOwned
<1>2. Ownership /\ [Next]_vars => [LeavesOthersAlone]_vars
  BY NextOwned
<1> QED
  BY InitOwned, <1>1, <1>2, PTL DEF Spec, OthersUntouched

-----------------------------------------------------------------------------
(***************************************************************************)
(* 4  The same, and SecretOutlivesLogin, where handlers do queue behind    *)
(* others with an old body.  What then goes wrong (a stale record naming   *)
(* the user's Secret) takes a DBA who drops the publication: its being     *)
(* made again is recorded before the login is known.  Where nobody does,   *)
(* the login and the Secret a status names follow from one of its marks,   *)
(* and so they do in every old body.                                       *)
(***************************************************************************)

\* Nobody drops the publication behind the operator's back.
PublicationsLeft == \A b \in Budgets : "publication" \notin b.what

\* The login that goes with a mark of created["login"].
LoginMarked(mark) ==
  IF mark = "yes" THEN "generated" ELSE IF mark = "no" THEN "provided" ELSE "none"

\* What a status says of login and Secret is one fact, and comes after the
\* publication.
NamesFollow(st) ==
  /\ st.created["secret"] = st.created["login"]
  /\ st.login = LoginMarked(st.created["login"])
  /\ st.credentials = st.login
  /\ st.created["publication"] # "yes" => st.created["login"] = "unset"

\* Every status a handler works from, now or later.
Statuses == {status, body.status} \cup {b.status : b \in queued}

\* A pass is running, or may still be started.
MayPass == pc \in PassStep \/ ~spec.deleting \/ \E b \in queued : ~b.deleting

\* As long as passes are made, a publication that was made is there.
PublicationStays ==
  MayPass =>
    /\ \A st \in Statuses : st.created["publication"] = "yes" => source.publication # "absent"
    /\ result.created["publication"] = "yes" => source.publication # "absent"

\* The marks and names the running pass will record.
ResultNames ==
  /\ pc \in Early => result.login = "none" /\ result.credentials = "none"
  /\ pc \in {"inspect", "publication"} => result.created = body.status.created
  /\ pc \in {"commentPublication", "recordPublication"} =>
       /\ result.created["login"] = "unset" /\ result.created["secret"] = "unset"
       /\ status.created["login"] = "unset"
  /\ pc \in PassStep \ {"inspect", "publication"} => result.created["publication"] = "yes"
  /\ pc = "applySecret" => result.created["login"] = "yes"
  /\ pc \in LoginInHand =>
       /\ result.created["login"] \in {"yes", "no"}
       /\ result.created["secret"] = result.created["login"]
       /\ result.login = LoginMarked(result.created["login"])
       /\ result.credentials = result.login

\* When a Secret may be deleted, the login it belongs to has been dropped.
LoginGone ==
  body.status.created["login"] = "yes" =>
    /\ pc = "deleteSuperseded" => source.role["generated"] = "absent"
    /\ pc = "deleteSecret" /\ "source" \in instances => source.role["generated"] = "absent"

\* Once a finalizer runs no pass is left to run.
PassesOver ==
  /\ pc \in TeardownStep => spec.deleting /\ queued = {}
  /\ \A b \in queued : b.deleting => spec.deleting

Names ==
  /\ Guarded
  /\ "publication" \notin budget.what
  /\ \A st \in Statuses : NamesFollow(st) /\ Owns(st.created)
  /\ Owns(result.created)
  /\ ProvidedStand
  /\ PublicationStays /\ ResultNames /\ LoginGone /\ PassesOver

Rest ==
  \/ Teardown \/ TargetUnreachable \/ SourceUnreachable \/ Abandon
  \/ ResetLoginPassword
  \/ StartPass \/ StartTeardown \/ StartQueued \/ QueueHandler
  \/ Break \/ Edit \/ Delete \/ WorkerConnects \/ WorkerStops \/ Meddle
  \/ UNCHANGED vars

LEMMA PassOrRest == [Next]_vars <=> Pass \/ Rest
  BY DEF Next, Operator, Environment, Gone, Rest

\* The three kinds of step that are not a pass's: no handler moves; a finalizer
\* goes on, or a handler ends; a handler begins.
Around ==
  /\ UNCHANGED <<status, body, result, pc>>
  /\ \/ queued' = queued
     \/ /\ pc \in PassStep /\ queued' = {Snapshot}
        /\ UNCHANGED <<source, target, secrets, spec, instances, budget>>

GoesOn ==
  /\ UNCHANGED <<status, body, queued>>
  /\ pc \in PassStep \cup TeardownStep
  /\ \/ pc' = "idle"
     \/ pc \in TeardownStep /\ pc' \in TeardownStep
  /\ result' \in {result, NewResult(NoStatus)}

Begins ==
  /\ pc = "idle" /\ queued' = {}
  /\ UNCHANGED <<status, source, target, secrets, instances, budget>>
  /\ \/ body' \in queued
     \/ queued = {} /\ body' = Snapshot
  /\ \/ /\ pc' = "inspect" /\ result' = NewResult(body'.status)
        /\ ~body'.deleting /\ UNCHANGED spec
     \/ pc' \in {"idle", "dropSubscription"} /\ result' = NewResult(NoStatus) /\ body'.deleting

LEMMA SnapshotFields ==
  /\ Snapshot.status = status /\ Snapshot.deleting = spec.deleting
  /\ Snapshot.wanted = spec.wanted /\ Snapshot.enabled = spec.enabled
  BY DEF Snapshot

LEMMA RestShapes ==
  ASSUME Typed, Rest
  PROVE  Around \/ GoesOn \/ Begins
<1>1. CASE StartPass \/ StartTeardown \/ StartQueued
  <2>1. ASSUME NEW b, BeginPass(b), ~b.deleting, pc = "idle", queued' = {},
               b \in queued \/ (queued = {} /\ b = Snapshot)
        PROVE  Begins
    BY <2>1 DEF BeginPass, Begins
  <2>2. ASSUME NEW b, BeginTeardown(b), b.deleting, pc = "idle", queued' = {},
               b \in queued \/ (queued = {} /\ b = Snapshot)
        PROVE  Begins
    BY <2>2, Zenon DEF BeginTeardown, Begins
  <2>3. CASE StartPass
    BY <2>1, <2>3, SnapshotFields DEF StartPass
  <2>4. CASE StartTeardown
    BY <2>2, <2>4, SnapshotFields DEF StartTeardown
  <2>5. CASE StartQueued
    <3>1. PICK b \in queued : IF b.deleting THEN BeginTeardown(b) ELSE BeginPass(b)
      BY <2>5 DEF StartQueued
    <3> QED
      BY <2>1, <2>2, <2>5, <3>1 DEF StartQueued
  <2> QED
    BY <1>1, <2>3, <2>4, <2>5
<1>2. CASE Teardown /\ ~EndWalsender
  BY <1>2 DEF Teardown, DropSubscription, SourceGone, DropSlot, DropPublication,
     DropLogin, DeleteSecret, Finish, Step, Idle, TeardownStep, GoesOn
<1>3. CASE TargetUnreachable \/ SourceUnreachable
  BY <1>3 DEF TargetUnreachable, SourceUnreachable, Unreachable, TeardownStep, GoesOn
<1>4. CASE Abandon
  BY <1>4 DEF Abandon, Idle, TeardownStep, GoesOn
<1>5. CASE Break
  <2>1. pc \in PassStep \cup TeardownStep
    BY <1>5 DEF Break, Budget, Typed, TypeOK
  <2> QED
    BY <1>5, <2>1 DEF Break, Idle, GoesOn
<1>6. CASE \/ EndWalsender \/ ResetLoginPassword \/ Edit \/ Delete \/ WorkerConnects
           \/ WorkerStops \/ Meddle \/ QueueHandler \/ UNCHANGED vars
  BY <1>6 DEF EndWalsender, ResetLoginPassword, Edit, Delete, WorkerConnects,
     WorkerStops, Meddle, QueueHandler, vars, Around
<1> QED
  BY <1>1, <1>2, <1>3, <1>4, <1>5, <1>6 DEF Rest

\* What a pass leaves alone.
LEMMA PassFrame ==
  ASSUME Pass
  PROVE  /\ pc \in PassStep /\ pc' \in PassStep \cup {"idle"}
         /\ UNCHANGED <<body, spec, queued, instances, budget>>
  BY DEF Pass, PassStep, Step, Inspect, EnsurePublication, CommentPublication,
     RecordPublication, AdoptProvidedLogin, ReadSecret, EnsureLoginRole, CommentRole,
     ApplySecret, GrantReadGroup, RecordLogin, ConvergeTables, EnsureSlot, RecordSlot,
     CreateSubscription, CommentSubscription, RecordSubscription, SetConnection, SetEnabled,
     Refresh, DropSupersededLogin, DeleteSupersededSecret, Publish, Refuse, Idle

\* Deleting a resource is not taken back, and servers only go.
LEMMA OneWay ==
  ASSUME Typed, [Next]_vars
  PROVE  /\ spec.deleting => spec'.deleting
         /\ instances' \subseteq instances
<1>1. CASE Pass
  BY <1>1, PassFrame
<1>2. CASE Rest
  <2>a. spec \in SpecType
    BY DEF Typed, TypeOK, SpecType
  <2>1. spec' = spec \/ spec' = [spec EXCEPT !.released = TRUE]
        \/ spec' = [spec EXCEPT !.released = (missed = {})] \/ Edit \/ Delete
    BY <1>2, Zenon DEF Rest, Teardown, TargetUnreachable, SourceUnreachable, Unreachable, Abandon,
       ResetLoginPassword, StartPass, StartTeardown, StartQueued, QueueHandler, Break,
       WorkerConnects, WorkerStops, Meddle, vars, BeginPass, BeginTeardown, DropSubscription,
       SourceGone, EndWalsender, DropSlot, DropPublication, DropLogin, DeleteSecret, Finish,
       Step
  <2>2. spec.deleting => spec'.deleting
    BY <2>a, <2>1 DEF SpecType, Edit, Delete
  <2>3. instances' = instances \/ Meddle
    BY <1>2, Zenon DEF Rest, Teardown, TargetUnreachable, SourceUnreachable, Unreachable, Abandon,
       ResetLoginPassword, StartPass, StartTeardown, StartQueued, QueueHandler, Break, Edit,
       Delete,
       WorkerConnects, WorkerStops, Meddle, vars, BeginPass, BeginTeardown, DropSubscription,
       SourceGone, EndWalsender, DropSlot, DropPublication, DropLogin, DeleteSecret, Finish,
       Step, Idle
  <2> QED
    BY <2>2, <2>3 DEF Meddle
<1> QED
  BY <1>1, <1>2, PassOrRest

\* How each step of a pass is reached.
LEMMA Reached ==
  ASSUME Pass
  PROVE  /\ pc' # "inspect"
         /\ pc' = "publication" => Inspect
         /\ pc' = "commentPublication" => EnsurePublication
         /\ pc' = "recordPublication" => CommentPublication
         /\ pc' = "login" => EnsurePublication \/ RecordPublication
         /\ pc' = "createRole" => ReadSecret
         /\ pc' = "commentRole" => EnsureLoginRole
         /\ pc' = "applySecret" => EnsureLoginRole \/ CommentRole
         /\ pc' = "grant" => AdoptProvidedLogin \/ ApplySecret
         /\ pc' = "recordLogin" => GrantReadGroup
         /\ pc' = "tables" => GrantReadGroup \/ RecordLogin
         /\ pc' = "slot" => ConvergeTables
         /\ pc' = "recordSlot" => EnsureSlot
         /\ pc' = "createSubscription" => EnsureSlot \/ RecordSlot
         /\ pc' = "commentSubscription" => CreateSubscription
         /\ pc' = "recordSubscription" => CommentSubscription
         /\ pc' = "setConnection" => ConvergeTables
         /\ pc' = "setEnabled" => SetConnection
         /\ pc' = "refresh" => RecordSubscription \/ SetEnabled
         /\ pc' = "dropSuperseded" => Refresh
         /\ pc' = "deleteSuperseded" => DropSupersededLogin
         /\ pc' = "publish" => Refresh \/ DeleteSupersededSecret
         /\ pc' = "idle" => Publish \/ Refuse
  BY DEF Pass, Step, Inspect, EnsurePublication, CommentPublication, RecordPublication,
     AdoptProvidedLogin, ReadSecret, EnsureLoginRole, CommentRole, ApplySecret,
     GrantReadGroup, RecordLogin, ConvergeTables, EnsureSlot, RecordSlot, CreateSubscription,
     CommentSubscription, RecordSubscription, SetConnection, SetEnabled, Refresh,
     DropSupersededLogin, DeleteSupersededSecret, Publish, Refuse, Idle

\* Which step of a pass each is.
LEMMA TakenAt ==
  /\ Inspect => pc = "inspect" /\ pc' = "publication"
  /\ EnsurePublication => pc = "publication" /\ pc' \in {"commentPublication", "login"}
  /\ CommentPublication => pc = "commentPublication" /\ pc' = "recordPublication"
  /\ RecordPublication => pc = "recordPublication" /\ pc' = "login"
  /\ AdoptProvidedLogin => pc = "login" /\ pc' = "grant"
  /\ ReadSecret => pc = "login" /\ pc' = "createRole"
  /\ EnsureLoginRole => pc = "createRole" /\ pc' \in {"commentRole", "applySecret"}
  /\ CommentRole => pc = "commentRole" /\ pc' = "applySecret"
  /\ ApplySecret => pc = "applySecret" /\ pc' = "grant"
  /\ GrantReadGroup => pc = "grant" /\ pc' \in {"recordLogin", "tables"}
  /\ RecordLogin => pc = "recordLogin" /\ pc' = "tables"
  /\ ConvergeTables => pc = "tables" /\ pc' \in {"setConnection", "slot"}
  /\ EnsureSlot => pc = "slot" /\ pc' \in {"createSubscription", "recordSlot"}
  /\ RecordSlot => pc = "recordSlot" /\ pc' = "createSubscription"
  /\ CreateSubscription => pc = "createSubscription" /\ pc' = "commentSubscription"
  /\ CommentSubscription => pc = "commentSubscription" /\ pc' = "recordSubscription"
  /\ RecordSubscription => pc = "recordSubscription" /\ pc' = "refresh"
  /\ SetConnection => pc = "setConnection" /\ pc' = "setEnabled"
  /\ SetEnabled => pc = "setEnabled" /\ pc' = "refresh"
  /\ Refresh => pc = "refresh" /\ pc' \in {"dropSuperseded", "publish"}
  /\ DropSupersededLogin => pc = "dropSuperseded" /\ pc' = "deleteSuperseded"
  /\ DeleteSupersededSecret => pc = "deleteSuperseded" /\ pc' = "publish"
  /\ Publish => pc = "publish" /\ pc' = "idle"
  /\ Refuse => pc \in {"inspect", "commentPublication", "login", "slot"} /\ pc' = "idle"
  BY DEF Step, Inspect, EnsurePublication, CommentPublication, RecordPublication,
     AdoptProvidedLogin, ReadSecret, EnsureLoginRole, CommentRole, ApplySecret,
     GrantReadGroup, RecordLogin, ConvergeTables, EnsureSlot, RecordSlot, CreateSubscription,
     CommentSubscription, RecordSubscription, SetConnection, SetEnabled, Refresh,
     DropSupersededLogin, DeleteSupersededSecret, Publish, Refuse, Idle

\* Which steps touch which part of the source.
LEMMA SourceMoves ==
  ASSUME Typed, [Next]_vars
  PROVE  /\ \/ source'.publication = source.publication
            \/ EnsurePublication \/ CommentPublication \/ DropPublication
            \/ Meddle /\ "publication" \in budget.what /\ source'.publication = "absent"
         /\ \/ source'.role = source.role
            \/ EnsureLoginRole \/ CommentRole \/ DropSupersededLogin \/ DropLogin
         /\ \/ source'.password = source.password
            \/ EnsureLoginRole \/ DropSupersededLogin \/ DropLogin \/ ResetLoginPassword
         /\ \/ source'.member = source.member
            \/ GrantReadGroup \/ DropSupersededLogin \/ DropLogin
            \/ Meddle /\ ~status.granted /\ source.member["provided"] = "none"
               /\ source'.member = [source.member EXCEPT !["provided"] = "admin"]
         /\ \/ source'.slot = source.slot
            \/ EnsureSlot \/ DropSlot \/ DropSubscription \/ EndWalsender \/ WorkerConnects
            \/ WorkerStops
<1> DEFINE Moved ==
      /\ \/ source'.publication = source.publication
         \/ EnsurePublication \/ CommentPublication \/ DropPublication
         \/ Meddle /\ "publication" \in budget.what /\ source'.publication = "absent"
      /\ \/ source'.role = source.role
         \/ EnsureLoginRole \/ CommentRole \/ DropSupersededLogin \/ DropLogin
      /\ \/ source'.password = source.password
         \/ EnsureLoginRole \/ DropSupersededLogin \/ DropLogin \/ ResetLoginPassword
      /\ \/ source'.member = source.member
         \/ GrantReadGroup \/ DropSupersededLogin \/ DropLogin
         \/ Meddle /\ ~status.granted /\ source.member["provided"] = "none"
            /\ source'.member = [source.member EXCEPT !["provided"] = "admin"]
      /\ \/ source'.slot = source.slot
         \/ EnsureSlot \/ DropSlot \/ DropSubscription \/ EndWalsender \/ WorkerConnects
         \/ WorkerStops
<1>a. source \in SourceType
  BY DEF Typed, TypeOK, SourceType
<1>1. CASE UNCHANGED source
  BY <1>1
<1>2. CASE EnsurePublication \/ CommentPublication \/ DropPublication
  <2>1. source' = source \/ \E p : source' = [source EXCEPT !.publication = p]
    BY <1>2, Zenon DEF EnsurePublication, CommentPublication, DropPublication
  <2> QED
    BY <1>a, <1>2, <2>1 DEF SourceType
<1>3. CASE \/ EnsureSlot \/ DropSlot \/ DropSubscription \/ EndWalsender \/ WorkerConnects
           \/ WorkerStops
  <2>1. source' = source \/ \E s : source' = [source EXCEPT !.slot = s]
    BY <1>3, Zenon DEF EnsureSlot, DropSlot, DropSubscription, EndWalsender, WorkerConnects,
       WorkerStops
  <2> QED
    BY <1>a, <1>3, <2>1 DEF SourceType
<1>4. CASE GrantReadGroup
  <2>1. source' = source \/ source' = [source EXCEPT !.member[result.login] = "operator"]
    BY <1>4, Zenon DEF GrantReadGroup
  <2> QED
    BY <1>a, <1>4, <2>1 DEF SourceType
<1>5. CASE EnsureLoginRole \/ CommentRole
  <2>1. CASE CommentRole
    BY <1>a, <2>1 DEF CommentRole, SourceType
  <2>2. CASE EnsureLoginRole
    <3>1. \/ source' = [source EXCEPT !.role["generated"] = "bare", !.password = result.password]
          \/ \E p : source' = [source EXCEPT !.password = p]
      BY <2>2, Zenon DEF EnsureLoginRole
    <3> QED
      BY <1>a, <2>2, <3>1 DEF SourceType
  <2> QED
    BY <1>5, <2>1, <2>2
<1>6. ASSUME NEW login, NEW made, NEW granted, RemoveLogin(login, made, granted)
      PROVE  source'.publication = source.publication /\ source'.slot = source.slot
  <2>1. source' \in {source,
                     [source EXCEPT !.role[login] = "absent", !.member[login] = "none",
                        !.password = IF login = "generated" THEN NoPassword ELSE @],
                     [source EXCEPT !.member[login] = "none"]}
    BY <1>6, Zenon DEF RemoveLogin
  <2> QED
    BY <1>a, <2>1 DEF SourceType
<1>7. CASE DropSupersededLogin \/ DropLogin
  <2>1. source' = source \/ \E l, m, g : RemoveLogin(l, m, g)
    BY <1>7, Zenon DEF DropSupersededLogin, DropLogin
  <2> QED
    BY <1>1, <1>6, <1>7, <2>1
<1>8. CASE ResetLoginPassword
  <2>1. \E p : source' = [source EXCEPT !.password = p]
    BY <1>8, Zenon DEF ResetLoginPassword
  <2> QED
    BY <1>a, <1>8, <2>1 DEF SourceType
<1>9. CASE Meddle
  <2>1. \/ source' = source
        \/ "publication" \in budget.what /\ source' = [source EXCEPT !.publication = "absent"]
        \/ /\ ~status.granted /\ source.member["provided"] = "none"
           /\ source' = [source EXCEPT !.member["provided"] = "admin"]
    BY <1>9, Zenon DEF Meddle
  <2> QED
    BY <1>a, <1>9, <2>1 DEF SourceType
<1>10. CASE Pass
  BY <1>1, <1>2, <1>3, <1>4, <1>5, <1>7, <1>10, Zenon DEF Pass, Inspect, RecordPublication,
     AdoptProvidedLogin,
     ReadSecret, ApplySecret, RecordLogin, ConvergeTables, RecordSlot, CreateSubscription,
     CommentSubscription, RecordSubscription, SetConnection, SetEnabled, Refresh,
     DeleteSupersededSecret, Publish, Refuse
<1>11. CASE Rest
  BY <1>1, <1>2, <1>3, <1>7, <1>8, <1>9, <1>11, Zenon DEF Rest, Teardown, SourceGone, DeleteSecret,
     Finish, TargetUnreachable, SourceUnreachable, Unreachable, Abandon, StartPass,
     StartTeardown, StartQueued, BeginPass, BeginTeardown, QueueHandler, Break, Edit, Delete,
     vars
<1> QED
  BY <1>10, <1>11, PassOrRest

\* And which touch the target and the Secrets.
LEMMA OthersMove ==
  ASSUME Typed, [Next]_vars
  PROVE  /\ \/ target' = target
            \/ CreateSubscription \/ CommentSubscription \/ SetConnection \/ SetEnabled
            \/ DropSubscription
         /\ \/ secrets' = secrets
            \/ ApplySecret \/ DeleteSupersededSecret \/ DeleteSecret
            \/ Meddle /\ secrets'.generated = NoPassword
<1>a. secrets \in SecretsType
  BY DEF Typed, TypeOK, SecretsType
<1>1. CASE Meddle
  BY <1>a, <1>1 DEF Meddle, SecretsType
<1>2. CASE DropSubscription \/ DeleteSecret
  BY <1>2 DEF DropSubscription, DeleteSecret
<1>3. CASE Pass
  BY <1>3 DEF Pass, Inspect, EnsurePublication, CommentPublication, RecordPublication,
     AdoptProvidedLogin, ReadSecret, EnsureLoginRole, CommentRole, ApplySecret,
     GrantReadGroup, RecordLogin, ConvergeTables, EnsureSlot, RecordSlot, CreateSubscription,
     CommentSubscription, RecordSubscription, SetConnection, SetEnabled, Refresh,
     DropSupersededLogin, DeleteSupersededSecret, Publish, Refuse
<1>4. CASE Rest
  BY <1>1, <1>2, <1>4, Zenon DEF Rest, Teardown, SourceGone, EndWalsender, DropSlot, DropPublication,
     DropLogin, Finish, TargetUnreachable, SourceUnreachable, Unreachable, Abandon, StartPass,
     StartTeardown, StartQueued, BeginPass, BeginTeardown, QueueHandler, Break, Edit, Delete,
     ResetLoginPassword, WorkerConnects, WorkerStops, vars
<1> QED
  BY <1>3, <1>4, PassOrRest

\* Only a finalizer drops the publication, where nobody else does.
LEMMA PublicationDropped ==
  ASSUME Typed, "publication" \notin budget.what, [Next]_vars,
         source.publication # "absent", source'.publication = "absent"
  PROVE  pc = "dropPublication"
<1>1. EnsurePublication \/ CommentPublication \/ DropPublication
  BY SourceMoves
<1>2. source \in SourceType
  BY DEF Typed, TypeOK, SourceType
<1> QED
  BY <1>1, <1>2 DEF EnsurePublication, CommentPublication, DropPublication, Step, SourceType

\* Only CREATE ROLE makes the generated login.
LEMMA RoleMade ==
  ASSUME Typed, [Next]_vars, source.role["generated"] = "absent",
         source'.role["generated"] # "absent"
  PROVE  pc \in {"createRole", "commentRole"}
<1>a. source \in SourceType
  BY DEF Typed, TypeOK, SourceType
<1>1. ASSUME NEW login, NEW made, NEW granted, RemoveLogin(login, made, granted)
      PROVE  source'.role["generated"] \in {"absent", source.role["generated"]}
  <2>1. source' \in {source,
                     [source EXCEPT !.role[login] = "absent", !.member[login] = "none",
                        !.password = IF login = "generated" THEN NoPassword ELSE @],
                     [source EXCEPT !.member[login] = "none"]}
    BY <1>1, Zenon DEF RemoveLogin
  <2>2. source.role \in [Login -> Holder]
    BY <1>a DEF SourceType
  <2>3. source'.role \in {source.role, [source.role EXCEPT ![login] = "absent"]}
    BY <1>a, <2>1 DEF SourceType
  <2> QED
    BY <2>2, <2>3 DEF Login
<1>2. CASE DropSupersededLogin \/ DropLogin
  <2>1. source' = source \/ \E l, m, g : RemoveLogin(l, m, g)
    BY <1>2, Zenon DEF DropSupersededLogin, DropLogin
  <2> QED
    BY <1>1, <2>1
<1> QED
  BY <1>2, SourceMoves DEF EnsureLoginRole, CommentRole, Step

\* The statuses a handler may work from are the old ones and the one just written.
LEMMA StatusesGrow ==
  ASSUME Typed, [Next]_vars
  PROVE  \A st \in Statuses' : st \in Statuses \/ st = status'
<1>1. body' \in {body, Snapshot} \cup queued /\ queued' \subseteq queued \cup {Snapshot}
  <2>1. CASE Pass
    BY <2>1, PassFrame
  <2>2. CASE Rest
    BY <2>2, RestShapes DEF Around, GoesOn, Begins
  <2> QED
    BY <2>1, <2>2, PassOrRest
<1>2. status \in Statuses /\ body.status \in Statuses
  BY DEF Statuses
<1>3. \A b \in queued : b.status \in Statuses
  BY DEF Statuses
<1>4. body'.status \in Statuses
  BY <1>1, <1>2, <1>3, SnapshotFields
<1>5. \A b \in queued' : b.status \in Statuses
  BY <1>1, <1>2, <1>3, SnapshotFields
<1> QED
  BY <1>4, <1>5 DEF Statuses

\* Status is written at five steps, from the result.
LEMMA StatusWritten ==
  ASSUME Typed, [Next]_vars, status' # status
  PROVE  /\ pc \in {"recordPublication", "recordLogin", "recordSlot", "recordSubscription",
                    "publish"}
         /\ status'.created = Recorded(result).created
         /\ status'.login = Recorded(result).login
         /\ status'.granted = Recorded(result).granted
         /\ status'.credentials = Recorded(result).credentials
         /\ UNCHANGED <<secrets, source, target>>
<1>1. Pass
  BY PassOrRest, RestShapes DEF Around, GoesOn, Begins
<1>2. CASE RecordPublication \/ RecordLogin \/ RecordSlot \/ RecordSubscription
  BY <1>2 DEF RecordPublication, RecordLogin, RecordSlot, RecordSubscription, Step
<1>3. CASE Publish
  <2>1. /\ pc = "publish" /\ UNCHANGED <<secrets, source, target>>
        /\ status' = [Recorded(result) EXCEPT !.connection = ConnectionOf(result)]
    BY <1>3 DEF Publish
  <2>2. Recorded(result) \in Status
    BY RecordedType DEF Typed, TypeOK
  <2> QED
    BY <2>1, <2>2 DEF Status
<1> QED
  BY <1>1, <1>2, <1>3 DEF Pass, Inspect, EnsurePublication, CommentPublication,
     AdoptProvidedLogin, ReadSecret, EnsureLoginRole, CommentRole, ApplySecret, GrantReadGroup,
     ConvergeTables, EnsureSlot, CreateSubscription, CommentSubscription, SetConnection,
     SetEnabled, Refresh, DropSupersededLogin, DeleteSupersededSecret, Refuse

LEMMA NamesGuard ==
  ASSUME Names
  PROVE  /\ Guarded /\ Typed /\ ProvidedStand /\ Owns(result.created)
         /\ \A st \in Statuses : NamesFollow(st) /\ Owns(st.created)
         /\ NamesFollow(status) /\ NamesFollow(body.status)
  BY DEF Names, Guarded, Statuses

\* What is written follows from one mark too, and is the operator's.
LEMMA WrittenFollows ==
  ASSUME Names, [Next]_vars, status' # status
  PROVE  NamesFollow(status') /\ Owns(status'.created)
<1>a. /\ Typed /\ ResultNames /\ NamesFollow(status)
      /\ Owns(status.created) /\ Owns(result.created)
  BY NamesGuard DEF Names, Statuses
<1>b. status \in Status /\ result \in Result
  BY <1>a DEF Typed, TypeOK
<1>c. /\ \A o \in {"login", "secret", "publication", "subscription"} :
           status'.created[o] =
             IF result.created[o] = "unset" THEN status.created[o] ELSE result.created[o]
      /\ status'.login = result.login
      /\ status'.credentials =
           IF result.credentials = "none" THEN status.credentials ELSE result.credentials
  BY <1>a, <1>b, StatusWritten, RecordedFields DEF Object
<1>1. Owns(status'.created)
  <2>1. \A o \in {"login", "publication", "subscription"} :
          status'.created[o] = "yes" => result.created[o] = "yes" \/ status.created[o] = "yes"
    BY <1>c
  <2> QED
    BY <1>a, <2>1 DEF Owns
<1>2. CASE pc = "recordPublication"
  <2>1. /\ result.created["login"] = "unset" /\ result.created["secret"] = "unset"
        /\ result.created["publication"] = "yes"
        /\ result.login = "none" /\ result.credentials = "none"
        /\ status.created["login"] = "unset"
    BY <1>2, <1>a DEF ResultNames, Early, PassStep
  <2>2. status.created["secret"] = "unset" /\ status.credentials = "none"
    BY <1>a, <2>1 DEF NamesFollow, LoginMarked
  <2> QED
    BY <1>1, <1>c, <2>1, <2>2 DEF NamesFollow, LoginMarked
<1>3. CASE pc \in LoginInHand
  <2>1. /\ result.created["login"] \in {"yes", "no"}
        /\ result.created["secret"] = result.created["login"]
        /\ result.login = LoginMarked(result.created["login"])
        /\ result.credentials = result.login
        /\ result.created["publication"] = "yes"
    BY <1>3, <1>a DEF ResultNames, LoginInHand, PassStep
  <2>2. result.credentials # "none"
    BY <2>1 DEF LoginMarked
  <2> QED
    BY <1>1, <1>c, <2>1, <2>2 DEF NamesFollow
<1> QED
  BY <1>a, <1>2, <1>3, StatusWritten DEF LoginInHand

\* A step that respects others leaves what is marked with the operator (OwnsKept,
\* for marks that stay as they are).
LEMMA OwnsStay ==
  ASSUME Respects, NEW created, Owns(created)
  PROVE  /\ created["subscription"] = "yes" => target'.subscription # "foreign"
         /\ created["publication"] = "yes" => source'.publication # "foreign"
         /\ created["login"] = "yes" => source'.role["generated"] # "foreign"
  BY OwnsKept

LEMMA NamesRespect ==
  ASSUME Names, [Next]_vars
  PROVE  Respects
  BY NamesGuard, PassOrRest, PassRespects, RestRespects DEF Rest

LEMMA StatusesFollow ==
  ASSUME Names, [Next]_vars
  PROVE  \A st \in Statuses' : NamesFollow(st) /\ Owns(st.created)'
<1> SUFFICES ASSUME NEW st \in Statuses' PROVE NamesFollow(st) /\ Owns(st.created)'
  OBVIOUS
<1>1. Respects /\ Typed
  BY NamesRespect, NamesGuard
<1>2. NamesFollow(st) /\ Owns(st.created)
  <2>1. st \in Statuses \/ st = status'
    BY <1>1, StatusesGrow
  <2>2. status \in Statuses
    BY DEF Statuses
  <2> QED
    BY <2>1, <2>2, WrittenFollows, NamesGuard
<1> QED
  BY <1>1, <1>2, OwnsStay DEF Owns

\* No step makes passes possible again.
LEMMA MayPassBefore ==
  ASSUME Typed, [Next]_vars, MayPass'
  PROVE  MayPass
<1>1. CASE Pass
  BY <1>1, PassFrame DEF MayPass
<1>2. CASE Rest
  <2>1. ~spec'.deleting => ~spec.deleting
    BY OneWay
  <2>2. CASE Around
    BY <2>1, <2>2, SnapshotFields DEF Around, MayPass
  <2>3. CASE GoesOn
    BY <2>1, <2>3 DEF GoesOn, MayPass, PassStep, TeardownStep
  <2>4. CASE Begins
    <3>1. pc' = "inspect" => MayPass
      BY <2>4, SnapshotFields DEF Begins, MayPass
    <3> QED
      BY <2>1, <2>4, <3>1 DEF Begins, MayPass, PassStep
  <2> QED
    BY <1>2, <2>2, <2>3, <2>4, RestShapes
<1> QED
  BY <1>1, <1>2, PassOrRest

\* The marks a pass makes in its result.
LEMMA MarksMade ==
  ASSUME Typed, Pass
  PROVE  \/ (Publish \/ Refuse) /\ \A o \in Object : result'.created[o] = "unset"
         \/ result'.created = result.created
         \/ EnsurePublication /\ result'.created = Marked("publication").created
         \/ (EnsureLoginRole \/ CommentRole) /\ result'.created = Marked("login").created
         \/ ApplySecret /\ result'.created = Marked("secret").created
         \/ EnsureSlot /\ result'.created = Marked("slot").created
         \/ /\ CommentSubscription \/ SetConnection
            /\ result'.created = Marked("subscription").created
         \/ AdoptProvidedLogin
<1>a. result \in Result
  BY DEF Typed, TypeOK
<1>b. \A o \in Object : Marked(o) \in Result
  BY <1>a, SetCreated DEF Marked, Mark
<1>1. CASE Publish \/ Refuse
  BY <1>1 DEF Publish, Refuse, Idle, NewResult, NoStatus
<1>2. CASE Inspect \/ ReadSecret \/ GrantReadGroup
  BY <1>2, <1>a DEF Inspect, ReadSecret, GrantReadGroup, Result
<1>3. CASE EnsurePublication \/ EnsureSlot \/ CommentSubscription \/ SetConnection
  BY <1>3 DEF EnsurePublication, EnsureSlot, CommentSubscription, SetConnection, Object
<1>4. CASE EnsureLoginRole \/ CommentRole
  <2>1. result' \in {result, [Marked("login") EXCEPT !.login = "generated"]}
    BY <1>4 DEF EnsureLoginRole, CommentRole
  <2>2. [Marked("login") EXCEPT !.login = "generated"].created = Marked("login").created
    BY <1>b DEF Result, Object
  <2> QED
    BY <1>4, <2>1, <2>2
<1>5. CASE ApplySecret
  <2>1. PICK b : result' = [Marked("secret") EXCEPT !.credentials = "generated", !.granted = b]
    BY <1>5 DEF ApplySecret
  <2>2. result'.created = Marked("secret").created
    BY <1>b, <2>1 DEF Result, Object
  <2> QED
    BY <1>5, <2>2
<1> QED
  BY <1>1, <1>2, <1>3, <1>4, <1>5 DEF Pass, CommentPublication, RecordPublication,
     RecordLogin, ConvergeTables, RecordSlot, CreateSubscription, RecordSubscription,
     SetEnabled, Refresh, DropSupersededLogin, DeleteSupersededSecret

LEMMA PublicationStaysNext ==
  ASSUME Names, [Next]_vars
  PROVE  PublicationStays'
<1> SUFFICES ASSUME MayPass' PROVE
      /\ \A st \in Statuses' : st.created["publication"] = "yes" => source'.publication # "absent"
      /\ result'.created["publication"] = "yes" => source'.publication # "absent"
  BY DEF PublicationStays
<1>a. /\ Typed /\ MayPass /\ "publication" \notin budget.what /\ PassesOver
      /\ status \in Status /\ result \in Result
  BY MayPassBefore, NamesGuard DEF Names, Typed, TypeOK
<1>b. /\ \A st \in Statuses : st.created["publication"] = "yes" => source.publication # "absent"
      /\ result.created["publication"] = "yes" => source.publication # "absent"
  BY <1>a DEF Names, PublicationStays
<1>1. source.publication # "absent" => source'.publication # "absent"
  <2>1. pc # "dropPublication"
    BY <1>a DEF PassesOver, MayPass, TeardownStep, PassStep
  <2> QED
    BY <1>a, <2>1, PublicationDropped
<1>2. status'.created["publication"] = "yes" => source'.publication # "absent"
  <2>1. status \in Statuses
    BY DEF Statuses
  <2>2. CASE status' = status
    BY <1>1, <1>b, <2>1, <2>2
  <2>3. CASE status' # status
    <3>1. status'.created["publication"] \in
            {status.created["publication"], result.created["publication"]}
      BY <1>a, <2>3, StatusWritten, RecordedFields DEF Object
    <3> QED
      BY <1>1, <1>b, <2>1, <3>1
  <2> QED
    BY <2>2, <2>3
<1>3. \A st \in Statuses' : st.created["publication"] = "yes" => source'.publication # "absent"
  BY <1>1, <1>2, <1>a, <1>b, StatusesGrow
<1>4. result'.created["publication"] = "yes" => source'.publication # "absent"
  <2>1. CASE Around \/ GoesOn
    BY <1>1, <1>b, <2>1 DEF Around, GoesOn, NewResult, NoStatus, Object
  <2>2. CASE Begins
    <3>1. body'.status \in Statuses'
      BY DEF Statuses
    <3> QED
      BY <1>3, <2>2, <3>1 DEF Begins, NewResult, NoStatus, Object
  <2>3. CASE EnsurePublication
    <3>1. source \in SourceType
      BY <1>a DEF Typed, TypeOK, SourceType
    <3> QED
      BY <2>3, <3>1 DEF EnsurePublication, SourceType
  <2>4. CASE Pass /\ ~EnsurePublication
    <3>1. result'.created["publication"] \in {"unset", result.created["publication"]}
      <4>1. AdoptProvidedLogin =>
              result'.created["publication"] = result.created["publication"]
        BY <1>a, AdoptedFields
      <4>2. \A o \in Object \ {"publication"} :
              Marked(o).created["publication"] = result.created["publication"]
        BY <1>a, MarkedFields DEF Object
      <4> QED
        BY <1>a, <2>4, <4>1, <4>2, MarksMade DEF Object
    <3> QED
      BY <1>1, <1>b, <3>1
  <2> QED
    BY <1>a, <2>1, <2>2, <2>3, <2>4, PassOrRest, RestShapes
<1> QED
  BY <1>3, <1>4

LEMMA LoginGoneNext ==
  ASSUME Names, [Next]_vars
  PROVE  LoginGone'
<1> SUFFICES ASSUME body'.status.created["login"] = "yes" PROVE
      /\ pc' = "deleteSuperseded" => source'.role["generated"] = "absent"
      /\ pc' = "deleteSecret" /\ "source" \in instances' => source'.role["generated"] = "absent"
  BY DEF LoginGone
<1>a. Typed /\ LoginGone /\ NamesFollow(body.status) /\ source \in SourceType
  BY NamesGuard DEF Names, Typed, TypeOK, SourceType
<1>1. ASSUME NEW granted, body.status.created["login"] = "yes",
             RemoveLogin(body.status.login, TRUE, granted)
      PROVE  source'.role["generated"] = "absent"
  <2>1. body.status.login = "generated"
    BY <1>1, <1>a DEF NamesFollow, LoginMarked
  <2>2. \/ source.role["generated"] = "absent" /\ source' = source
        \/ source' = [source EXCEPT !.role["generated"] = "absent",
                                    !.member["generated"] = "none", !.password = NoPassword]
    BY <1>1, <2>1, Zenon DEF RemoveLogin
  <2>3. source.role \in [Login -> Holder]
    BY <1>a DEF SourceType
  <2>4. CASE source.role["generated"] = "absent" /\ source' = source
    BY <2>4
  <2>5. CASE source' = [source EXCEPT !.role["generated"] = "absent",
                                    !.member["generated"] = "none", !.password = NoPassword]
    <3>1. source'.role = [source.role EXCEPT !["generated"] = "absent"]
      BY <1>a, <2>5 DEF SourceType
    <3> QED
      BY <2>3, <3>1 DEF Login
  <2> QED
    BY <2>2, <2>4, <2>5
<1>2. CASE Pass
  <2>1. pc' # "deleteSecret" /\ body' = body
    BY <1>2, PassFrame DEF PassStep
  <2>2. pc' = "deleteSuperseded" => DropSupersededLogin
    BY <1>2 DEF Pass, Inspect, EnsurePublication, CommentPublication, RecordPublication,
       AdoptProvidedLogin, ReadSecret, EnsureLoginRole, CommentRole, ApplySecret,
       GrantReadGroup, RecordLogin, ConvergeTables, EnsureSlot, RecordSlot,
       CreateSubscription, CommentSubscription, RecordSubscription, SetConnection, SetEnabled,
       Refresh, DeleteSupersededSecret, Publish, Refuse, Step, Idle
  <2>3. DropSupersededLogin => RemoveLogin(body.status.login, TRUE, body.status.granted)
    <3>1. (body.status.created["login"] = "yes") = TRUE
      BY <2>1
    <3> QED
      BY <3>1 DEF DropSupersededLogin
  <2> QED
    BY <1>1, <2>1, <2>2, <2>3
<1>3. CASE Around
  <2>1. body' = body /\ pc' = pc
    BY <1>3 DEF Around
  <2>2. pc \in {"deleteSuperseded", "deleteSecret"} /\ source.role["generated"] = "absent" =>
          source'.role["generated"] = "absent"
    BY <1>a, RoleMade
  <2> QED
    BY <1>a, <2>1, <2>2, OneWay DEF LoginGone
<1>4. CASE GoesOn /\ Rest
  <2>1. body' = body
    BY <1>4 DEF GoesOn
  <2>2. pc' # "deleteSuperseded"
    BY <1>4 DEF GoesOn, TeardownStep
  <2>3. pc' = "deleteSecret" /\ pc # "deleteSecret" => DropLogin \/ SourceGone
    BY <1>4 DEF GoesOn, Rest, Teardown, DropSubscription, EndWalsender, DropSlot,
       DropPublication, DeleteSecret, Finish, Step, Idle, TargetUnreachable, SourceUnreachable,
       Unreachable, Abandon, ResetLoginPassword, StartPass, StartTeardown, StartQueued,
       BeginPass, BeginTeardown, QueueHandler, Break, Edit, Delete, WorkerConnects, WorkerStops,
       Meddle, vars
  <2>4. DropLogin => source'.role["generated"] = "absent"
    <3>1. (body.status.created["login"] = "yes") = TRUE /\ body.status.login # "none"
      BY <1>a, <2>1 DEF NamesFollow, LoginMarked
    <3>2. DropLogin => RemoveLogin(body.status.login, TRUE, body.status.granted)
      BY <3>1 DEF DropLogin, Made
    <3> QED
      BY <1>1, <2>1, <3>2
  <2>5. SourceGone => "source" \notin instances'
    BY <1>a, OneWay DEF SourceGone
  <2>6. pc = "deleteSecret" /\ source.role["generated"] = "absent" =>
          source'.role["generated"] = "absent"
    BY <1>a, RoleMade
  <2> QED
    BY <1>a, <2>1, <2>2, <2>3, <2>4, <2>5, <2>6, OneWay DEF LoginGone
<1>5. CASE Begins
  BY <1>5 DEF Begins
<1> QED
  BY <1>a, <1>2, <1>3, <1>4, <1>5, PassOrRest, RestShapes

LEMMA PassesOverNext ==
  ASSUME Names, [Next]_vars
  PROVE  PassesOver'
<1>a. Typed /\ PassesOver /\ (spec.deleting => spec'.deleting)
  BY NamesGuard, OneWay DEF Names
<1>1. CASE Pass
  BY <1>a, <1>1, PassFrame DEF PassesOver, PassStep, TeardownStep
<1>2. CASE Around
  BY <1>a, <1>2, SnapshotFields DEF Around, PassesOver, PassStep, TeardownStep
<1>3. CASE GoesOn
  BY <1>a, <1>3 DEF GoesOn, PassesOver, PassStep, TeardownStep
<1>4. CASE Begins
  BY <1>a, <1>4, SnapshotFields DEF Begins, PassesOver, TeardownStep
<1> QED
  BY <1>a, <1>1, <1>2, <1>3, <1>4, PassOrRest, RestShapes

LEMMA ResultNamesNext ==
  ASSUME Names, [Next]_vars
  PROVE  ResultNames'
<1>a. /\ Typed /\ ResultNames /\ result \in Result /\ NamesFollow(body.status)
      /\ NamesFollow(status)
  BY NamesGuard DEF Names, Typed, TypeOK
<1>b. ASSUME NEW o \in Object, result' = Marked(o)
      PROVE  /\ result'.created[o] = "yes"
             /\ \A other \in Object \ {o} : result'.created[other] = result.created[other]
             /\ result'.login = result.login /\ result'.credentials = result.credentials
  BY <1>a, <1>b, MarkedFields
<1>1. ASSUME pc' \notin PassStep PROVE ResultNames'
  BY <1>1 DEF ResultNames, Early, LoginInHand, PassStep
<1>2. CASE Around
  BY <1>a, <1>2 DEF Around, ResultNames
<1>3. CASE GoesOn
  BY <1>1, <1>3 DEF GoesOn, PassStep, TeardownStep
<1>4. CASE Begins
  <2>1. CASE pc' = "inspect"
    BY <1>4, <2>1 DEF Begins, NewResult, ResultNames, Early, LoginInHand
  <2> QED
    BY <1>1, <1>4, <2>1 DEF Begins, PassStep
<1>5. CASE Inspect
  <2>1. /\ pc = "inspect" /\ pc' = "publication" /\ body' = body
        /\ result'.created = result.created
        /\ result'.login = result.login /\ result'.credentials = result.credentials
    BY <1>5, <1>a DEF Inspect, Step, Result
  <2> QED
    BY <1>a, <2>1 DEF ResultNames, Early, LoginInHand
<1>6. CASE EnsurePublication
  <2>1. /\ pc = "publication" /\ pc' \in {"commentPublication", "login"}
        /\ result' = Marked("publication")
        /\ UNCHANGED <<status, body>>
    BY <1>6 DEF EnsurePublication, Step
  <2>2. /\ result'.login = "none" /\ result'.credentials = "none"
        /\ result'.created["publication"] = "yes"
        /\ result'.created["login"] = body.status.created["login"]
        /\ result'.created["secret"] = body.status.created["secret"]
    BY <1>a, <1>b, <2>1 DEF ResultNames, Early, Object
  <2>3. CASE pc' = "commentPublication"
    <3>1. source.publication = "absent" /\ MayPass
      BY <1>6, <2>1, <2>3 DEF EnsurePublication, Step, MayPass, PassStep
    <3>2. /\ body.status.created["publication"] # "yes"
          /\ status.created["publication"] # "yes"
      BY <3>1 DEF Names, PublicationStays, Statuses
    <3> QED
      BY <1>a, <2>1, <2>2, <2>3, <3>2 DEF NamesFollow, ResultNames, Early, LoginInHand
  <2>4. CASE pc' = "login"
    BY <2>2, <2>4 DEF ResultNames, Early, LoginInHand
  <2> QED
    BY <2>1, <2>3, <2>4
<1>7. CASE CommentPublication
  <2>1. /\ pc = "commentPublication" /\ pc' = "recordPublication"
        /\ UNCHANGED <<status, body, result>>
    BY <1>7 DEF CommentPublication, Step
  <2> QED
    BY <1>a, <2>1 DEF ResultNames, Early, LoginInHand, PassStep
<1>8. CASE RecordPublication \/ ReadSecret
  <2>1. /\ pc \in {"recordPublication", "login"} /\ pc' \in {"login", "createRole"}
        /\ result'.created = result.created
        /\ result'.login = result.login /\ result'.credentials = result.credentials
    BY <1>8, <1>a DEF RecordPublication, ReadSecret, Step, Result
  <2> QED
    BY <1>a, <2>1 DEF ResultNames, Early, LoginInHand, PassStep
<1>9. CASE AdoptProvidedLogin
  <2>1. /\ pc = "login" /\ pc' = "grant"
        /\ result.created["publication"] = "yes"
    BY <1>9, <1>a DEF AdoptProvidedLogin, Step, ResultNames, PassStep
  <2> QED
    BY <1>9, <1>a, <2>1, AdoptedFields DEF ResultNames, Early, LoginInHand, LoginMarked
<1>10. CASE EnsureLoginRole \/ CommentRole
  <2>1. /\ pc \in {"createRole", "commentRole"} /\ pc' \in {"commentRole", "applySecret"}
        /\ result.created["publication"] = "yes"
    BY <1>10, <1>a DEF EnsureLoginRole, CommentRole, Step, ResultNames, PassStep
  <2>2. \/ pc' = "commentRole" /\ result' = result
        \/ pc' = "applySecret" /\ result' = [Marked("login") EXCEPT !.login = "generated"]
    BY <1>10 DEF EnsureLoginRole, CommentRole, Step
  <2>3. Marked("login") \in Result
    BY <1>a, SetCreated DEF Marked, Object, Mark
  <2>4. [Marked("login") EXCEPT !.login = "generated"].created = Marked("login").created
    BY <2>3 DEF Result
  <2>5. /\ Marked("login").created["login"] = "yes"
        /\ Marked("login").created["publication"] = "yes"
    BY <1>a, <2>1, MarkedFields DEF Object
  <2> QED
    BY <2>1, <2>2, <2>4, <2>5 DEF ResultNames, Early, LoginInHand
<1>11. CASE ApplySecret
  <2>1. /\ pc = "applySecret" /\ pc' = "grant" /\ result.login = "generated"
        /\ result.created["publication"] = "yes" /\ result.created["login"] = "yes"
    BY <1>11, <1>a DEF ApplySecret, Step, ResultNames, PassStep, Typed, ResultFits
  <2>2. PICK b : result' = [Marked("secret") EXCEPT !.credentials = "generated", !.granted = b]
    BY <1>11 DEF ApplySecret
  <2>3. Marked("secret") \in Result
    BY <1>a, SetCreated DEF Marked, Object, Mark
  <2>4. /\ result'.created = Marked("secret").created
        /\ result'.login = Marked("secret").login /\ result'.credentials = "generated"
    BY <2>2, <2>3 DEF Result
  <2>5. /\ result'.created["login"] = "yes" /\ result'.created["secret"] = "yes"
        /\ result'.created["publication"] = "yes" /\ result'.login = "generated"
    BY <1>a, <2>1, <2>4, MarkedFields DEF Object
  <2> QED
    BY <2>1, <2>4, <2>5 DEF ResultNames, Early, LoginInHand, LoginMarked
<1>12. CASE Pass /\ pc \in LoginInHand /\ pc' \in LoginInHand
  <2>1. /\ result'.login = result.login /\ result'.credentials = result.credentials
        /\ \A o \in {"publication", "login", "secret"} : result'.created[o] = result.created[o]
    BY <1>a, <1>12, LoginStays
  <2>2. result.created["publication"] = "yes"
    BY <1>12, <1>a DEF ResultNames, LoginInHand, PassStep
  <2> QED
    BY <1>a, <1>12, <2>1, <2>2 DEF ResultNames, Early, LoginInHand
<1>13. CASE Publish \/ Refuse
  BY <1>1, <1>13 DEF Publish, Refuse, Idle, PassStep
<1>14. CASE Pass
  BY <1>5, <1>6, <1>7, <1>8, <1>9, <1>10, <1>11, <1>12, <1>13, <1>14 DEF Pass, LoginInHand,
     Step, GrantReadGroup, RecordLogin, ConvergeTables, EnsureSlot, RecordSlot,
     CreateSubscription, CommentSubscription, RecordSubscription, SetConnection, SetEnabled,
     Refresh, DropSupersededLogin, DeleteSupersededSecret
<1> QED
  BY <1>a, <1>2, <1>3, <1>4, <1>14, PassOrRest, RestShapes

\* A budget says what may go wrong; only how often is used up.
LEMMA BudgetKeeps ==
  ASSUME Typed, [Next]_vars
  PROVE  budget'.what = budget.what /\ budget'.at = budget.at
<1>a. budget \in Budget
  BY DEF Typed, TypeOK
<1>1. \/ UNCHANGED budget
      \/ budget' = [budget EXCEPT !.breaks = @ - 1]
      \/ budget' = [budget EXCEPT !.edits = @ - 1]
      \/ budget' = [budget EXCEPT !.meddling = @ - 1]
  <2>1. CASE Pass
    BY <2>1, PassFrame
  <2>2. CASE Rest
    BY <2>2, Zenon DEF Rest, Teardown, TargetUnreachable, SourceUnreachable, Unreachable, Abandon,
       ResetLoginPassword, StartPass, StartTeardown, StartQueued, QueueHandler, Break, Edit,
       Delete, Meddle, WorkerConnects, WorkerStops, vars, BeginPass, BeginTeardown,
       DropSubscription, SourceGone, EndWalsender, DropSlot, DropPublication, DropLogin,
       DeleteSecret, Finish, Step
  <2> QED
    BY <2>1, <2>2, PassOrRest
<1> QED
  BY <1>a, <1>1 DEF Budget

LEMMA NamesKept ==
  ASSUME Names, [Next]_vars
  PROVE  Names'
<1>a. Guarded /\ Typed /\ Respects /\ ProvidedStand /\ Owns(result.created) /\ PassOwns
  BY NamesGuard, NamesRespect DEF Guarded
<1>b. Typed'
  BY <1>a, NextTyped
<1>1. \A st \in Statuses' : NamesFollow(st) /\ Owns(st.created)'
  BY StatusesFollow
<1>2. NamesFollow(body.status)' /\ Owns(body.status.created)'
  BY <1>1 DEF Statuses, NamesFollow
<1>3. NamesWhatItMade(body.status)'
  BY <1>2 DEF NamesFollow, NamesWhatItMade, LoginMarked
<1>4. Owns(result.created)' /\ PassOwns'
  <2>1. CASE Pass
    BY <1>a, <2>1, PassKeepsOwned
  <2>2. CASE Around
    <3>1. Owns(result.created)'
      BY <1>a, <2>2, OwnsStay DEF Around, Owns
    <3>2. PassOwns'
      BY <1>a, <2>2 DEF Around, PassOwns, Respects, NoNewForeign
    <3> QED
      BY <3>1, <3>2
  <2>3. CASE GoesOn
    <3>1. Owns(result.created)'
      <4>1. CASE result' = result
        BY <1>a, <4>1, OwnsStay DEF Owns
      <4>2. CASE result' = NewResult(NoStatus)
        BY <4>2 DEF NewResult, NoStatus, Owns, Object
      <4> QED
        BY <2>3, <4>1, <4>2 DEF GoesOn
    <3>2. PassOwns'
      BY <2>3 DEF GoesOn, PassOwns, PassStep, TeardownStep
    <3> QED
      BY <3>1, <3>2
  <2>4. CASE Begins
    <3>1. Owns(result.created)'
      <4>1. CASE result' = NewResult(body'.status)
        BY <1>2, <4>1 DEF NewResult, Owns
      <4>2. CASE result' = NewResult(NoStatus)
        BY <4>2 DEF NewResult, NoStatus, Owns, Object
      <4> QED
        BY <2>4, <4>1, <4>2 DEF Begins
    <3>2. PassOwns'
      BY <2>4 DEF Begins, PassOwns, PassStep
    <3> QED
      BY <3>1, <3>2
  <2> QED
    BY <1>a, <2>1, <2>2, <2>3, <2>4, PassOrRest, RestShapes
<1>5. ProvidedStand'
  BY <1>a DEF Respects, LeavesOthersAlone, ProvidedStand, Login
<1>6. "publication" \notin budget'.what
  BY <1>a, BudgetKeeps DEF Names
<1>7. Guarded'
  BY <1>b, <1>2, <1>3, <1>4 DEF Guarded
<1> QED
  BY <1>1, <1>4, <1>5, <1>6, <1>7, PublicationStaysNext, ResultNamesNext, LoginGoneNext,
     PassesOverNext DEF Names

LEMMA InitNames ==
  ASSUME PublicationsLeft, Init
  PROVE  Names
<1>1. Ownership
  BY InitOwned
<1>2. /\ status = NoStatus /\ body.status = NoStatus /\ result = NewResult(NoStatus)
      /\ queued = {} /\ pc = "idle" /\ budget \in Budgets
  BY DEF Init
<1>3. Statuses = {NoStatus}
  BY <1>2 DEF Statuses
<1>4. NamesFollow(NoStatus)
  BY DEF NamesFollow, NoStatus, LoginMarked, Object
<1>5. PublicationStays
  BY <1>2, <1>3 DEF PublicationStays, NoStatus, NewResult, Object
<1>6. ResultNames /\ LoginGone /\ PassesOver
  BY <1>2 DEF ResultNames, LoginGone, PassesOver, Early, LoginInHand, PassStep, TeardownStep
<1>7. "publication" \notin budget.what
  BY <1>2 DEF PublicationsLeft
<1> QED
  BY <1>1, <1>2, <1>3, <1>4, <1>5, <1>6, <1>7 DEF Names, Ownership

\* When a Secret goes, the login it belongs to has gone.
LEMMA SecretLast ==
  ASSUME Names, [Next]_vars,
         pc \in {"deleteSecret", "deleteSuperseded"}, pc' # pc,
         secrets.generated # NoPassword, secrets'.generated = NoPassword,
         "source" \in instances
  PROVE  ~Operators(source.role["generated"])
<1>a. /\ Typed /\ NamesFollow(body.status) /\ LoginGone /\ ResultNames
      /\ secrets \in SecretsType
  BY NamesGuard DEF Names, Typed, TypeOK, SecretsType
<1>1. DeleteSecret \/ DeleteSupersededSecret
  <2>1. UNCHANGED secrets \/ DeleteSecret \/ DeleteSupersededSecret \/ ApplySecret \/ Meddle
    BY Zenon DEF Next, Operator, Environment, Pass, Teardown, vars, Gone,
       TargetUnreachable, SourceUnreachable, Unreachable, Abandon,
       ResetLoginPassword, StartPass, StartTeardown, StartQueued, QueueHandler, Break, Edit,
       Delete, WorkerConnects, WorkerStops, BeginPass, BeginTeardown,
       DropSubscription, SourceGone, EndWalsender, DropSlot, DropPublication, DropLogin,
       Finish, Inspect, EnsurePublication, CommentPublication, RecordPublication,
       AdoptProvidedLogin, ReadSecret, EnsureLoginRole, CommentRole, GrantReadGroup,
       RecordLogin, ConvergeTables, EnsureSlot, RecordSlot, CreateSubscription,
       CommentSubscription, RecordSubscription, SetConnection, SetEnabled, Refresh,
       DropSupersededLogin, Publish, Refuse
  <2> QED
    BY <2>1 DEF ApplySecret, Meddle, Step
<1>2. body.status.created["secret"] = "yes"
  BY <1>1 DEF DeleteSecret, DeleteSupersededSecret, Made
<1>3. body.status.created["login"] = "yes"
  BY <1>a, <1>2 DEF NamesFollow
<1>4. source.role["generated"] = "absent"
  BY <1>a, <1>3 DEF LoginGone
<1> QED
  BY <1>4 DEF Operators

\* The generated Secret is the last of its login to go, in the finalizer and in a
\* login swap alike (teardown_replication: "it goes only once the login has";
\* _remove_superseded_login), even with handlers that queue, servers that do
\* not answer and an operator that restarts at any step.
THEOREM SecretGoesLast ==
  ASSUME PublicationsLeft
  PROVE  Spec => SecretOutlivesLogin
<1>1. Names /\ [Next]_vars => Names'
  BY NamesKept
<1>2. Names /\ [Next]_vars =>
        [/\ pc \in {"deleteSecret", "deleteSuperseded"} /\ pc' # pc
         /\ secrets.generated # NoPassword /\ secrets'.generated = NoPassword
         /\ "source" \in instances
         => ~Operators(source.role["generated"])]_vars
  BY SecretLast
<1> QED
  BY InitNames, <1>1, <1>2, PTL DEF Spec, SecretOutlivesLogin

\* With handlers that queue behind a pass too, status names what was made.
THEOREM CredentialsKeptQueued ==
  ASSUME PublicationsLeft
  PROVE  Spec => []CredentialsMatch
<1>1. Names => CredentialsMatch
  BY NamesGuard DEF NamesFollow, LoginMarked, CredentialsMatch, NamesWhatItMade
<1>2. Names /\ [Next]_vars => Names'
  BY NamesKept
<1> QED
  BY InitNames, <1>1, <1>2, PTL DEF Spec

\* And others are left alone.
THEOREM OthersKeptQueued ==
  ASSUME PublicationsLeft
  PROVE  Spec => OthersUntouched
<1>1. Names /\ [Next]_vars => Names'
  BY NamesKept
<1>2. Names /\ [Next]_vars => [LeavesOthersAlone]_vars
  BY NamesRespect DEF Respects
<1> QED
  BY InitNames, <1>1, <1>2, PTL DEF Spec, OthersUntouched

-----------------------------------------------------------------------------
(***************************************************************************)
(* 5  GrantsUntouched, where no handler queues behind another.  What is    *)
(* revoked is what status claims for the operator, so the induction says   *)
(* that while passes run a claim is about a membership the operator holds  *)
(* - in status, in the body and in what the pass will record - and that    *)
(* none of the three claims a membership a DBA granted.                    *)
(***************************************************************************)

\* The operator granted the provided login the read group.
Claims(st) == st.granted /\ st.login = "provided"

\* The steps before the pass knows whether it grants.
BeforeGrant ==
  {"inspect", "publication", "commentPublication", "recordPublication", "login",
   "createRole", "commentRole", "applySecret"}

ClaimsHold ==
  LET held == source.member["provided"] IN
  /\ Claims(status) => held # "admin"
  /\ MayPass /\ Claims(status) => held = "operator"
  /\ pc \in PassStep \ {"deleteSuperseded", "publish"} /\ Claims(body.status) =>
       held = "operator"
  /\ pc \in LoginInHand /\ Claims(result) => held = "operator"

\* What a pass has still to write of the grant, and what it has written.
ClaimsFollow ==
  /\ pc \in BeforeGrant => result.granted = body.status.granted
  /\ pc \in BeforeGrant \cup {"grant", "recordLogin"} =>
       status.login \in {body.status.login, "none"}
  /\ pc \in LoginInHand \ {"grant", "recordLogin"} /\ status.login = "provided" =>
       result.login = "provided"
  /\ pc \in {"applySecret", "grant"} /\ result.login = "generated" =>
       result.created["login"] = "yes"
  /\ pc = "dropSuperseded" => Superseded
  /\ pc \in TeardownStep => body.status = status /\ spec.deleting

Granting ==
  /\ Ownership
  /\ source.member["generated"] # "admin"
  /\ ClaimsHold /\ ClaimsFollow

LEMMA RemoveLoginMember ==
  ASSUME source \in SourceType, NEW login, NEW made, NEW granted,
         RemoveLogin(login, made, granted)
  PROVE  /\ \A l \in Login \ {login} : source'.member[l] = source.member[l]
         /\ \A l \in Login : source'.member[l] \in {source.member[l], "none"}
         /\ source'.member # source.member => made \/ granted
<1>1. \/ source' = source
      \/ /\ made
         /\ source' = [source EXCEPT !.role[login] = "absent", !.member[login] = "none",
                         !.password = IF login = "generated" THEN NoPassword ELSE @]
      \/ granted /\ source' = [source EXCEPT !.member[login] = "none"]
  BY Zenon DEF RemoveLogin
<1>2. source.member \in [Login -> {"none", "operator", "admin"}]
  BY DEF SourceType
<1>3. \/ source'.member = source.member
      \/ /\ made \/ granted
         /\ source'.member = [source.member EXCEPT ![login] = "none"]
  BY <1>1 DEF SourceType
<1> QED
  BY <1>2, <1>3

\* How the four steps that change a membership change it.
LEMMA MembersChange ==
  ASSUME Granting, [Next]_vars
  PROVE  LET held == source.member["provided"]
             next == source'.member["provided"]
         IN
         /\ source'.member["generated"] # "admin"
         /\ held = "admin" => next = "admin"
         /\ held = "operator" =>
              \/ next = "operator"
              \/ DropLogin
              \/ DropSupersededLogin /\ body.status.login = "provided"
         /\ next = "admin" => held = "admin" \/ (Meddle /\ ~status.granted)
<1>a. /\ source \in SourceType /\ Ownership /\ Guarded /\ Typed /\ ClaimsHold /\ ClaimsFollow
      /\ source.member["generated"] # "admin"
  BY DEF Granting, Ownership, Guarded, Typed, TypeOK, SourceType
<1>b. source.member \in [Login -> {"none", "operator", "admin"}]
  BY <1>a DEF SourceType
<1>1. CASE source'.member = source.member
  BY <1>1, <1>a, <1>b
<1>2. CASE GrantReadGroup
  <2>1. source.member[result.login] = "none" \/ source' = source
    BY <1>2, <1>a DEF GrantReadGroup
  <2>2. source' = source \/ source' = [source EXCEPT !.member[result.login] = "operator"]
    BY <1>2, Zenon DEF GrantReadGroup
  <2>3. \/ source'.member = source.member
        \/ /\ source.member[result.login] = "none"
           /\ source'.member = [source.member EXCEPT ![result.login] = "operator"]
    BY <1>a, <2>1, <2>2 DEF SourceType
  <2> QED
    BY <1>a, <1>b, <2>3 DEF Login
<1>3. ASSUME NEW made \in BOOLEAN, RemoveLogin(body.status.login, made, body.status.granted),
             made => body.status.login # "provided",
             \/ DropLogin /\ pc = "dropLogin"
             \/ DropSupersededLogin /\ pc = "dropSuperseded",
             ~Meddle
      PROVE  LET held == source.member["provided"]
                 next == source'.member["provided"]
             IN
             /\ source'.member["generated"] # "admin"
             /\ held = "admin" => next = "admin"
             /\ held = "operator" =>
                  \/ next = "operator"
                  \/ DropLogin
                  \/ DropSupersededLogin /\ body.status.login = "provided"
             /\ next = "admin" => held = "admin"
  <2>1. /\ \A l \in Login \ {body.status.login} : source'.member[l] = source.member[l]
        /\ \A l \in Login : source'.member[l] \in {source.member[l], "none"}
        /\ source'.member # source.member => made \/ body.status.granted
    BY <1>3, <1>a, RemoveLoginMember
  <2>2. source.member["provided"] = "admin" => source'.member["provided"] = "admin"
    <3>1. body.status.login = "provided" /\ body.status.granted =>
            source.member["provided"] # "admin"
      BY <1>3, <1>a DEF Claims, ClaimsHold, ClaimsFollow, PassStep, TeardownStep
    <3> QED
      BY <1>3, <2>1, <3>1 DEF Login
  <2> QED
    BY <1>3, <1>a, <2>1, <2>2 DEF Login
<1>4. CASE DropSupersededLogin
  <2> DEFINE made == body.status.created["login"] = "yes"
  <2>1. RemoveLogin(body.status.login, made, body.status.granted) /\ pc = "dropSuperseded"
    BY <1>4 DEF DropSupersededLogin, Step
  <2>2. made => body.status.login # "provided"
    BY <1>a, MadeIsGenerated
  <2>3. made \in BOOLEAN
    OBVIOUS
  <2>4. ~Meddle
    BY <2>1, <1>4 DEF Meddle, DropSupersededLogin, Step
  <2> HIDE DEF made
  <2> QED
    BY <1>3, <1>4, <2>1, <2>2, <2>3, <2>4
<1>5. CASE DropLogin
  <2>1. CASE body.status.login = "none"
    BY <1>1, <1>5, <2>1 DEF DropLogin
  <2>2. CASE body.status.login # "none"
    <3>1. RemoveLogin(body.status.login, Made("login"), body.status.granted) /\ pc = "dropLogin"
      BY <1>5, <2>2, Zenon DEF DropLogin, Step
    <3>2. Made("login") => body.status.login # "provided"
      BY <1>a, MadeIsGenerated DEF Made
    <3>3. Made("login") \in BOOLEAN
      BY DEF Made
    <3>4. ~Meddle
      BY <3>1, <1>5 DEF Meddle, DropLogin, Step
    <3> QED
      BY <1>3, <1>5, <3>1, <3>2, <3>3, <3>4
  <2> QED
    BY <2>1, <2>2
<1>6. CASE Meddle /\ source'.member # source.member
  <2>1. \/ source' = source
        \/ source' = [source EXCEPT !.publication = "absent"]
        \/ /\ source' = [source EXCEPT !.member["provided"] = "admin"]
           /\ source.member["provided"] = "none" /\ ~status.granted
    BY <1>6, Zenon DEF Meddle
  <2>2. /\ source'.member = [source.member EXCEPT !["provided"] = "admin"]
        /\ source.member["provided"] = "none" /\ ~status.granted
    BY <1>a, <1>6, <2>1 DEF SourceType
  <2> QED
    BY <1>a, <1>b, <1>6, <2>2 DEF Login
<1> QED
  BY <1>a, <1>1, <1>2, <1>4, <1>5, <1>6, SourceMoves

\* Only two steps of a pass decide whether it grants.
LEMMA GrantedStays ==
  ASSUME result \in Result, Pass, pc' \in PassStep,
         ~AdoptProvidedLogin, ~ApplySecret, ~GrantReadGroup
  PROVE  result'.granted = result.granted
<1>1. \A o \in Object : Marked(o).granted = result.granted /\ Marked(o) \in Result
  BY SetCreated DEF Marked, Result, Mark
<1>2. CASE Inspect \/ ReadSecret
  BY <1>2 DEF Inspect, ReadSecret, Result
<1>3. CASE EnsurePublication \/ EnsureSlot \/ CommentSubscription \/ SetConnection
  BY <1>1, <1>3 DEF EnsurePublication, EnsureSlot, CommentSubscription, SetConnection, Object
<1>4. CASE EnsureLoginRole \/ CommentRole
  <2>1. result' \in {result, [Marked("login") EXCEPT !.login = "generated"]}
    BY <1>4 DEF EnsureLoginRole, CommentRole
  <2> QED
    BY <1>1, <2>1 DEF Result, Object
<1> QED
  BY <1>2, <1>3, <1>4 DEF Pass, CommentPublication, RecordPublication,
     RecordLogin, ConvergeTables, RecordSlot, CreateSubscription, RecordSubscription,
     SetEnabled, Refresh, DropSupersededLogin, DeleteSupersededSecret, Publish, Refuse, Idle,
     PassStep

LEMMA ClaimsFollowNext ==
  ASSUME ~Overlap, Granting, [Next]_vars
  PROVE  ClaimsFollow'
<1>a. /\ Typed /\ ClaimsFollow /\ queued = {} /\ NamesWhatItMade(body.status)
      /\ result \in Result /\ body \in Body /\ status \in Status
  BY DEF Granting, Ownership, Guarded, Typed, TypeOK
<1>b. ASSUME pc' \notin PassStep \cup TeardownStep PROVE ClaimsFollow'
  BY <1>b DEF ClaimsFollow, BeforeGrant, LoginInHand, PassStep
<1>c. ASSUME pc \in LoginInHand, pc' \in LoginInHand, Pass
      PROVE  /\ result'.login = result.login /\ result'.created["login"] = result.created["login"]
  BY <1>a, <1>c, LoginStays
<1>1. CASE Around
  <2>1. UNCHANGED <<status, body, result, pc>> /\ (spec.deleting => spec'.deleting)
    BY <1>a, <1>1, OneWay DEF Around
  <2> QED
    BY <1>a, <2>1 DEF ClaimsFollow, Superseded
<1>2. CASE GoesOn
  <2>1. CASE pc' = "idle"
    BY <1>b, <2>1 DEF PassStep, TeardownStep
  <2>2. CASE pc \in TeardownStep /\ pc' \in TeardownStep
    <3>1. body' = body /\ status' = status /\ (spec.deleting => spec'.deleting)
      BY <1>a, <1>2, OneWay DEF GoesOn
    <3> QED
      BY <1>a, <2>2, <3>1 DEF ClaimsFollow, BeforeGrant, LoginInHand, TeardownStep
  <2> QED
    BY <1>2, <2>1, <2>2 DEF GoesOn
<1>3. CASE Begins
  <2>1. /\ body'.status = status /\ status' = status /\ body'.deleting = spec.deleting
        /\ (spec.deleting => spec'.deleting)
    BY <1>a, <1>3, OneWay, SnapshotFields DEF Begins
  <2>2. CASE pc' = "inspect"
    <3>1. result' = NewResult(body'.status)
      BY <1>3, <2>2 DEF Begins
    <3> QED
      BY <2>1, <2>2, <3>1 DEF ClaimsFollow, BeforeGrant, LoginInHand, TeardownStep, NewResult
  <2>3. CASE pc' = "dropSubscription"
    BY <1>3, <2>1, <2>3 DEF Begins, ClaimsFollow, BeforeGrant, LoginInHand
  <2>4. CASE pc' = "idle"
    BY <1>b, <2>4 DEF PassStep, TeardownStep
  <2> QED
    BY <1>3, <2>2, <2>3, <2>4 DEF Begins
<1>4. CASE Pass /\ pc \in BeforeGrant /\ pc' \in BeforeGrant
  <2>1. ~AdoptProvidedLogin /\ ~ApplySecret /\ ~GrantReadGroup
    BY <1>4 DEF AdoptProvidedLogin, ApplySecret, GrantReadGroup, Step, BeforeGrant
  <2>2. result'.granted = result.granted /\ body' = body
    BY <1>a, <1>4, <2>1, GrantedStays, PassFrame DEF BeforeGrant, PassStep
  <2>3. status'.login \in {status.login, "none"}
    <3>1. status' # status => pc = "recordPublication" /\ status'.login = Recorded(result).login
      BY <1>a, <1>4, StatusWritten DEF BeforeGrant
    <3>2. pc = "recordPublication" => Recorded(result).login = "none"
      BY <1>a, RecordedFields DEF Granting, Ownership, ResultMatches, Early
    <3> QED
      BY <3>1, <3>2
  <2>4. pc' = "applySecret" => result'.created["login"] = "yes"
    <3>1. pc' = "applySecret" => result' = [Marked("login") EXCEPT !.login = "generated"]
      BY <1>4 DEF BeforeGrant, Pass, Step, Inspect, EnsurePublication, CommentPublication,
         RecordPublication, AdoptProvidedLogin, ReadSecret, EnsureLoginRole, CommentRole,
         ApplySecret, GrantReadGroup, RecordLogin, ConvergeTables, EnsureSlot, RecordSlot,
         CreateSubscription, CommentSubscription, RecordSubscription, SetConnection,
         SetEnabled, Refresh, DropSupersededLogin, DeleteSupersededSecret, Publish, Refuse, Idle
    <3>2. Marked("login") \in Result
      BY <1>a, SetCreated DEF Marked, Object, Mark
    <3>3. [Marked("login") EXCEPT !.login = "generated"].created = Marked("login").created
      BY <3>2 DEF Result
    <3> QED
      BY <1>a, <3>1, <3>3, MarkedFields DEF Object
  <2>5. pc' \notin LoginInHand \cup TeardownStep
    BY <1>4 DEF BeforeGrant, LoginInHand, TeardownStep
  <2> QED
    BY <1>4, <1>a, <2>2, <2>3, <2>4, <2>5 DEF ClaimsFollow, BeforeGrant, LoginInHand
<1>5. CASE AdoptProvidedLogin \/ ApplySecret
  <2>1. /\ pc \in BeforeGrant /\ pc' = "grant" /\ status' = status /\ body' = body
    BY <1>5 DEF AdoptProvidedLogin, ApplySecret, Step, BeforeGrant
  <2>2. result'.login = "generated" => result'.created["login"] = "yes"
    <3>1. CASE AdoptProvidedLogin
      BY <1>a, <3>1, AdoptedFields
    <3>2. CASE ApplySecret
      <4>1. pc = "applySecret" /\ result.login = "generated"
        BY <1>a, <3>2 DEF ApplySecret, Step, Typed, ResultFits
      <4>2. PICK b : result' = [Marked("secret") EXCEPT !.credentials = "generated", !.granted = b]
        BY <3>2 DEF ApplySecret
      <4>3. Marked("secret") \in Result
        BY <1>a, SetCreated DEF Marked, Object, Mark
      <4>4. result'.created = Marked("secret").created
        BY <4>2, <4>3 DEF Result
      <4> QED
        BY <1>a, <4>1, <4>4, MarkedFields DEF ClaimsFollow, Object
    <3> QED
      BY <1>5, <3>1, <3>2
  <2> QED
    BY <1>a, <2>1, <2>2 DEF ClaimsFollow, BeforeGrant, LoginInHand, TeardownStep
<1>6. CASE GrantReadGroup
  <2>1. /\ pc = "grant" /\ pc' \in {"recordLogin", "tables"}
        /\ status' = status /\ body' = body /\ result'.login = result.login
    BY <1>6, <1>a DEF GrantReadGroup, Step, Result
  <2>2. pc' = "tables" /\ status.login = "provided" => result.login = "provided"
    <3> SUFFICES ASSUME pc' = "tables", status.login = "provided", result.login = "generated"
                 PROVE  FALSE
      BY <1>a, <2>1 DEF Typed, ResultFits, LoginInHand, Login
    <3>1. body.status.login = "provided"
      BY <1>a, <2>1 DEF ClaimsFollow
    <3>2. body.status.created["login"] # "yes" /\ result.created["login"] = "yes"
      BY <1>a, <2>1, <3>1 DEF ClaimsFollow, NamesWhatItMade
    <3>3. PICK g : result' = [result EXCEPT !.granted = g]
      BY <1>6 DEF GrantReadGroup
    <3>4. result'.created = [body.status.created EXCEPT !["publication"] = "yes"]
      BY <1>6, <2>1 DEF GrantReadGroup, Step
    <3>5. result'.created = result.created
      BY <1>a, <3>3 DEF Result
    <3>6. body.status.created \in [Object -> Mark]
      BY <1>a DEF Body, Status
    <3> QED
      BY <3>2, <3>4, <3>5, <3>6 DEF Object
  <2> QED
    BY <1>a, <2>1, <2>2 DEF ClaimsFollow, BeforeGrant, LoginInHand, TeardownStep
<1>7. CASE /\ Pass /\ ~GrantReadGroup /\ pc \in LoginInHand /\ pc' \in LoginInHand
  <2>1. body' = body /\ pc' \notin {"grant", "recordLogin"} /\ pc # "grant"
    BY <1>7, PassFrame DEF Pass, LoginInHand, Step, Inspect, EnsurePublication,
       CommentPublication,
       RecordPublication, AdoptProvidedLogin, ReadSecret, EnsureLoginRole, CommentRole,
       ApplySecret, RecordLogin, ConvergeTables, EnsureSlot, RecordSlot,
       CreateSubscription, CommentSubscription, RecordSubscription, SetConnection,
       SetEnabled, Refresh, DropSupersededLogin, DeleteSupersededSecret, Publish, Refuse, Idle
  <2>2. status'.login = "provided" => result'.login = "provided"
    <3>1. CASE status' # status
      BY <1>a, <1>c, <1>7, <3>1, StatusWritten, RecordedFields
    <3>2. CASE status' = status /\ pc # "recordLogin"
      BY <1>a, <1>c, <1>7, <2>1, <3>2 DEF ClaimsFollow
    <3>3. CASE pc = "recordLogin"
      <4>1. status' = Recorded(result)
        BY <1>7, <3>3 DEF Pass, Step, Inspect, EnsurePublication,
           CommentPublication,
           RecordPublication, AdoptProvidedLogin, ReadSecret, EnsureLoginRole, CommentRole,
           ApplySecret, GrantReadGroup, RecordLogin, ConvergeTables, EnsureSlot, RecordSlot,
           CreateSubscription, CommentSubscription, RecordSubscription, SetConnection,
           SetEnabled, Refresh, DropSupersededLogin, DeleteSupersededSecret, Publish, Refuse
      <4> QED
        BY <1>a, <1>c, <1>7, <4>1, RecordedFields
    <3> QED
      BY <3>1, <3>2, <3>3
  <2>3. pc' = "dropSuperseded" => Superseded'
    <3>1. pc' = "dropSuperseded" => Refresh
      BY <1>7 DEF Pass, Step, Inspect, EnsurePublication, CommentPublication,
         RecordPublication, AdoptProvidedLogin, ReadSecret, EnsureLoginRole, CommentRole,
         ApplySecret, GrantReadGroup, RecordLogin, ConvergeTables, EnsureSlot, RecordSlot,
         CreateSubscription, CommentSubscription, RecordSubscription, SetConnection,
         SetEnabled, DropSupersededLogin, DeleteSupersededSecret, Publish, Refuse, Idle
    <3>2. Refresh /\ pc' = "dropSuperseded" => Superseded
      BY DEF Refresh, Step
    <3> QED
      BY <1>c, <1>7, <2>1, <3>1, <3>2 DEF Superseded
  <2> QED
    BY <1>7, <2>1, <2>2, <2>3 DEF ClaimsFollow, BeforeGrant, LoginInHand, TeardownStep
<1>8. CASE Pass
  <2>1. \/ pc' = "idle"
        \/ pc \in BeforeGrant /\ pc' \in BeforeGrant
        \/ AdoptProvidedLogin \/ ApplySecret
        \/ pc \in LoginInHand /\ pc' \in LoginInHand
    BY <1>8 DEF Pass, BeforeGrant, LoginInHand, Step, Inspect, EnsurePublication,
       CommentPublication,
       RecordPublication, ReadSecret, EnsureLoginRole, CommentRole, GrantReadGroup,
       RecordLogin, ConvergeTables, EnsureSlot, RecordSlot,
       CreateSubscription, CommentSubscription, RecordSubscription, SetConnection,
       SetEnabled, Refresh, DropSupersededLogin, DeleteSupersededSecret, Publish, Refuse, Idle
  <2> QED
    BY <1>b, <1>4, <1>5, <1>6, <1>7, <1>8, <2>1 DEF PassStep, TeardownStep
<1> QED
  BY <1>a, <1>1, <1>2, <1>3, <1>8, PassOrRest, RestShapes

LEMMA ClaimsHoldNext ==
  ASSUME ~Overlap, Granting, [Next]_vars
  PROVE  ClaimsHold'
<1> DEFINE held == source.member["provided"]
<1>a. /\ Typed /\ ClaimsHold /\ ClaimsFollow /\ queued = {} /\ Ownership
      /\ result \in Result /\ status \in Status /\ source \in SourceType
  BY DEF Granting, Ownership, Guarded, Typed, TypeOK, SourceType
<1>b. result.login = "none" \/ pc # "recordPublication"
  BY <1>a DEF Ownership, ResultMatches, Early
<1>1. ASSUME held = "operator", ~DropLogin,
             ~DropSupersededLogin \/ body.status.login # "provided"
      PROVE  held' = "operator"
  BY <1>1, MembersChange
\* While status may still be worked from, nobody revokes what it claims.
<1>2. ASSUME MayPass', held = "operator", status.login = "provided" PROVE held' = "operator"
  <2>1. MayPass
    BY <1>a, <1>2, MayPassBefore
  <2>2. ~DropLogin
    BY <1>a, <2>1 DEF MayPass, ClaimsFollow, PassStep, TeardownStep, DropLogin, Step
  <2>3. DropSupersededLogin => body.status.login # "provided"
    BY <1>a, <1>2 DEF ClaimsFollow, Superseded, LoginInHand, DropSupersededLogin, Step
  <2> QED
    BY <1>1, <1>2, <2>2, <2>3
<1>3. ASSUME status' # status, Claims(status')
      PROVE  pc \in LoginInHand /\ Claims(result) /\ held = "operator" /\ source' = source
  <2>1. /\ status'.login = result.login /\ status'.granted = result.granted
        /\ pc \in {"recordPublication"} \cup LoginInHand /\ source' = source
    <3>1. Recorded(result).login = result.login /\ Recorded(result).granted = result.granted
      BY <1>a DEF Recorded, Status
    <3> QED
      BY <1>a, <1>3, <3>1, StatusWritten DEF LoginInHand
  <2>2. Claims(result)
    BY <1>3, <2>1 DEF Claims
  <2> QED
    BY <1>a, <1>b, <2>1, <2>2 DEF ClaimsHold, Claims
<1>4. Claims(status') => held' # "admin"
  <2>1. CASE status' = status /\ Claims(status)
    BY <1>a, <2>1, MembersChange DEF ClaimsHold, Claims
  <2>2. CASE status' # status
    BY <1>3, <2>2
  <2> QED
    BY <2>1, <2>2
<1>5. MayPass' /\ Claims(status') => held' = "operator"
  <2>1. CASE status' = status /\ Claims(status) /\ MayPass'
    <3>1. held = "operator"
      BY <1>a, <2>1, MayPassBefore DEF ClaimsHold
    <3> QED
      BY <1>2, <2>1, <3>1 DEF Claims
  <2>2. CASE status' # status
    BY <1>3, <2>2
  <2> QED
    BY <2>1, <2>2
<1>6. pc' \in PassStep \ {"deleteSuperseded", "publish"} /\ Claims(body'.status) =>
        held' = "operator"
  <2> SUFFICES ASSUME pc' \in PassStep \ {"deleteSuperseded", "publish"}, Claims(body'.status)
               PROVE  held' = "operator"
    OBVIOUS
  <2>1. CASE Pass \/ Around
    <3>1. body' = body
      BY <2>1, PassFrame DEF Around
    <3>2. pc \in PassStep \ {"deleteSuperseded", "publish"}
      <4>1. CASE Around
        BY <4>1 DEF Around
      <4>2. CASE Pass
        BY <4>2 DEF Pass, PassStep, Step, Inspect, EnsurePublication, CommentPublication,
           RecordPublication, AdoptProvidedLogin, ReadSecret, EnsureLoginRole, CommentRole,
           ApplySecret, GrantReadGroup, RecordLogin, ConvergeTables, EnsureSlot, RecordSlot,
           CreateSubscription, CommentSubscription, RecordSubscription, SetConnection,
           SetEnabled, Refresh, DropSupersededLogin, DeleteSupersededSecret, Publish, Refuse,
           Idle
      <4> QED
        BY <2>1, <4>1, <4>2
    <3>3. held = "operator" /\ body.status.login = "provided"
      BY <1>a, <3>1, <3>2 DEF ClaimsHold, Claims
    <3>4. ~DropLogin /\ ~DropSupersededLogin
      BY <2>1, <3>2 DEF PassStep, DropLogin, DropSupersededLogin, Step, Around
    <3> QED
      BY <1>1, <3>3, <3>4
  <2>2. CASE GoesOn
    BY <2>2 DEF GoesOn, PassStep, TeardownStep
  <2>3. CASE Begins
    <3>1. body'.status = status /\ ~body'.deleting /\ body'.deleting = spec.deleting
      BY <1>a, <2>3, SnapshotFields DEF Begins, PassStep
    <3>2. held' = held /\ MayPass
      BY <2>3, <3>1 DEF Begins, MayPass
    <3> QED
      BY <1>a, <3>1, <3>2 DEF ClaimsHold
  <2> QED
    BY <1>a, <2>1, <2>2, <2>3, PassOrRest, RestShapes
<1>7. pc' \in LoginInHand /\ Claims(result') => held' = "operator"
  <2>a. SUFFICES ASSUME pc' \in LoginInHand, Claims(result') PROVE held' = "operator"
    OBVIOUS
  <2>1. CASE AdoptProvidedLogin
    <3>1. pc = "login" /\ source' = source
      BY <2>1 DEF AdoptProvidedLogin, Step
    <3>2. result'.granted = Inherited("provided")
      BY <1>a, <2>1 DEF AdoptProvidedLogin, Result
    <3>3. Claims(body.status)
      BY <1>a, <2>a, <3>1, <3>2 DEF Claims, Inherited, ClaimsFollow, BeforeGrant
    <3> QED
      BY <1>a, <3>1, <3>3 DEF ClaimsHold, PassStep
  <2>2. CASE ApplySecret
    <3>1. pc = "applySecret" /\ result.login = "generated"
      BY <1>a, <2>2 DEF ApplySecret, Step, Typed, ResultFits
    <3>2. PICK b : result' = [Marked("secret") EXCEPT !.credentials = "generated", !.granted = b]
      BY <2>2 DEF ApplySecret
    <3>3. Marked("secret") \in Result
      BY <1>a, SetCreated DEF Marked, Object, Mark
    <3>4. Marked("secret").login = "generated"
      BY <1>a, <3>1, MarkedFields DEF Object
    <3>5. result'.login = "generated"
      BY <3>2, <3>3, <3>4 DEF Result
    <3> QED
      BY <2>a, <3>5 DEF Claims
  <2>3. CASE GrantReadGroup
    <3>1. pc = "grant" /\ result'.login = result.login
      BY <1>a, <2>3 DEF GrantReadGroup, Step, Result
    <3>2. result.login = "provided"
      BY <2>a, <3>1 DEF Claims
    <3>3. CASE source.member["provided"] = "none"
      <4>1. source' = [source EXCEPT !.member["provided"] = "operator"]
        BY <2>3, <3>2, <3>3 DEF GrantReadGroup
      <4> QED
        BY <1>a, <4>1 DEF SourceType, Login
    <3>4. CASE source.member["provided"] # "none"
      <4>1. source' = source /\ result' = [result EXCEPT !.granted = @ \/ FALSE]
        BY <2>3, <3>2, <3>4 DEF GrantReadGroup
      <4>2. result.granted
        BY <1>a, <2>a, <4>1 DEF Claims, Result
      <4> QED
        BY <1>a, <3>1, <3>2, <4>1, <4>2 DEF ClaimsHold, Claims, LoginInHand
    <3> QED
      BY <3>3, <3>4
  <2>4. CASE /\ Pass /\ ~AdoptProvidedLogin /\ ~ApplySecret /\ ~GrantReadGroup
    <3>1. pc \in LoginInHand
      BY <2>a, <2>4 DEF Pass, LoginInHand, Step, Inspect, EnsurePublication, CommentPublication,
         RecordPublication, ReadSecret, EnsureLoginRole, CommentRole, RecordLogin,
         ConvergeTables, EnsureSlot, RecordSlot, CreateSubscription, CommentSubscription,
         RecordSubscription, SetConnection, SetEnabled, Refresh, DropSupersededLogin,
         DeleteSupersededSecret, Publish, Refuse, Idle
    <3>2. pc' \in PassStep
      BY <2>a DEF LoginInHand, PassStep
    <3>3. result'.login = result.login /\ result'.granted = result.granted
      BY <1>a, <2>a, <2>4, <3>1, <3>2, LoginStays, GrantedStays
    <3>4. held = "operator" /\ result.login = "provided"
      BY <1>a, <2>a, <3>1, <3>3 DEF ClaimsHold, Claims
    <3>5. ~DropLogin /\ (DropSupersededLogin => body.status.login # "provided")
      BY <1>a, <3>1, <3>4 DEF DropLogin, DropSupersededLogin, Step, LoginInHand, ClaimsFollow,
         Superseded
    <3> QED
      BY <1>1, <3>4, <3>5
  <2>5. CASE Around
    <3>1. pc \in LoginInHand /\ result' = result
      BY <2>a, <2>5 DEF Around
    <3>2. held = "operator"
      BY <1>a, <2>a, <3>1 DEF ClaimsHold
    <3>3. ~DropLogin /\ ~DropSupersededLogin
      BY <2>5 DEF Around, DropLogin, DropSupersededLogin, Step
    <3> QED
      BY <1>1, <3>2, <3>3
  <2>6. CASE GoesOn \/ Begins
    BY <2>a, <2>6 DEF GoesOn, Begins, LoginInHand, TeardownStep
  <2> QED
    BY <1>a, <2>1, <2>2, <2>3, <2>4, <2>5, <2>6, PassOrRest, RestShapes
<1> QED
  BY <1>4, <1>5, <1>6, <1>7 DEF ClaimsHold, Claims

LEMMA GrantingKept ==
  ASSUME ~Overlap, Granting, [Next]_vars
  PROVE  Granting'
<1>1. Ownership'
  BY NextOwned DEF Granting
<1>2. source'.member["generated"] # "admin"
  BY MembersChange
<1> QED
  BY <1>1, <1>2, ClaimsHoldNext, ClaimsFollowNext DEF Granting

LEMMA InitGranting == Init => Granting
<1> SUFFICES ASSUME Init PROVE Granting
  OBVIOUS
<1>1. Ownership
  BY InitOwned
<1>2. status = NoStatus /\ pc = "idle"
  BY DEF Init
<1>3. source.member["generated"] = "none"
  <2>1. PICK p \in HolderOf("publication"), r \in HolderOf("login"), s \in HolderOf("slot") :
          source = [publication |-> p,
                    role |-> [l \in Login |-> IF l = "generated" THEN r ELSE "foreign"],
                    password |-> NoPassword, member |-> [l \in Login |-> "none"],
                    slot |-> IF s = "foreign" THEN "active" ELSE "absent"]
    BY Zenon DEF Init
  <2> QED
    BY <2>1 DEF Login
<1>4. ClaimsHold
  BY <1>2 DEF ClaimsHold, Claims, NoStatus, PassStep, LoginInHand
<1>5. ClaimsFollow
  BY <1>2 DEF ClaimsFollow, BeforeGrant, LoginInHand, TeardownStep
<1> QED
  BY <1>1, <1>3, <1>4, <1>5 DEF Granting

\* A membership a DBA granted a login stays, through every swap of the login,
\* every failure and the finalizer: what is revoked is what status says the
\* operator granted (_grant, _remove_superseded_login, _remove_source_objects).
THEOREM GrantsKept ==
  ASSUME ~Overlap
  PROVE  Spec => GrantsUntouched
<1>1. Granting /\ [Next]_vars => Granting'
  BY GrantingKept
<1>2. Granting /\ [Next]_vars =>
        [\A l \in Login : source.member[l] = "admin" => source'.member[l] = "admin"]_vars
  <2> SUFFICES ASSUME Granting, [Next]_vars
               PROVE  \A l \in Login : source.member[l] = "admin" => source'.member[l] = "admin"
    OBVIOUS
  <2> QED
    BY MembersChange DEF Login, Granting
<1> QED
  BY InitGranting, <1>1, <1>2, PTL DEF Spec, GrantsUntouched


-----------------------------------------------------------------------------
(***************************************************************************)
(* 6  Publication, slot and subscription: what has been made is recorded,  *)
(* and what is recorded is cleared.  The operator may die at any step but  *)
(* those between making an object and recording it, where status cannot    *)
(* know of the object (Unrecorded); no handler queues behind another, the  *)
(* slot's name is the operator's, and no PostgresInstance turns invalid    *)
(* under a finalizer.  Servers may still be unreachable, or go.            *)
(***************************************************************************)

RecordsMade ==
  /\ ~Overlap
  /\ "slot" \notin Strangers
  /\ \A b \in Budgets : b.at \cap (Unrecorded \cup {"misconfigured"}) = {}

Standing == {"publication", "slot", "subscription"}

BeforeSlot == BeforeGrant \cup {"grant", "recordLogin", "tables", "slot"}

ObjectsMarked ==
  /\ pc \notin {"commentPublication", "recordPublication"} /\ Operators(source.publication) =>
       status.created["publication"] = "yes"
  /\ pc # "recordSlot" /\ source.slot # "absent" =>
       "yes" \in {status.created["slot"], status.created["subscription"]}
  /\ pc \notin {"commentSubscription", "recordSubscription"} /\ Operators(target.subscription) =>
       status.created["subscription"] = "yes"

\* A pass forgets no mark, and adds one of its own before it is recorded.
MarksCarried ==
  /\ pc \in PassStep =>
       \A o \in Standing : status.created[o] = "yes" => result.created[o] = "yes"
  /\ pc \in BeforeSlot =>
       \A o \in {"slot", "subscription"} : result.created[o] = status.created[o]
  /\ pc \in {"commentPublication", "recordPublication"} => result.created["publication"] = "yes"
  /\ pc = "recordSlot" => result.created["slot"] = "yes"
  /\ pc = "recordSubscription" => result.created["subscription"] = "yes"

\* What the inspection saw of the subscription still holds, and without one
\* nothing streams from the slot.
SubscriptionFits ==
  /\ pc # "commentSubscription" => target.subscription # "bare"
  /\ MayPass /\ target.subscription = "absent" => source.slot # "active"
  /\ pc \in PassStep \ {"inspect"} /\ result.seen => target.subscription = "ours"
  /\ pc \in (BeforeSlot \ {"inspect"}) \cup {"recordSlot", "createSubscription"}
       /\ ~result.seen => target.subscription = "absent"
  /\ pc \in {"slot", "recordSlot", "createSubscription", "commentSubscription",
             "recordSubscription"} => ~result.seen
  /\ pc \in {"setConnection", "setEnabled"} => result.seen
  /\ pc \in {"recordSubscription", "refresh", "dropSuperseded", "deleteSuperseded", "publish"} =>
       target.subscription = "ours"

\* A finalizer leaves nothing behind it, except where it could not go.
ObjectsCleared ==
  /\ spec.released => pc = "idle" /\ spec.deleting
  /\ pc \in TeardownStep \ {"finish"} => missed \subseteq {"target"}
  /\ pc = "dropSubscription" => missed = {}
  /\ pc \in TeardownStep \ {"dropSubscription"} /\ "target" \in instances \ missed =>
       ~Operators(target.subscription)
  /\ pc \in TeardownStep \ {"dropSubscription", "dropSlot"} /\ "source" \in instances \ missed =>
       source.slot = "absent"
  /\ pc \in TeardownStep \ {"dropSubscription", "dropSlot", "dropPublication"}
       /\ "source" \in instances \ missed => ~Operators(source.publication)
  /\ spec.released =>
       /\ "target" \in instances => ~Operators(target.subscription)
       /\ "source" \in instances => source.slot = "absent" /\ ~Operators(source.publication)

Objects ==
  /\ Granting
  /\ budget.at \cap (Unrecorded \cup {"misconfigured"}) = {}
  /\ ObjectsMarked /\ MarksCarried /\ SubscriptionFits /\ ObjectsCleared

LEMMA ObjectsGuard ==
  ASSUME Objects
  PROVE  /\ Typed /\ queued = {} /\ ClaimsFollow /\ Owns(body.status.created)
         /\ source \in SourceType /\ target \in TargetType /\ status \in Status
         /\ result \in Result /\ missed \subseteq Side /\ spec \in SpecType
         /\ ~Abandon
         /\ (pc \in TeardownStep => ~MayPass)
<1>1. /\ Typed /\ queued = {} /\ ClaimsFollow /\ Owns(body.status.created)
      /\ "misconfigured" \notin budget.at
  BY DEF Objects, Granting, Ownership, Guarded
<1>2. pc \in TeardownStep => ~MayPass
  BY <1>1 DEF ClaimsFollow, MayPass, TeardownStep, PassStep
<1> QED
  BY <1>1, <1>2 DEF Typed, TypeOK, SourceType, TargetType, SpecType, Abandon

\* The steps that end a pass halfway are the failed call and the restart.
LEMMA PassBroken ==
  ASSUME Typed, Rest, pc \in PassStep, pc' # pc
  PROVE  Break
<1>1. Teardown \/ TargetUnreachable \/ SourceUnreachable \/ ResetLoginPassword \/ Abandon =>
        pc \in TeardownStep
  BY DEF Teardown, DropSubscription, SourceGone, EndWalsender, DropSlot, DropPublication,
     DropLogin, DeleteSecret, Finish, TargetUnreachable, SourceUnreachable, Unreachable,
     ResetLoginPassword, Abandon, Step, TeardownStep
<1>2. StartPass \/ StartTeardown \/ StartQueued => pc = "idle"
  BY DEF StartPass, StartTeardown, StartQueued
<1>3. QueueHandler \/ Edit \/ Delete \/ WorkerConnects \/ WorkerStops \/ Meddle
      \/ UNCHANGED vars => pc' = pc
  BY DEF QueueHandler, Edit, Delete, WorkerConnects, WorkerStops, Meddle, vars
<1>4. pc # "idle" /\ pc \notin TeardownStep
  BY DEF PassStep, TeardownStep
<1> QED
  BY <1>1, <1>2, <1>3, <1>4 DEF Rest

\* A pass that has made something records it.
LEMMA RecordingGoesOn ==
  ASSUME Objects, [Next]_vars, pc \in Unrecorded, pc' # pc
  PROVE  Pass
<1>1. Typed /\ pc \in PassStep /\ ~Break
  BY ObjectsGuard DEF Objects, Unrecorded, PassStep, Break
<1> QED
  BY <1>1, PassBroken, PassOrRest

\* Outside a pass the target changes only by DROP SUBSCRIPTION; and only a pass
\* makes a slot.
LEMMA RestKeeps ==
  ASSUME Typed, Rest
  PROVE  /\ target' = target \/ DropSubscription
         /\ source.slot = "absent" => source'.slot = "absent"
         /\ source'.publication \in {source.publication, "absent"}
         /\ UNCHANGED secrets \/ DeleteSecret \/ (Meddle /\ secrets'.generated = NoPassword)
<1>1. source \in SourceType /\ [Next]_vars
  BY PassOrRest DEF Typed, TypeOK, SourceType
<1>2. pc' # pc => (pc' \notin PassStep \/ pc' = "inspect")
  BY RestShapes DEF Around, GoesOn, Begins, PassStep, TeardownStep
<1>3. /\ ~EnsurePublication /\ ~CommentPublication /\ ~EnsureSlot /\ ~CreateSubscription
      /\ ~CommentSubscription /\ ~SetConnection /\ ~SetEnabled /\ ~ApplySecret
      /\ ~DeleteSupersededSecret
  BY <1>2, TakenAt DEF PassStep
<1>4. DropSlot \/ DropSubscription \/ EndWalsender \/ WorkerConnects \/ WorkerStops =>
        (source.slot = "absent" => source'.slot = "absent")
  BY <1>1 DEF DropSlot, DropSubscription, EndWalsender, WorkerConnects, WorkerStops, SourceType
<1>5. DropPublication => source'.publication \in {source.publication, "absent"}
  BY <1>1 DEF DropPublication, SourceType
<1> QED
  BY <1>1, <1>3, <1>4, <1>5, SourceMoves, OthersMove

\* What a pass saw, its inspection alone decides.
LEMMA SeenStays ==
  ASSUME result \in Result, Pass, pc' \in PassStep, ~Inspect
  PROVE  result'.seen = result.seen
<1>1. \A o \in Object : Marked(o).seen = result.seen /\ Marked(o) \in Result
  BY SetCreated DEF Marked, Result, Mark
<1>2. CASE ReadSecret
  BY <1>2 DEF ReadSecret, Result
<1>3. CASE EnsurePublication \/ EnsureSlot \/ CommentSubscription \/ SetConnection
  BY <1>1, <1>3 DEF EnsurePublication, EnsureSlot, CommentSubscription, SetConnection, Object
<1>4. CASE EnsureLoginRole \/ CommentRole
  <2>1. result' \in {result, [Marked("login") EXCEPT !.login = "generated"]}
    BY <1>4 DEF EnsureLoginRole, CommentRole
  <2> QED
    BY <1>1, <2>1 DEF Result, Object
<1>5. CASE ApplySecret
  <2>1. PICK b : result' = [Marked("secret") EXCEPT !.credentials = "generated", !.granted = b]
    BY <1>5 DEF ApplySecret
  <2> QED
    BY <1>1, <2>1 DEF Result, Object
<1>6. CASE AdoptProvidedLogin
  <2>1. PICK b : result' = [result EXCEPT !.login = "provided", !.credentials = "provided",
                               !.password = ProvidedPassword, !.granted = b,
                               !.created["login"] = "no", !.created["secret"] = "no"]
    BY <1>6 DEF AdoptProvidedLogin
  <2> QED
    BY <2>1 DEF Result
<1>7. CASE GrantReadGroup
  <2>1. PICK b : result' = [result EXCEPT !.granted = b]
    BY <1>7 DEF GrantReadGroup
  <2> QED
    BY <2>1 DEF Result
<1> QED
  BY <1>2, <1>3, <1>4, <1>5, <1>6, <1>7 DEF Pass, CommentPublication, RecordPublication,
     RecordLogin, ConvergeTables, RecordSlot, CreateSubscription, RecordSubscription,
     SetEnabled, Refresh, DropSupersededLogin, DeleteSupersededSecret, Publish, Refuse, Idle,
     PassStep

\* No mark of an object on a server is lost from status.
LEMMA MarksStay ==
  ASSUME Objects, [Next]_vars
  PROVE  \A o \in Standing : status.created[o] = "yes" => status'.created[o] = "yes"
<1> SUFFICES ASSUME NEW o \in Standing, status.created[o] = "yes", status' # status
             PROVE  status'.created[o] = "yes"
  OBVIOUS
<1>1. pc \in PassStep /\ status'.created = Recorded(result).created
  BY ObjectsGuard, StatusWritten DEF PassStep
<1>2. result.created[o] = "yes"
  BY <1>1 DEF Objects, MarksCarried
<1> QED
  BY <1>1, <1>2, ObjectsGuard, RecordedFields DEF Standing, Object

\* What is recorded is what the pass has marked.
LEMMA MarkRecorded ==
  ASSUME status \in Status, result \in Result, NEW o \in Object, result.created[o] = "yes",
         RecordPublication \/ RecordLogin \/ RecordSlot \/ RecordSubscription
  PROVE  status'.created[o] = "yes"
<1>1. status' = Recorded(result)
  BY DEF RecordPublication, RecordLogin, RecordSlot, RecordSubscription
<1> QED
  BY <1>1, RecordedFields

LEMMA ObjectsMarkedNext ==
  ASSUME Objects, [Next]_vars
  PROVE  ObjectsMarked'
<1>a. /\ Typed /\ source \in SourceType /\ target \in TargetType /\ status \in Status
      /\ result \in Result /\ ObjectsMarked /\ MarksCarried
  BY ObjectsGuard DEF Objects
<1>b. \A o \in Standing : status.created[o] = "yes" => status'.created[o] = "yes"
  BY MarksStay
<1>1. ASSUME pc' \notin {"commentPublication", "recordPublication"},
             Operators(source'.publication)
      PROVE  status'.created["publication"] = "yes"
  <2>1. ~EnsurePublication \/ source' = source
    BY <1>1 DEF EnsurePublication, Step
  <2>2. ~CommentPublication
    BY <1>1 DEF CommentPublication, Step
  <2>3. source'.publication = source.publication
    BY <1>a, <1>1, <2>1, <2>2, SourceMoves DEF DropPublication, SourceType, Operators
  <2>4. CASE pc \notin {"commentPublication", "recordPublication"}
    BY <1>a, <1>b, <1>1, <2>3, <2>4 DEF ObjectsMarked, Standing
  <2>5. CASE pc \in {"commentPublication", "recordPublication"}
    <3>1. Pass
      BY <1>1, <2>5, RecordingGoesOn DEF Unrecorded
    <3>2. RecordPublication \/ Refuse
      BY <2>2, <2>5, <3>1, TakenAt DEF Pass
    <3>3. ~Refuse
      BY <1>1, <2>3, <2>5 DEF Refuse, Operators
    <3>4. result.created["publication"] = "yes"
      BY <1>a, <2>5 DEF MarksCarried
    <3> QED
      BY <1>a, <3>2, <3>3, <3>4, MarkRecorded DEF Object
  <2> QED
    BY <2>4, <2>5
<1>2. ASSUME pc' # "recordSlot", source'.slot # "absent"
      PROVE  "yes" \in {status'.created["slot"], status'.created["subscription"]}
  <2>1. CASE EnsureSlot
    <3>1. pc = "slot" /\ status' = status /\ result.created["slot"] = "yes"
      BY <1>2, <2>1 DEF EnsureSlot, Step
    <3> QED
      BY <1>a, <3>1 DEF MarksCarried, BeforeSlot
  <2>2. CASE ~EnsureSlot
    <3>1. source.slot # "absent"
      BY <1>a, <1>2, <2>2, SourceMoves DEF DropSlot, DropSubscription, EndWalsender,
         WorkerConnects, WorkerStops, SourceType
    <3>2. CASE pc # "recordSlot"
      BY <1>a, <1>b, <3>1, <3>2 DEF ObjectsMarked, Standing
    <3>3. CASE pc = "recordSlot"
      <4>1. Pass
        BY <1>2, <3>3, RecordingGoesOn DEF Unrecorded
      <4>2. RecordSlot
        BY <3>3, <4>1, TakenAt DEF Pass
      <4>3. result.created["slot"] = "yes"
        BY <1>a, <3>3 DEF MarksCarried
      <4> QED
        BY <1>a, <4>2, <4>3, MarkRecorded DEF Object
    <3> QED
      BY <3>2, <3>3
  <2> QED
    BY <2>1, <2>2
<1>3. ASSUME pc' \notin {"commentSubscription", "recordSubscription"},
             Operators(target'.subscription)
      PROVE  status'.created["subscription"] = "yes"
  <2>1. ~CreateSubscription /\ ~CommentSubscription
    BY <1>3 DEF CreateSubscription, CommentSubscription, Step
  <2>2. target'.subscription = target.subscription
    BY <1>a, <1>3, <2>1, OthersMove DEF SetConnection, SetEnabled, DropSubscription, TargetType,
       Operators
  <2>3. CASE pc \notin {"commentSubscription", "recordSubscription"}
    BY <1>a, <1>b, <1>3, <2>2, <2>3 DEF ObjectsMarked, Standing
  <2>4. CASE pc \in {"commentSubscription", "recordSubscription"}
    <3>1. Pass
      BY <1>3, <2>4, RecordingGoesOn DEF Unrecorded
    <3>2. RecordSubscription
      BY <2>1, <2>4, <3>1, TakenAt DEF Pass
    <3>3. result.created["subscription"] = "yes"
      BY <1>a, <2>4, <3>2, TakenAt DEF MarksCarried
    <3> QED
      BY <1>a, <3>2, <3>3, MarkRecorded DEF Object
  <2> QED
    BY <2>3, <2>4
<1> QED
  BY <1>1, <1>2, <1>3 DEF ObjectsMarked, Operators

\* A pass only adds marks of objects on a server.
LEMMA MarksAdded ==
  ASSUME Typed, Pass, pc' \in PassStep
  PROVE  /\ \A o \in Standing : result'.created[o] \in {"yes", result.created[o]}
         /\ ~EnsureSlot /\ ~CommentSubscription /\ ~SetConnection =>
              \A o \in {"slot", "subscription"} : result'.created[o] = result.created[o]
<1>a. result \in Result
  BY DEF Typed, TypeOK
<1>1. ~Publish /\ ~Refuse
  BY DEF Publish, Refuse, Idle, PassStep
<1>2. \A o \in Object : /\ Marked(o).created[o] = "yes"
                        /\ \A other \in Object \ {o} :
                             Marked(o).created[other] = result.created[other]
  BY <1>a, MarkedFields
<1>3. AdoptProvidedLogin => \A o \in Standing : result'.created[o] = result.created[o]
  BY <1>a, AdoptedFields DEF Standing
<1> QED
  BY <1>1, <1>2, <1>3, MarksMade DEF Standing, Object

LEMMA MarksCarriedNext ==
  ASSUME Objects, [Next]_vars
  PROVE  MarksCarried'
<1>a. /\ Typed /\ queued = {} /\ status \in Status /\ result \in Result /\ MarksCarried
  BY ObjectsGuard DEF Objects
<1>1. ASSUME pc' \notin PassStep PROVE MarksCarried'
  BY <1>1 DEF MarksCarried, BeforeSlot, BeforeGrant, PassStep
<1>2. CASE Around
  BY <1>a, <1>2 DEF Around, MarksCarried
<1>3. CASE GoesOn
  BY <1>1, <1>3 DEF GoesOn, PassStep, TeardownStep
<1>4. CASE Begins /\ pc' = "inspect"
  <2>1. body'.status = status /\ status' = status /\ result' = NewResult(body'.status)
    BY <1>a, <1>4, SnapshotFields DEF Begins
  <2>2. result'.created = status'.created
    BY <2>1 DEF NewResult
  <2> QED
    BY <1>4, <2>2 DEF MarksCarried
<1>5. CASE Pass /\ pc' \in PassStep
  <2>1. \A o \in Standing : result'.created[o] \in {"yes", result.created[o]}
    BY <1>a, <1>5, MarksAdded
  <2>2. pc \in PassStep
    BY <1>5, PassFrame
  <2>3. \A o \in Standing :
          \/ status'.created[o] = status.created[o]
          \/ status'.created[o] = IF result.created[o] = "unset" THEN status.created[o]
                                  ELSE result.created[o]
    BY <1>a, StatusWritten, RecordedFields DEF Standing, Object
  <2>4. \A o \in Standing : status'.created[o] = "yes" => result'.created[o] = "yes"
    <3> SUFFICES ASSUME NEW o \in Standing, status'.created[o] = "yes"
                 PROVE  result'.created[o] = "yes"
      OBVIOUS
    <3>1. result.created[o] = "yes"
      BY <1>a, <2>2, <2>3 DEF MarksCarried
    <3> QED
      BY <2>1, <3>1
  <2>5. pc' \in BeforeSlot => \A o \in {"slot", "subscription"} :
                                 result'.created[o] = status'.created[o]
    <3> SUFFICES ASSUME pc' \in BeforeSlot, NEW o \in {"slot", "subscription"}
                 PROVE  result'.created[o] = status'.created[o]
      OBVIOUS
    <3>1. pc \in BeforeSlot /\ ~EnsureSlot /\ ~CommentSubscription /\ ~SetConnection
      BY <1>5, TakenAt DEF Pass, BeforeSlot, BeforeGrant
    <3>2. result'.created[o] = result.created[o] /\ result.created[o] = status.created[o]
      BY <1>a, <1>5, <3>1, MarksAdded DEF MarksCarried
    <3> QED
      BY <2>3, <3>2 DEF Standing
  <2>6. pc' \in {"commentPublication", "recordPublication"} =>
          result'.created["publication"] = "yes"
    <3>1. EnsurePublication => result'.created["publication"] = "yes"
      BY <1>a, MarkedFields DEF EnsurePublication, Object
    <3>2. CommentPublication => result'.created["publication"] = "yes"
      BY <1>a DEF CommentPublication, Step, MarksCarried
    <3> QED
      BY <1>5, <3>1, <3>2, Reached
  <2>7. pc' = "recordSlot" => result'.created["slot"] = "yes"
    BY <1>a, <1>5, Reached, MarkedFields DEF EnsureSlot, Object
  <2>8. pc' = "recordSubscription" => result'.created["subscription"] = "yes"
    BY <1>a, <1>5, Reached, MarkedFields DEF CommentSubscription, Object
  <2> QED
    BY <2>4, <2>5, <2>6, <2>7, <2>8 DEF MarksCarried
<1> QED
  BY <1>a, <1>1, <1>2, <1>3, <1>4, <1>5, PassOrRest, RestShapes DEF Begins, PassStep

LEMMA SubscriptionFitsNext ==
  ASSUME Objects, [Next]_vars
  PROVE  SubscriptionFits'
<1>a. /\ Typed /\ source \in SourceType /\ target \in TargetType /\ result \in Result
      /\ SubscriptionFits /\ Owns(body.status.created)
      /\ (pc \in TeardownStep => ~MayPass)
  BY ObjectsGuard DEF Objects
\* The subscription is made, commented, and dropped again; no other step is about it.
<1>b. \/ target'.subscription = target.subscription
      \/ CreateSubscription /\ target'.subscription = "bare"
      \/ CommentSubscription /\ target'.subscription = "ours"
      \/ DropSubscription /\ target'.subscription = "absent"
  BY <1>a, OthersMove DEF CreateSubscription, CommentSubscription, SetConnection, SetEnabled,
     DropSubscription, TargetType
<1>1. pc' # "commentSubscription" => target'.subscription # "bare"
  <2> SUFFICES ASSUME pc' # "commentSubscription", target'.subscription = "bare" PROVE FALSE
    OBVIOUS
  <2>1. ~CreateSubscription
    BY TakenAt
  <2>2. target.subscription = "bare" /\ ~CommentSubscription
    <3>1. CommentSubscription => target'.subscription = "ours"
      BY <1>a DEF CommentSubscription, TargetType
    <3> QED
      BY <1>b, <2>1, <3>1
  <2>3. pc = "commentSubscription"
    BY <1>a, <2>2 DEF SubscriptionFits
  <2>4. Pass
    BY <2>3, RecordingGoesOn DEF Unrecorded
  <2> QED
    BY <2>2, <2>3, <2>4, TakenAt DEF Pass
<1>2. MayPass' /\ target'.subscription = "absent" => source'.slot # "active"
  <2> SUFFICES ASSUME MayPass', target'.subscription = "absent" PROVE source'.slot # "active"
    OBVIOUS
  <2>1. MayPass /\ ~DropSubscription
    BY <1>a, MayPassBefore DEF DropSubscription, Step, TeardownStep
  <2>2. target.subscription = "absent" /\ source.slot # "active"
    BY <1>a, <1>b, <2>1 DEF SubscriptionFits
  <2>3. ~WorkerConnects
    BY <2>2 DEF WorkerConnects
  <2> QED
    BY <1>a, <2>1, <2>2, <2>3, SourceMoves DEF EnsureSlot, DropSlot, EndWalsender, WorkerStops,
       SourceType
<1>3. ASSUME pc' \notin PassStep PROVE SubscriptionFits'
  BY <1>1, <1>2, <1>3 DEF SubscriptionFits, BeforeSlot, BeforeGrant, PassStep
<1>4. CASE Around
  <2>1. pc' = pc /\ result' = result
    BY <1>4 DEF Around
  <2>2. pc' \in PassStep => target'.subscription = target.subscription
    BY <1>b, <2>1, TakenAt DEF DropSubscription, Step
  <2> QED
    BY <1>a, <1>1, <1>2, <1>3, <2>1, <2>2 DEF SubscriptionFits
<1>5. CASE GoesOn
  BY <1>3, <1>5 DEF GoesOn, PassStep, TeardownStep
<1>6. CASE Begins
  <2>1. CASE pc' = "inspect"
    BY <1>1, <1>2, <2>1 DEF SubscriptionFits
  <2> QED
    BY <1>3, <1>6, <2>1 DEF Begins, PassStep
<1>7. CASE Inspect
  <2>1. /\ pc = "inspect" /\ pc' = "publication" /\ target' = target /\ ~Refused
        /\ result'.seen = (target.subscription # "absent")
    BY <1>a, <1>7 DEF Inspect, Step, Result
  <2>2. target.subscription \in {"absent", "ours"}
    BY <1>a, <2>1 DEF Refused, Owns, SubscriptionFits, TargetType, Holder
  <2> QED
    BY <1>1, <1>2, <2>1, <2>2 DEF SubscriptionFits
<1>8. CASE Pass /\ ~Inspect /\ pc' \in PassStep
  <2>1. result'.seen = result.seen /\ pc \in PassStep /\ pc # "inspect" /\ ~DropSubscription
    <3>1. result'.seen = result.seen /\ pc \in PassStep
      BY <1>a, <1>8, SeenStays, PassFrame
    <3>2. pc # "inspect"
      BY <1>8, TakenAt DEF Pass, PassStep
    <3> QED
      BY <3>1, <3>2 DEF DropSubscription, Step, PassStep
  <2>2. result.seen => target'.subscription = "ours"
    <3>1. CreateSubscription => ~result.seen
      BY <1>a, TakenAt DEF SubscriptionFits
    <3> QED
      BY <1>a, <1>b, <2>1, <3>1 DEF SubscriptionFits
  <2>3. pc' \in (BeforeSlot \ {"inspect"}) \cup {"recordSlot", "createSubscription"}
          /\ ~result.seen => target'.subscription = "absent"
    <3> SUFFICES ASSUME pc' \in (BeforeSlot \ {"inspect"}) \cup {"recordSlot", "createSubscription"},
                        ~result.seen
                 PROVE  target'.subscription = "absent"
      OBVIOUS
    <3>1. pc \in (BeforeSlot \ {"inspect"}) \cup {"recordSlot", "createSubscription"}
          /\ ~CreateSubscription /\ ~CommentSubscription
      BY <1>8, <2>1, TakenAt DEF Pass, BeforeSlot, BeforeGrant
    <3> QED
      BY <1>a, <1>b, <2>1, <3>1 DEF SubscriptionFits
  <2>4. pc' \in {"slot", "recordSlot", "createSubscription", "commentSubscription",
                 "recordSubscription"} => ~result.seen
    <3>1. pc' = "slot" => ~result.seen
      BY <1>8, Reached DEF ConvergeTables, Step
    <3> QED
      BY <1>a, <1>8, <3>1, Reached, TakenAt DEF SubscriptionFits
  <2>5. pc' \in {"setConnection", "setEnabled"} => result.seen
    <3>1. pc' = "setConnection" => result.seen
      BY <1>8, Reached DEF ConvergeTables, Step
    <3> QED
      BY <1>a, <1>8, <3>1, Reached, TakenAt DEF SubscriptionFits
  <2>6. pc' \in {"recordSubscription", "refresh", "dropSuperseded", "deleteSuperseded",
                 "publish"} => target'.subscription = "ours"
    <3> SUFFICES ASSUME pc' \in {"recordSubscription", "refresh", "dropSuperseded",
                                 "deleteSuperseded", "publish"}
                 PROVE  target'.subscription = "ours"
      OBVIOUS
    <3>1. CASE CommentSubscription
      BY <1>a, <3>1 DEF CommentSubscription, TargetType
    <3>2. CASE SetEnabled
      BY <1>a, <2>2, <3>2, TakenAt DEF SubscriptionFits
    <3>3. CASE ~CommentSubscription /\ ~SetEnabled
      <4>1. pc \in {"recordSubscription", "refresh", "dropSuperseded", "deleteSuperseded"}
            /\ ~CreateSubscription
        BY <1>8, <3>3, Reached, TakenAt
      <4> QED
        BY <1>a, <1>b, <2>1, <3>3, <4>1 DEF SubscriptionFits
    <3> QED
      BY <3>1, <3>2, <3>3
  <2> QED
    BY <1>1, <1>2, <2>1, <2>2, <2>3, <2>4, <2>5, <2>6 DEF SubscriptionFits
<1> QED
  BY <1>a, <1>3, <1>4, <1>5, <1>6, <1>7, <1>8, PassOrRest, RestShapes

\* How a finalizer comes to its next step.
LEMMA TeardownGoes ==
  ASSUME Objects, [Next]_vars, pc' \in TeardownStep
  PROVE  /\ UNCHANGED <<status, body>> \/ pc = "idle"
         /\ \/ pc' = pc /\ missed' = missed
            \/ pc = "idle" /\ pc' = "dropSubscription" /\ missed' = {}
            \/ /\ pc = "dropSubscription" /\ pc' = "dropSlot"
               /\ \/ missed' = missed /\ DropSubscription
                  \/ missed' = missed \cup {"target"} /\ UNCHANGED <<source, target>>
            \/ pc = "dropSlot" /\ pc' = "dropPublication" /\ missed' = missed /\ DropSlot
            \/ pc = "dropPublication" /\ pc' = "dropLogin" /\ missed' = missed /\ DropPublication
            \/ pc = "dropLogin" /\ pc' = "deleteSecret" /\ missed' = missed /\ DropLogin
            \/ /\ pc \in {"dropSlot", "dropPublication", "dropLogin"} /\ pc' = "deleteSecret"
               /\ missed' = missed /\ "source" \notin instances' /\ UNCHANGED <<source, target>>
            \/ /\ pc \in {"dropSlot", "dropPublication", "dropLogin"} /\ pc' = "finish"
               /\ missed' = missed \cup {"source"} /\ UNCHANGED <<source, target>>
            \/ pc = "deleteSecret" /\ pc' = "finish" /\ missed' = missed /\ DeleteSecret
<1>1. Typed /\ ~Abandon /\ ~Pass
  BY ObjectsGuard, PassFrame DEF PassStep, TeardownStep
<1>2. Rest
  BY <1>1, PassOrRest
<1>3. CASE StartPass \/ StartTeardown \/ StartQueued
  BY <1>3 DEF StartPass, StartTeardown, StartQueued, BeginPass, BeginTeardown, TeardownStep
<1>4. CASE Teardown
  BY <1>4 DEF Teardown, DropSubscription, SourceGone, EndWalsender, DropSlot, DropPublication,
     DropLogin, DeleteSecret, Finish, Step, Idle, TeardownStep
<1>5. CASE TargetUnreachable \/ SourceUnreachable
  BY <1>5 DEF TargetUnreachable, SourceUnreachable, Unreachable
<1>6. CASE Break
  BY <1>6 DEF Break, Idle, TeardownStep
<1>7. CASE \/ ResetLoginPassword \/ QueueHandler \/ Edit \/ Delete \/ WorkerConnects
           \/ WorkerStops \/ Meddle \/ UNCHANGED vars
  BY <1>7 DEF ResetLoginPassword, QueueHandler, Edit, Delete, WorkerConnects, WorkerStops,
     Meddle, vars
<1> QED
  BY <1>1, <1>2, <1>3, <1>4, <1>5, <1>6, <1>7 DEF Rest

\* How a finalizer is released.
LEMMA ReleasedBy ==
  ASSUME Objects, [Next]_vars, spec'.released
  PROVE  /\ pc' = "idle" /\ spec'.deleting
         /\ \/ spec.released /\ pc = "idle"
            \/ pc = "finish" /\ missed = {} /\ UNCHANGED <<source, target, secrets, instances, status>>
            \/ /\ pc = "idle" /\ UNCHANGED <<source, target, secrets, instances, status>>
               /\ ~ \E o \in Object : status.created[o] = "yes"
               /\ ~status.granted
<1>a. /\ Typed /\ spec \in SpecType /\ queued = {} /\ ~Abandon
      /\ (spec.released => pc = "idle" /\ spec.deleting)
      /\ (spec.deleting => spec'.deleting)
      /\ (pc \in TeardownStep => spec.deleting)
  BY ObjectsGuard, OneWay DEF Objects, ObjectsCleared, ClaimsFollow
<1>1. ~Pass
  BY <1>a, PassFrame DEF PassStep
<1>2. CASE StartPass \/ StartTeardown \/ StartQueued
  <2>1. ~StartQueued
    BY <1>a DEF StartQueued
  <2>2. CASE StartPass
    BY <1>a, <2>2 DEF StartPass, BeginPass
  <2>3. CASE StartTeardown
    <3>1. /\ pc = "idle" /\ spec.deleting /\ ~spec.released
          /\ UNCHANGED <<source, target, secrets, instances, status>>
          /\ IF (\E o \in Object : status.created[o] = "yes") \/ status.granted
             THEN spec' = spec
             ELSE pc' = "idle"
      BY <2>3, SnapshotFields DEF StartTeardown, BeginTeardown
    <3> QED
      BY <1>a, <3>1
  <2> QED
    BY <1>2, <2>1, <2>2, <2>3
<1>3. CASE Finish
  BY <1>a, <1>3 DEF Finish, Idle, SpecType, TeardownStep
<1>4. CASE \/ Edit \/ Delete
  BY <1>a, <1>4 DEF Edit, Delete, SpecType
<1>5. CASE Rest /\ ~StartPass /\ ~StartTeardown /\ ~StartQueued /\ ~Finish /\ ~Edit /\ ~Delete
  <2>1. spec' = spec
    BY <1>a, <1>5, Zenon DEF Rest, Teardown, DropSubscription, SourceGone, EndWalsender, DropSlot,
       DropPublication, DropLogin, DeleteSecret, TargetUnreachable, SourceUnreachable,
       Unreachable, ResetLoginPassword, QueueHandler, Break, WorkerConnects,
       WorkerStops, Meddle, Step, vars
  <2>2. pc = "idle" /\ spec.released /\ spec'.deleting
    BY <1>a, <2>1
  <2>3. pc' = "idle"
    <3>1. \/ pc' = pc \/ pc' = "idle"
          \/ pc \in TeardownStep
      <4>1. Teardown \/ TargetUnreachable \/ SourceUnreachable => pc \in TeardownStep
        BY DEF Teardown, DropSubscription, SourceGone, EndWalsender, DropSlot,
           DropPublication, DropLogin, DeleteSecret, Finish, TargetUnreachable,
           SourceUnreachable, Unreachable, Step, TeardownStep
      <4>2. Break => pc' = "idle"
        BY DEF Break, Idle
      <4>3. ResetLoginPassword \/ QueueHandler \/ WorkerConnects \/ WorkerStops \/ Meddle
            \/ UNCHANGED vars => pc' = pc
        BY DEF ResetLoginPassword, QueueHandler, WorkerConnects, WorkerStops, Meddle, vars
      <4> QED
        BY <1>a, <1>5, <4>1, <4>2, <4>3 DEF Rest
    <3> QED
      BY <2>2, <3>1 DEF TeardownStep
  <2> QED
    BY <2>2, <2>3
<1> QED
  BY <1>1, <1>2, <1>3, <1>4, <1>5, PassOrRest

LEMMA ObjectsClearedNext ==
  ASSUME Objects, [Next]_vars
  PROVE  ObjectsCleared'
<1>a. /\ Typed /\ source \in SourceType /\ target \in TargetType /\ missed \subseteq Side
      /\ ObjectsMarked /\ ObjectsCleared /\ ClaimsFollow /\ instances' \subseteq instances
  BY ObjectsGuard, OneWay DEF Objects
<1>b. ASSUME pc' \in TeardownStep
      PROVE  pc \in TeardownStep \cup {"idle"} /\ Rest
  <2>1. ~Pass
    BY <1>b, PassFrame DEF PassStep, TeardownStep
  <2> QED
    BY <1>b, <2>1, PassOrRest, TeardownGoes DEF TeardownStep
<1>c. ASSUME pc \in TeardownStep PROVE body.status = status
  BY <1>a, <1>c DEF ClaimsFollow
<1>d. ASSUME Rest
      PROVE  /\ source.slot = "absent" => source'.slot = "absent"
             /\ ~Operators(source.publication) => ~Operators(source'.publication)
             /\ ~Operators(target.subscription) => ~Operators(target'.subscription)
  BY <1>a, <1>d, RestKeeps DEF DropSubscription, TargetType, Operators
<1>1. spec'.released => pc' = "idle" /\ spec'.deleting
  BY ReleasedBy
<1>2. pc' \in TeardownStep \ {"finish"} => missed' \subseteq {"target"}
  BY <1>a, TeardownGoes DEF ObjectsCleared, TeardownStep
<1>3. pc' = "dropSubscription" => missed' = {}
  BY <1>a, TeardownGoes DEF ObjectsCleared, TeardownStep
<1>4. ASSUME pc' \in TeardownStep \ {"dropSubscription"}, "target" \in instances' \ missed'
      PROVE  ~Operators(target'.subscription)
  <2>1. Rest
    BY <1>4, <1>b
  <2>2. CASE DropSubscription /\ pc = "dropSubscription"
    <3>1. CASE target.subscription = "absent"
      BY <1>d, <2>1, <3>1 DEF Operators
    <3>2. CASE Made("subscription") /\ target.subscription # "absent"
      BY <1>a, <1>4, <2>2, <3>2 DEF DropSubscription, Operators
    <3>3. CASE ~Made("subscription")
      <4>1. status.created["subscription"] # "yes"
        BY <1>c, <2>2, <3>3 DEF Made, TeardownStep
      <4> QED
        BY <1>a, <1>d, <2>1, <2>2, <4>1 DEF ObjectsMarked
    <3> QED
      BY <3>1, <3>2, <3>3
  <2>3. CASE ~(DropSubscription /\ pc = "dropSubscription")
    <3>1. pc \in TeardownStep \ {"dropSubscription"} /\ "target" \in instances \ missed
      BY <1>a, <1>4, <2>3, TeardownGoes DEF TeardownStep
    <3> QED
      BY <1>a, <1>d, <2>1, <3>1 DEF ObjectsCleared
  <2> QED
    BY <2>2, <2>3
<1>5. ASSUME pc' \in TeardownStep \ {"dropSubscription", "dropSlot"},
             "source" \in instances' \ missed'
      PROVE  source'.slot = "absent"
  <2>1. Rest
    BY <1>5, <1>b
  <2>2. CASE DropSlot /\ pc = "dropSlot"
    <3>1. CASE SlotRecorded
      BY <1>a, <2>2, <3>1 DEF DropSlot, SourceType
    <3>2. CASE ~SlotRecorded /\ source.slot # "absent"
      <4>1. "yes" \notin {status.created["slot"], status.created["subscription"]}
        BY <1>c, <2>2, <3>2 DEF SlotRecorded, Made, TeardownStep
      <4> QED
        BY <1>a, <2>2, <3>2, <4>1 DEF ObjectsMarked
    <3>3. CASE source.slot = "absent"
      BY <1>d, <2>1, <3>3
    <3> QED
      BY <3>1, <3>2, <3>3
  <2>3. CASE ~(DropSlot /\ pc = "dropSlot")
    <3>1. /\ pc \in TeardownStep \ {"dropSubscription", "dropSlot"}
          /\ "source" \in instances \ missed
      BY <1>a, <1>5, <2>3, TeardownGoes DEF TeardownStep
    <3> QED
      BY <1>a, <1>d, <2>1, <3>1 DEF ObjectsCleared
  <2> QED
    BY <2>2, <2>3
<1>6. ASSUME pc' \in TeardownStep \ {"dropSubscription", "dropSlot", "dropPublication"},
             "source" \in instances' \ missed'
      PROVE  ~Operators(source'.publication)
  <2>1. Rest
    BY <1>6, <1>b
  <2>2. CASE DropPublication /\ pc = "dropPublication"
    <3>1. CASE Made("publication")
      BY <1>a, <2>2, <3>1 DEF DropPublication, SourceType, Operators
    <3>2. CASE ~Made("publication")
      <4>1. status.created["publication"] # "yes"
        BY <1>c, <2>2, <3>2 DEF Made, TeardownStep
      <4> QED
        BY <1>a, <1>d, <2>1, <2>2, <4>1 DEF ObjectsMarked
    <3> QED
      BY <3>1, <3>2
  <2>3. CASE ~(DropPublication /\ pc = "dropPublication")
    <3>1. /\ pc \in TeardownStep \ {"dropSubscription", "dropSlot", "dropPublication"}
          /\ "source" \in instances \ missed
      BY <1>a, <1>6, <2>3, TeardownGoes DEF TeardownStep
    <3> QED
      BY <1>a, <1>d, <2>1, <3>1 DEF ObjectsCleared
  <2> QED
    BY <2>2, <2>3
<1>7. ASSUME spec'.released
      PROVE  /\ "target" \in instances' => ~Operators(target'.subscription)
             /\ "source" \in instances' =>
                  source'.slot = "absent" /\ ~Operators(source'.publication)
  <2>1. CASE spec.released /\ pc = "idle"
    <3>1. Rest
      BY <2>1, PassOrRest, PassFrame DEF PassStep
    <3> QED
      BY <1>a, <1>d, <2>1, <3>1 DEF ObjectsCleared
  <2>2. CASE pc = "finish" /\ missed = {} /\ UNCHANGED <<source, target, instances>>
    BY <1>a, <2>2 DEF ObjectsCleared, TeardownStep
  <2>3. CASE /\ pc = "idle" /\ UNCHANGED <<source, target, instances>>
             /\ ~ \E o \in Object : status.created[o] = "yes"
    BY <1>a, <2>3 DEF ObjectsMarked, Object
  <2> QED
    BY <1>7, <2>1, <2>2, <2>3, ReleasedBy
<1> QED
  BY <1>1, <1>2, <1>3, <1>4, <1>5, <1>6, <1>7 DEF ObjectsCleared, Operators

LEMMA ObjectsKept ==
  ASSUME ~Overlap, Objects, [Next]_vars
  PROVE  Objects'
<1>1. Granting'
  BY GrantingKept DEF Objects
<1>2. budget'.at \cap (Unrecorded \cup {"misconfigured"}) = {}
  BY ObjectsGuard, BudgetKeeps DEF Objects
<1> QED
  BY <1>1, <1>2, ObjectsMarkedNext, MarksCarriedNext, SubscriptionFitsNext, ObjectsClearedNext
     DEF Objects

LEMMA InitObjects ==
  ASSUME RecordsMade, Init
  PROVE  Objects
<1>1. Granting
  BY InitGranting
<1>2. /\ status = NoStatus /\ result = NewResult(NoStatus) /\ pc = "idle" /\ missed = {}
      /\ budget \in Budgets /\ ~spec.released
  BY DEF Init
<1>3. budget.at \cap (Unrecorded \cup {"misconfigured"}) = {}
  BY <1>2 DEF RecordsMade
<1>4. \A n \in Name : \A h \in HolderOf(n) : ~Operators(h) /\ h # "bare"
  BY DEF HolderOf, Operators
<1>5. ~Operators(source.publication) /\ source.slot = "absent"
  <2>1. PICK p \in HolderOf("publication"), r \in HolderOf("login"), s \in HolderOf("slot") :
          source = [publication |-> p,
                    role |-> [l \in Login |-> IF l = "generated" THEN r ELSE "foreign"],
                    password |-> NoPassword, member |-> [l \in Login |-> "none"],
                    slot |-> IF s = "foreign" THEN "active" ELSE "absent"]
    BY Zenon DEF Init
  <2>2. s # "foreign"
    BY DEF RecordsMade, HolderOf
  <2> QED
    BY <1>4, <2>1, <2>2 DEF Name
<1>6. ~Operators(target.subscription) /\ target.subscription # "bare"
  <2>1. PICK s \in HolderOf("subscription") :
          target = [subscription |-> s, connection |-> NoConnection, enabled |-> FALSE]
    BY DEF Init
  <2> QED
    BY <1>4, <2>1 DEF Name
<1>7. ObjectsMarked /\ MarksCarried
  BY <1>2, <1>5, <1>6 DEF ObjectsMarked, MarksCarried, PassStep, BeforeSlot, BeforeGrant
<1>8. SubscriptionFits
  BY <1>2, <1>5, <1>6 DEF SubscriptionFits, PassStep, BeforeSlot, BeforeGrant
<1>9. ObjectsCleared
  BY <1>2 DEF ObjectsCleared, TeardownStep
<1> QED
  BY <1>1, <1>3, <1>7, <1>8, <1>9 DEF Objects

-----------------------------------------------------------------------------
(***************************************************************************)
(* 7  Accounted and NothingLeft: the login, its Secret and its membership  *)
(* join section 6's objects.  Where nobody drops the publication, and no   *)
(* pass over a spec that is edited fails between recording its login and   *)
(* publishing its connection (Swapping), what the operator holds of the    *)
(* login is always claimed by status, by the body or by what the pass is   *)
(* about to record - whichever the next step reads.                        *)
(***************************************************************************)

SwapsComplete ==
  /\ PublicationsLeft
  /\ \A b \in Budgets : b.edits = 0 \/ b.at \cap Swapping = {}

OwnRole == Operators(source.role["generated"])
OwnSecret == secrets.generated # NoPassword
OwnMember == source.member["provided"] = "operator"

LoginIn(st) == st.created["login"] = "yes"

BudgetWhole == budget.edits = 0 \/ budget.at \cap Swapping = {}

\* Where a swap may fail, there is one login only.
Unswapped ==
  budget.at \cap Swapping # {} =>
    /\ body.wanted = spec.wanted
    /\ {status.login, body.status.login, status.connection.login} \subseteq {"none", spec.wanted}

\* When status takes over what the pass found of the login.
LoginCarried ==
  /\ pc \in LoginInHand => result.login = body.wanted
  /\ pc \in BeforeGrant \cup {"grant", "recordLogin"} =>
       /\ status.created["login"] = body.status.created["login"]
       /\ status.granted = body.status.granted
  /\ pc \in LoginInHand \ {"grant", "recordLogin"} =>
       /\ status.created["login"] = result.created["login"] /\ status.granted = result.granted

LoginAccounted ==
  /\ pc \in ({"idle"} \cup TeardownStep \cup BeforeGrant) \ {"commentRole", "applySecret"} =>
       /\ OwnRole \/ OwnSecret => LoginIn(status)
       /\ OwnMember => Claims(status)
  /\ pc \in {"commentRole", "applySecret"} =>
       /\ OwnSecret => LoginIn(body.status)
       /\ OwnMember => Claims(body.status)
  /\ pc \in LoginInHand \ {"deleteSuperseded", "publish"} =>
       /\ OwnRole \/ OwnSecret => result.login = "generated" \/ LoginIn(body.status)
       /\ OwnMember => \/ Claims(result)
                       \/ Claims(body.status) /\ (result.login # "provided" \/ pc = "grant")
  /\ pc = "grant" /\ Claims(body.status) /\ result.login = "provided" => result.granted
  /\ pc \in {"deleteSuperseded", "publish"} =>
       /\ OwnRole => result.login = "generated"
       /\ OwnMember => Claims(result)
  /\ pc = "deleteSuperseded" =>
       Superseded /\ (OwnSecret => result.login = "generated" \/ LoginIn(body.status))
  /\ pc = "publish" /\ OwnSecret => result.login = "generated"

LoginCleared ==
  /\ pc \in {"deleteSecret", "finish"} /\ "source" \in instances \ missed =>
       ~OwnRole /\ ~OwnMember
  /\ pc = "finish" /\ "source" \notin missed => ~OwnSecret
  /\ spec.released =>
       /\ "source" \in instances => ~OwnRole /\ ~OwnMember
       /\ ~OwnSecret

Ledger ==
  /\ Names /\ Objects
  /\ BudgetWhole /\ Unswapped /\ LoginCarried /\ LoginAccounted /\ LoginCleared

LEMMA LedgerGuard ==
  ASSUME Ledger
  PROVE  /\ Typed /\ queued = {} /\ ClaimsFollow /\ PassOwns /\ ProvidedStand /\ ResultNames
         /\ NamesFollow(status) /\ NamesFollow(body.status)
         /\ source \in SourceType /\ secrets \in SecretsType
         /\ status \in Status /\ body \in Body /\ result \in Result
         /\ (pc \in TeardownStep => body.status = status)
         /\ ~Abandon
<1>1. /\ Typed /\ queued = {} /\ ClaimsFollow /\ ProvidedStand /\ PassOwns /\ ResultNames
      /\ NamesFollow(status) /\ NamesFollow(body.status) /\ ~Abandon
  BY ObjectsGuard, NamesGuard DEF Ledger, Names, Guarded
<1> QED
  BY <1>1 DEF Typed, TypeOK, SourceType, SecretsType, ClaimsFollow

\* The login, the Secret and the membership are made at one step each; every
\* other step leaves them or takes them away.
LEMMA OwnedMade ==
  ASSUME Typed, [Next]_vars
  PROVE  /\ OwnRole' => OwnRole \/ EnsureLoginRole \/ CommentRole
         /\ OwnSecret' => OwnSecret \/ ApplySecret
         /\ OwnMember' => OwnMember \/ GrantReadGroup
<1>a. source \in SourceType /\ secrets \in SecretsType
  BY DEF Typed, TypeOK, SourceType, SecretsType
<1>1. ASSUME NEW login, NEW made, NEW granted, RemoveLogin(login, made, granted)
      PROVE  /\ source'.role["generated"] \in {"absent", source.role["generated"]}
             /\ source'.member["provided"] \in {"none", source.member["provided"]}
  <2>1. source' \in {source,
                     [source EXCEPT !.role[login] = "absent", !.member[login] = "none",
                        !.password = IF login = "generated" THEN NoPassword ELSE @],
                     [source EXCEPT !.member[login] = "none"]}
    BY <1>1, Zenon DEF RemoveLogin
  <2>2. source.role \in [Login -> Holder]
    BY <1>a DEF SourceType
  <2>3. source'.role \in {source.role, [source.role EXCEPT ![login] = "absent"]}
    BY <1>a, <2>1 DEF SourceType
  <2>4. source'.member["provided"] \in {"none", source.member["provided"]}
    BY <1>a, <1>1, RemoveLoginMember DEF Login
  <2> QED
    BY <2>2, <2>3, <2>4 DEF Login
<1>2. CASE DropSupersededLogin \/ DropLogin
  <2>1. source' = source \/ \E l, m, g : RemoveLogin(l, m, g)
    BY <1>2, Zenon DEF DropSupersededLogin, DropLogin
  <2>2. source'.role["generated"] \in {"absent", source.role["generated"]}
        /\ source'.member["provided"] \in {"none", source.member["provided"]}
    BY <1>1, <2>1
  <2>3. secrets' = secrets
    BY <1>2 DEF DropSupersededLogin, DropLogin
  <2> QED
    BY <2>2, <2>3 DEF OwnRole, OwnSecret, OwnMember, Operators
<1>3. CASE ~DropSupersededLogin /\ ~DropLogin
  <2>1. OwnRole' => OwnRole \/ EnsureLoginRole \/ CommentRole
    BY <1>3, SourceMoves DEF OwnRole
  <2>2. OwnMember' => OwnMember \/ GrantReadGroup
    BY <1>a, <1>3, SourceMoves DEF OwnMember, SourceType, Login
  <2>3. OwnSecret' => OwnSecret \/ ApplySecret
    <3>1. \A owner : RemoveSecret(owner) => secrets'.generated \in {NoPassword, secrets.generated}
      BY <1>a DEF RemoveSecret, SecretsType
    <3>2. DeleteSupersededSecret \/ DeleteSecret =>
            secrets'.generated \in {NoPassword, secrets.generated}
      BY <3>1 DEF DeleteSupersededSecret, DeleteSecret
    <3> QED
      BY <3>2, OthersMove DEF OwnSecret
  <2> QED
    BY <2>1, <2>2, <2>3
<1> QED
  BY <1>2, <1>3

\* A login the operator only granted its membership loses that, and no more.
LEMMA Revoked ==
  ASSUME source \in SourceType, source.role["provided"] # "absent", NEW made \in BOOLEAN, ~made,
         RemoveLogin("provided", made, TRUE)
  PROVE  ~OwnMember'
<1>1. source' = [source EXCEPT !.member["provided"] = "none"]
  BY Zenon DEF RemoveLogin
<1> QED
  BY <1>1 DEF OwnMember, SourceType, Login

\* No edit is left where a swap may fail.
LEMMA BudgetWholeNext ==
  ASSUME Ledger, [Next]_vars
  PROVE  /\ BudgetWhole' /\ budget'.at = budget.at
         /\ budget.at \cap Swapping # {} => spec'.wanted = spec.wanted
<1>a. budget \in Budget /\ Typed /\ BudgetWhole /\ spec \in SpecType
  BY LedgerGuard DEF Ledger, Typed, TypeOK, SpecType
<1>1. budget'.at = budget.at
  BY <1>a, BudgetKeeps
<1>2. budget.edits = 0 => budget'.edits = 0 /\ ~Edit
  <2>1. \/ UNCHANGED budget
        \/ budget' = [budget EXCEPT !.breaks = @ - 1]
        \/ Edit
        \/ budget' = [budget EXCEPT !.meddling = @ - 1]
    <3>1. CASE Pass
      BY <3>1, PassFrame
    <3>2. CASE Rest
      BY <3>2, Zenon DEF Rest, Teardown, TargetUnreachable, SourceUnreachable, Unreachable,
         Abandon, ResetLoginPassword, StartPass, StartTeardown, StartQueued, QueueHandler, Break,
         Delete, Meddle, WorkerConnects, WorkerStops, vars, BeginPass, BeginTeardown,
         DropSubscription, SourceGone, EndWalsender, DropSlot, DropPublication, DropLogin,
         DeleteSecret, Finish, Step
    <3> QED
      BY <3>1, <3>2, PassOrRest
  <2> QED
    BY <1>a, <2>1 DEF Budget, Edit
<1>3. ~Edit => spec'.wanted = spec.wanted
  <2>1. \/ spec' = spec \/ Edit
        \/ \E b : spec' = [spec EXCEPT !.released = b]
        \/ \E b : spec' = [spec EXCEPT !.deleting = b]
    <3>1. CASE Pass
      BY <3>1, PassFrame
    <3>2. CASE Rest
      BY <3>2, Zenon DEF Rest, Teardown, TargetUnreachable, SourceUnreachable, Unreachable,
         Abandon, ResetLoginPassword, StartPass, StartTeardown, StartQueued, QueueHandler, Break,
         Delete, Meddle, WorkerConnects, WorkerStops, vars, BeginPass, BeginTeardown,
         DropSubscription, SourceGone, EndWalsender, DropSlot, DropPublication, DropLogin,
         DeleteSecret, Finish, Step
    <3> QED
      BY <3>1, <3>2, PassOrRest
  <2> QED
    BY <1>a, <2>1 DEF SpecType
<1> QED
  BY <1>a, <1>1, <1>2, <1>3 DEF BudgetWhole

LEMMA UnswappedNext ==
  ASSUME Ledger, [Next]_vars
  PROVE  Unswapped'
<1> SUFFICES ASSUME budget.at \cap Swapping # {}
             PROVE  /\ body'.wanted = spec'.wanted
                    /\ {status'.login, body'.status.login, status'.connection.login}
                         \subseteq {"none", spec'.wanted}
  BY BudgetWholeNext DEF Unswapped
<1>a. /\ Typed /\ queued = {} /\ status \in Status /\ result \in Result /\ body \in Body
      /\ LoginCarried /\ ResultNames /\ spec'.wanted = spec.wanted
      /\ body.wanted = spec.wanted
      /\ {status.login, body.status.login, status.connection.login}
           \subseteq {"none", spec.wanted}
  BY LedgerGuard, BudgetWholeNext DEF Ledger, Unswapped
<1>1. body' \in {body, Snapshot}
  BY <1>a, PassFrame, RestShapes, PassOrRest DEF Around, GoesOn, Begins
<1>2. status'.login \in {"none", spec.wanted}
  <2>1. status' # status => status'.login = result.login
    BY <1>a, StatusWritten, RecordedFields
  <2>2. pc \in LoginInHand => result.login = spec.wanted
    BY <1>a DEF LoginCarried
  <2>3. pc = "recordPublication" => result.login = "none"
    BY <1>a DEF ResultNames, Early
  <2> QED
    BY <1>a, <2>1, <2>2, <2>3, StatusWritten DEF LoginInHand
<1>3. status'.connection.login \in {"none", spec.wanted}
  <2>1. CASE Publish
    <3>1. pc = "publish" /\ status' = [Recorded(result) EXCEPT !.connection = ConnectionOf(result)]
      BY <2>1 DEF Publish
    <3>2. Recorded(result) \in Status
      BY <1>a, RecordedType
    <3>3. status'.connection.login = result.login
      BY <3>1, <3>2 DEF Status, ConnectionOf
    <3> QED
      BY <1>a, <3>1, <3>3 DEF LoginCarried, LoginInHand
  <2>2. CASE RecordPublication \/ RecordLogin \/ RecordSlot \/ RecordSubscription
    <3>1. status' = Recorded(result)
      BY <2>2 DEF RecordPublication, RecordLogin, RecordSlot, RecordSubscription
    <3>2. Recorded(result).connection = status.connection
      BY <1>a DEF Recorded, Status
    <3> QED
      BY <1>a, <3>1, <3>2
  <2>3. CASE Pass /\ ~Publish /\ ~RecordPublication /\ ~RecordLogin /\ ~RecordSlot
             /\ ~RecordSubscription
    <3>1. status' = status
      BY <1>a, <2>3, StatusWritten, PassOrRest, TakenAt DEF Pass
    <3> QED
      BY <1>a, <3>1
  <2>4. CASE Rest
    BY <1>a, <2>4, RestShapes DEF Around, GoesOn, Begins
  <2> QED
    BY <2>1, <2>2, <2>3, <2>4, PassOrRest
<1> QED
  BY <1>a, <1>1, <1>2, <1>3, SnapshotFields

\* What a pass records of its login.
LEMMA LoginRecorded ==
  ASSUME Ledger, [Next]_vars, status' # status
  PROVE  /\ status'.granted = result.granted /\ status'.login = result.login
         /\ status'.created["login"] =
              IF result.created["login"] = "unset" THEN status.created["login"]
              ELSE result.created["login"]
         /\ pc = "recordPublication" =>
              /\ status'.created["login"] = status.created["login"]
              /\ status.created["login"] = "unset"
         /\ pc \in LoginInHand =>
              status'.created["login"] = result.created["login"]
<1>a. /\ Typed /\ status \in Status /\ result \in Result /\ ResultNames
  BY LedgerGuard
<1>1. Recorded(result).granted = result.granted
  BY <1>a DEF Recorded, Status
<1>2. /\ status'.granted = result.granted /\ status'.login = result.login
      /\ status'.created["login"] =
              IF result.created["login"] = "unset" THEN status.created["login"]
              ELSE result.created["login"]
  BY <1>a, <1>1, StatusWritten, RecordedFields DEF Object
<1> QED
  BY <1>a, <1>2 DEF ResultNames

LEMMA LoginCarriedNext ==
  ASSUME Ledger, [Next]_vars
  PROVE  LoginCarried'
<1>a. /\ Typed /\ queued = {} /\ LoginCarried /\ ResultNames /\ ClaimsFollow /\ PassOwns
      /\ result \in Result /\ status \in Status /\ body \in Body
  BY LedgerGuard DEF Ledger
<1>1. ASSUME pc' \notin PassStep PROVE LoginCarried'
  BY <1>1 DEF LoginCarried, BeforeGrant, LoginInHand, PassStep
<1>2. CASE Around
  BY <1>a, <1>2 DEF Around, LoginCarried
<1>3. CASE GoesOn
  BY <1>1, <1>3 DEF GoesOn, PassStep, TeardownStep
<1>4. CASE Begins
  <2>1. CASE pc' = "inspect"
    <3>1. body'.status = status /\ status' = status
      BY <1>a, <1>4, SnapshotFields DEF Begins
    <3> QED
      BY <2>1, <3>1 DEF LoginCarried, LoginInHand
  <2> QED
    BY <1>1, <1>4, <2>1 DEF Begins, PassStep
<1>5. CASE Pass /\ pc' \in BeforeGrant
  <2>1. pc \in BeforeGrant /\ body' = body
    BY <1>5, TakenAt, PassFrame DEF Pass, BeforeGrant
  <2>2. status' # status => pc = "recordPublication"
    BY <1>a, <2>1, StatusWritten DEF BeforeGrant
  <2>3. /\ status'.created["login"] = status.created["login"]
        /\ status'.granted = status.granted
    <3>1. result.granted = body.status.granted /\ status.granted = body.status.granted
      BY <1>a, <2>1 DEF LoginCarried, ClaimsFollow
    <3> QED
      BY <2>2, <3>1, LoginRecorded
  <2> QED
    BY <1>5, <1>a, <2>1, <2>3 DEF LoginCarried, BeforeGrant, LoginInHand
<1>6. CASE AdoptProvidedLogin
  <2>1. /\ pc = "login" /\ pc' = "grant" /\ UNCHANGED <<status, body>>
        /\ body.wanted = "provided" /\ result'.login = "provided"
    BY <1>a, <1>6, AdoptedFields DEF AdoptProvidedLogin, Step
  <2> QED
    BY <1>a, <2>1 DEF LoginCarried, BeforeGrant, LoginInHand
<1>7. CASE ApplySecret
  <2>1. /\ pc = "applySecret" /\ pc' = "grant" /\ UNCHANGED <<status, body>>
        /\ result.login = "generated" /\ body.wanted = "generated"
    BY <1>a, <1>7 DEF ApplySecret, Step, Typed, ResultFits, PassOwns
  <2>2. PICK b : result' = [Marked("secret") EXCEPT !.credentials = "generated", !.granted = b]
    BY <1>7 DEF ApplySecret
  <2>3. Marked("secret") \in Result
    BY <1>a, SetCreated DEF Marked, Object, Mark
  <2>4. result'.login = Marked("secret").login
    BY <2>2, <2>3 DEF Result
  <2>5. result'.login = "generated"
    BY <1>a, <2>1, <2>4, MarkedFields DEF Object
  <2> QED
    BY <1>a, <2>1, <2>5 DEF LoginCarried, BeforeGrant, LoginInHand
<1>8. CASE GrantReadGroup
  <2>1. /\ pc = "grant" /\ pc' \in {"recordLogin", "tables"} /\ UNCHANGED <<status, body>>
        /\ result'.login = result.login /\ result'.created = result.created
    BY <1>a, <1>8 DEF GrantReadGroup, Step, Result
  <2>2. pc' = "tables" =>
          /\ result'.created = [body.status.created EXCEPT !["publication"] = "yes"]
          /\ result'.granted = body.status.granted
    <3>1. PICK g : result' = [result EXCEPT !.granted = g]
      BY <1>8 DEF GrantReadGroup
    <3>2. pc' = "tables" =>
            /\ result'.created = [body.status.created EXCEPT !["publication"] = "yes"]
            /\ result'.granted = body.status.granted
      BY <1>8, <2>1 DEF GrantReadGroup, Step
    <3> QED
      BY <3>2
  <2>3. body.status.created \in [Object -> Mark]
    BY <1>a DEF Body, Status
  <2>4. pc' = "tables" => result'.created["login"] = body.status.created["login"]
    BY <2>2, <2>3 DEF Object
  <2> QED
    BY <1>a, <2>1, <2>2, <2>4 DEF LoginCarried, BeforeGrant, LoginInHand
<1>9. CASE Pass /\ ~GrantReadGroup /\ pc \in LoginInHand /\ pc' \in LoginInHand
  <2>1. /\ result'.login = result.login /\ result'.granted = result.granted
        /\ result'.created["login"] = result.created["login"] /\ body' = body
        /\ pc \in LoginInHand \ {"grant"} /\ pc' \notin {"grant", "recordLogin"} \cup BeforeGrant
    <3>1. ~AdoptProvidedLogin /\ ~ApplySecret
      BY <1>9, TakenAt DEF LoginInHand
    <3>2. pc # "grant" /\ pc' # "grant" /\ pc' # "recordLogin"
      BY <1>9, <3>1, TakenAt, Reached DEF Pass
    <3>3. pc' \in PassStep /\ pc' \notin BeforeGrant
      BY <1>9 DEF LoginInHand, PassStep, BeforeGrant
    <3> QED
      BY <1>a, <1>9, <3>1, <3>2, <3>3, LoginStays, GrantedStays, PassFrame
  <2>2. status' # status => /\ status'.created["login"] = result.created["login"]
                            /\ status'.granted = result.granted
    BY <1>9, LoginRecorded
  <2>3. pc = "recordLogin" => /\ status'.created["login"] = result.created["login"]
                              /\ status'.granted = result.granted
    <3>1. pc = "recordLogin" => status' = Recorded(result)
      BY <1>9, TakenAt DEF Pass, RecordLogin
    <3>2. Recorded(result).granted = result.granted
      BY <1>a DEF Recorded, Status
    <3>3. result.created["login"] # "unset"
      BY <1>a, <1>9 DEF ResultNames
    <3> QED
      BY <1>a, <3>1, <3>2, <3>3, RecordedFields DEF Object
  <2>4. pc # "recordLogin" => /\ status.created["login"] = result.created["login"]
                              /\ status.granted = result.granted
    BY <1>a, <2>1 DEF LoginCarried
  <2>5. result.login = body.wanted
    BY <1>a, <1>9 DEF LoginCarried
  <2> QED
    BY <2>1, <2>2, <2>3, <2>4, <2>5 DEF LoginCarried
<1>10. CASE Pass /\ pc' \in LoginInHand
  <2>1. pc \in LoginInHand \/ AdoptProvidedLogin \/ ApplySecret
    BY <1>10, TakenAt DEF Pass, LoginInHand
  <2> QED
    BY <1>6, <1>7, <1>8, <1>9, <1>10, <2>1
<1>11. CASE Pass
  <2>1. pc' \in PassStep => pc' \in BeforeGrant \cup LoginInHand
    BY DEF PassStep, BeforeGrant, LoginInHand
  <2> QED
    BY <1>1, <1>5, <1>10, <1>11, <2>1
<1> QED
  BY <1>a, <1>2, <1>3, <1>4, <1>11, PassOrRest, RestShapes

\* Where a swap may fail there is one login, so its mark and its name say the same.
LEMMA OneLogin ==
  ASSUME Ledger, pc \in LoginInHand \cap Swapping, budget.at \cap Swapping # {}
  PROVE  /\ LoginIn(body.status) => result.login = "generated"
         /\ Claims(body.status) => result.login = "provided"
         /\ result.login = "generated" => LoginIn(status)
         /\ Claims(result) => Claims(status)
         /\ ~Superseded
<1>a. /\ ResultNames /\ LoginCarried /\ Unswapped /\ NamesFollow(status)
      /\ NamesFollow(body.status) /\ pc \in LoginInHand \ {"grant", "recordLogin"}
      /\ Typed
  BY LedgerGuard DEF Ledger, Swapping
<1>1. /\ result.login = spec.wanted /\ body.status.login \in {"none", spec.wanted}
      /\ status.login \in {"none", spec.wanted}
  BY <1>a DEF LoginCarried, Unswapped
<1>2. /\ result.created["login"] \in {"yes", "no"}
      /\ result.login = LoginMarked(result.created["login"])
      /\ status.created["login"] = result.created["login"] /\ status.granted = result.granted
      /\ status.login = LoginMarked(status.created["login"])
      /\ body.status.login = LoginMarked(body.status.created["login"])
  BY <1>a DEF ResultNames, LoginCarried, NamesFollow
<1> QED
  BY <1>1, <1>2 DEF LoginMarked, LoginIn, Claims, Superseded

\* A handler that ends leaves everything in status.
LEMMA AccountedIdle ==
  ASSUME Ledger, [Next]_vars, pc' = "idle"
  PROVE  LoginAccounted'
<1> SUFFICES /\ OwnRole' \/ OwnSecret' => LoginIn(status')
             /\ OwnMember' => Claims(status')
  BY DEF LoginAccounted, TeardownStep, BeforeGrant, LoginInHand, LoginIn, Claims
<1>a. /\ Typed /\ queued = {} /\ LoginAccounted /\ ClaimsFollow /\ ResultNames
      /\ result \in Result /\ Objects
  BY LedgerGuard DEF Ledger
<1>1. CASE Publish
  <2>1. /\ pc = "publish" /\ UNCHANGED <<source, secrets>>
        /\ status' = [Recorded(result) EXCEPT !.connection = ConnectionOf(result)]
    BY <1>1 DEF Publish
  <2>2. Recorded(result) \in Status /\ status \in Status
    BY <1>a, RecordedType, LedgerGuard
  <2>3. /\ status'.created = Recorded(result).created /\ status'.login = result.login
        /\ status'.granted = result.granted
    BY <2>1, <2>2 DEF Status, Recorded
  <2>4. result.login = "generated" => status'.created["login"] = "yes"
    <3>1. result.login = "generated" => result.created["login"] = "yes"
      BY <1>a, <2>1 DEF ResultNames, LoginInHand, LoginMarked
    <3> QED
      BY <1>a, <2>2, <2>3, <3>1, RecordedFields DEF Object
  <2>5. /\ OwnRole \/ OwnSecret => result.login = "generated"
        /\ OwnMember => Claims(result)
    BY <1>a, <2>1 DEF LoginAccounted
  <2>6. OwnRole' = OwnRole /\ OwnSecret' = OwnSecret /\ OwnMember' = OwnMember
    BY <2>1 DEF OwnRole, OwnSecret, OwnMember
  <2> QED
    BY <2>3, <2>4, <2>5, <2>6 DEF LoginIn, Claims
<1>2. ASSUME UNCHANGED status, ~EnsureLoginRole, ~CommentRole, ~ApplySecret, ~GrantReadGroup,
             pc \in ({"idle"} \cup TeardownStep \cup BeforeGrant) \ {"commentRole", "applySecret"}
      PROVE  /\ OwnRole' \/ OwnSecret' => LoginIn(status')
             /\ OwnMember' => Claims(status')
  BY <1>a, <1>2, OwnedMade DEF LoginAccounted
<1>3. ~EnsureLoginRole /\ ~CommentRole /\ ~ApplySecret /\ ~GrantReadGroup
  BY TakenAt
<1>4. CASE Refuse
  <2>1. pc # "slot"
    BY <1>4, <1>a DEF Refuse, Objects, SubscriptionFits, MayPass, BeforeSlot, PassStep
  <2>2. pc \in BeforeGrant \ {"commentRole", "applySecret"} /\ UNCHANGED status
    BY <1>4, <2>1 DEF Refuse, BeforeGrant
  <2> QED
    BY <1>2, <1>3, <2>2
<1>5. CASE Pass
  BY <1>1, <1>4, <1>5, Reached
<1>6. CASE Rest /\ ~Pass
  <2>1. UNCHANGED status
    BY <1>a, <1>6, RestShapes DEF Around, GoesOn, Begins
  <2>2. CASE pc \notin PassStep
    <3>1. pc \in {"idle"} \cup TeardownStep
      BY <1>a, <2>2 DEF Typed, TypeOK
    <3>2. pc \in ({"idle"} \cup TeardownStep \cup BeforeGrant) \ {"commentRole", "applySecret"}
      BY <3>1 DEF TeardownStep
    <3> QED
      BY <1>2, <1>3, <2>1, <3>2
  <2>3. CASE pc \in PassStep
    <3>1. pc \notin Unrecorded
      BY <1>a, <1>6, <2>3, RecordingGoesOn DEF PassStep
    <3>2. pc \in budget.at
      <4>1. Break
        BY <1>a, <1>6, <2>3, PassBroken DEF PassStep
      <4> QED
        BY <4>1 DEF Break
    <3>3. CASE pc \in BeforeGrant
      BY <1>2, <1>3, <2>1, <3>1, <3>3 DEF Unrecorded
    <3>4. CASE pc \notin BeforeGrant
      <4>1. pc \in LoginInHand \cap Swapping
        BY <2>3, <3>1, <3>4 DEF PassStep, BeforeGrant, LoginInHand, Swapping, Unrecorded
      <4>2. budget.at \cap Swapping # {}
        BY <3>2, <4>1
      <4>3. /\ OwnRole \/ OwnSecret => LoginIn(status)
            /\ OwnMember => Claims(status)
        BY <1>a, <4>1, <4>2, OneLogin DEF LoginAccounted, LoginInHand, Swapping
      <4> QED
        BY <1>a, <1>3, <2>1, <4>3, OwnedMade
    <3> QED
      BY <3>3, <3>4
  <2> QED
    BY <2>2, <2>3
<1> QED
  BY <1>5, <1>6, PassOrRest

LEMMA LoginAccountedNext ==
  ASSUME Ledger, [Next]_vars
  PROVE  LoginAccounted'
<1>a. /\ Typed /\ queued = {} /\ LoginAccounted /\ LoginCarried /\ ClaimsFollow /\ ResultNames
      /\ result \in Result /\ status \in Status /\ source \in SourceType
      /\ secrets \in SecretsType /\ ProvidedStand
      /\ NamesFollow(status) /\ NamesFollow(body.status)
      /\ (pc \in TeardownStep => body.status = status)
  BY LedgerGuard DEF Ledger
<1>b. LoginGone'
  BY NamesKept DEF Ledger, Names
<1>1. CASE pc' = "idle"
  BY <1>1, AccountedIdle
<1>2. CASE Around
  <2>1. UNCHANGED <<status, body, result, pc>>
    BY <1>2 DEF Around
  <2>2. (OwnRole' => OwnRole) /\ (OwnSecret' => OwnSecret) /\ (OwnMember' => OwnMember)
    BY <1>a, <2>1, OwnedMade, TakenAt
  <2>3. Superseded' = Superseded
    BY <2>1 DEF Superseded
  <2> HIDE DEF Superseded
  <2> QED
    BY <1>a, <2>1, <2>2, <2>3 DEF LoginAccounted, LoginIn, Claims
<1>3. CASE (GoesOn \/ Begins) /\ Rest /\ pc' # "idle"
  <2>1. /\ UNCHANGED status /\ pc \in {"idle"} \cup TeardownStep
        /\ pc' \in {"inspect"} \cup TeardownStep
    BY <1>3 DEF GoesOn, Begins, TeardownStep
  <2>2. (OwnRole' => OwnRole) /\ (OwnSecret' => OwnSecret) /\ (OwnMember' => OwnMember)
    BY <1>a, <2>1, OwnedMade, TakenAt DEF TeardownStep
  <2>3. pc \in ({"idle"} \cup TeardownStep \cup BeforeGrant) \ {"commentRole", "applySecret"}
    BY <2>1 DEF TeardownStep
  <2>4. pc' \notin LoginInHand \cup {"commentRole", "applySecret"}
    BY <2>1 DEF TeardownStep, LoginInHand
  <2> QED
    BY <1>a, <2>1, <2>2, <2>3, <2>4 DEF LoginAccounted, LoginIn, Claims, LoginInHand
<1>4. CASE Pass /\ pc' \in BeforeGrant /\ pc \in BeforeGrant
  <2>1. body' = body /\ pc # "applySecret"
    BY <1>4, PassFrame, TakenAt DEF Pass, BeforeGrant
  <2>2. (OwnSecret' => OwnSecret) /\ (OwnMember' => OwnMember)
    BY <1>a, <1>4, OwnedMade, TakenAt DEF BeforeGrant
  <2>3. pc # "commentRole" =>
          /\ OwnRole \/ OwnSecret => LoginIn(status)
          /\ OwnMember => Claims(status)
    BY <1>a, <1>4, <2>1 DEF LoginAccounted
  <2>4. CASE pc' \in {"commentRole", "applySecret"}
    <3>1. CASE pc # "commentRole"
      <4>1. LoginIn(status) => LoginIn(body.status)
        BY <1>a, <1>4 DEF LoginCarried, LoginIn
      <4>2. Claims(status) => Claims(body.status)
        BY <1>a, <1>4 DEF LoginCarried, ClaimsFollow, Claims
      <4> QED
        BY <2>1, <2>2, <2>3, <2>4, <3>1, <4>1, <4>2
           DEF LoginAccounted, LoginIn, Claims, LoginInHand
    <3>2. CASE pc = "commentRole"
      BY <1>a, <2>1, <2>2, <2>4, <3>2 DEF LoginAccounted, LoginIn, Claims, LoginInHand
    <3> QED
      BY <3>1, <3>2
  <2>5. CASE pc' \notin {"commentRole", "applySecret"}
    <3>1. pc # "commentRole" /\ ~EnsureLoginRole
      BY <1>4, <2>5, TakenAt DEF Pass
    <3>2. OwnRole' => OwnRole
      BY <1>a, <3>1, OwnedMade, TakenAt
    <3>3. status' # status => pc = "recordPublication"
      BY <1>a, <1>4, StatusWritten DEF BeforeGrant
    <3>4. pc = "recordPublication" => ~LoginIn(status) /\ ~Claims(status)
      <4>1. pc = "recordPublication" => status.created["login"] = "unset"
        BY <1>a DEF ResultNames
      <4> QED
        BY <1>a, <4>1 DEF NamesFollow, LoginMarked, LoginIn, Claims
    <3>5. /\ OwnRole' \/ OwnSecret' => LoginIn(status')
          /\ OwnMember' => Claims(status')
      BY <2>2, <2>3, <3>1, <3>2, <3>3, <3>4
    <3> QED
      BY <1>4, <2>5, <3>5 DEF LoginAccounted, LoginIn, Claims, BeforeGrant, LoginInHand
  <2> QED
    BY <2>4, <2>5
<1>5. CASE AdoptProvidedLogin
  <2>1. /\ pc = "login" /\ pc' = "grant" /\ UNCHANGED <<status, body, source, secrets>>
        /\ result'.login = "provided"
    BY <1>a, <1>5, AdoptedFields DEF AdoptProvidedLogin, Step
  <2>2. result'.granted = Inherited("provided")
    BY <1>a, <1>5 DEF AdoptProvidedLogin, Result
  <2>3. /\ OwnRole' = OwnRole /\ OwnSecret' = OwnSecret /\ OwnMember' = OwnMember
    BY <2>1 DEF OwnRole, OwnSecret, OwnMember
  <2>4. /\ OwnRole \/ OwnSecret => LoginIn(status)
        /\ OwnMember => Claims(status)
    BY <1>a, <2>1 DEF LoginAccounted, BeforeGrant
  <2>5. LoginIn(status) => LoginIn(body.status)
    BY <1>a, <2>1 DEF LoginCarried, LoginIn, BeforeGrant
  <2>6. Claims(status) => Claims(body.status)
    BY <1>a, <2>1 DEF LoginCarried, ClaimsFollow, Claims, BeforeGrant
  <2>7. Claims(body.status) => result'.granted
    BY <1>a, <2>1, <2>2 DEF Claims, Inherited, ClaimsFollow, BeforeGrant
  <2> QED
    BY <2>1, <2>3, <2>4, <2>5, <2>6, <2>7 DEF LoginAccounted, LoginIn, Claims, LoginInHand,
       TeardownStep, BeforeGrant
<1>6. CASE ApplySecret
  <2>1. /\ pc = "applySecret" /\ pc' = "grant" /\ UNCHANGED <<status, body, source>>
        /\ result.login = "generated"
    BY <1>a, <1>6 DEF ApplySecret, Step, Typed, ResultFits
  <2>2. PICK b : result' = [Marked("secret") EXCEPT !.credentials = "generated", !.granted = b]
    BY <1>6 DEF ApplySecret
  <2>3. Marked("secret") \in Result
    BY <1>a, SetCreated DEF Marked, Object, Mark
  <2>4. result'.login = "generated"
    BY <1>a, <2>1, <2>2, <2>3, MarkedFields DEF Object, Result
  <2>5. OwnMember' => Claims(body.status)
    BY <1>a, <2>1 DEF LoginAccounted, OwnMember
  <2> QED
    BY <2>1, <2>4, <2>5 DEF LoginAccounted, LoginIn, Claims, LoginInHand, TeardownStep,
       BeforeGrant
<1>7. CASE GrantReadGroup
  <2>1. /\ pc = "grant" /\ pc' \in {"recordLogin", "tables"}
        /\ UNCHANGED <<status, body, secrets>>
        /\ result'.login = result.login /\ result.login \in Login
    BY <1>a, <1>7 DEF GrantReadGroup, Step, Result, Typed, ResultFits, LoginInHand
  <2>2. OwnRole' => OwnRole
    BY <1>a, <2>1, OwnedMade, TakenAt
  <2>3. OwnSecret' = OwnSecret
    BY <2>1 DEF OwnSecret
  <2>4. OwnMember' => OwnMember \/ (result.login = "provided" /\ result'.granted)
    <3>1. CASE source.member[result.login] # "none"
      BY <1>7, <3>1 DEF GrantReadGroup, OwnMember
    <3>2. CASE source.member[result.login] = "none"
      <4>1. /\ source' = [source EXCEPT !.member[result.login] = "operator"]
            /\ result' = [result EXCEPT !.granted = @ \/ TRUE]
        BY <1>7, <3>2 DEF GrantReadGroup
      <4>2. result'.granted
        BY <1>a, <4>1 DEF Result
      <4>3. result.login # "provided" => source'.member["provided"] = source.member["provided"]
        BY <1>a, <2>1, <4>1 DEF SourceType, Login
      <4> QED
        BY <2>1, <4>2, <4>3 DEF OwnMember
    <3> QED
      BY <3>1, <3>2
  <2>5. result.granted => result'.granted
    BY <1>a, <1>7 DEF GrantReadGroup, Result
  <2>6. /\ OwnRole \/ OwnSecret => result.login = "generated" \/ LoginIn(body.status)
        /\ OwnMember => Claims(result) \/ Claims(body.status)
        /\ Claims(body.status) /\ result.login = "provided" => result.granted
    BY <1>a, <2>1 DEF LoginAccounted, LoginInHand
  <2>7. OwnMember' => Claims(result') \/ (Claims(body.status) /\ result.login # "provided")
    BY <2>1, <2>4, <2>5, <2>6 DEF Claims
  <2> QED
    BY <2>1, <2>2, <2>3, <2>6, <2>7 DEF LoginAccounted, LoginIn, Claims, LoginInHand,
       TeardownStep, BeforeGrant
<1>8. CASE Pass /\ ~GrantReadGroup /\ pc \in LoginInHand /\ pc' \in LoginInHand
  <2>1. /\ result'.login = result.login /\ result'.granted = result.granted /\ body' = body
        /\ pc # "grant" /\ pc' # "grant" /\ result'.credentials = result.credentials
    <3>1. ~AdoptProvidedLogin /\ ~ApplySecret
      BY <1>8, TakenAt DEF LoginInHand
    <3>2. pc # "grant" /\ pc' # "grant"
      BY <1>8, <3>1, TakenAt, Reached DEF Pass
    <3>3. pc' \in PassStep
      BY <1>8 DEF LoginInHand, PassStep
    <3> QED
      BY <1>a, <1>8, <3>1, <3>2, <3>3, LoginStays, GrantedStays, PassFrame
  <2>2. (OwnRole' => OwnRole) /\ (OwnSecret' => OwnSecret) /\ (OwnMember' => OwnMember)
    BY <1>a, <1>8, OwnedMade, TakenAt DEF LoginInHand
  <2>3. pc' \notin {"idle"} \cup TeardownStep \cup BeforeGrant
    BY <1>8 DEF LoginInHand, TeardownStep, BeforeGrant
  <2>4. Superseded' = Superseded /\ Claims(result') = Claims(result)
    BY <2>1 DEF Superseded, Claims
  <2>5. pc \notin {"deleteSuperseded", "publish"} =>
          /\ OwnRole \/ OwnSecret => result.login = "generated" \/ LoginIn(body.status)
          /\ OwnMember => \/ Claims(result)
                          \/ Claims(body.status) /\ result.login # "provided"
    BY <1>a, <1>8, <2>1 DEF LoginAccounted
  <2>6. CASE pc' \notin {"deleteSuperseded", "publish"}
    <3>1. pc \notin {"deleteSuperseded", "publish"}
      BY <1>8, <2>6, TakenAt DEF Pass, LoginInHand
    <3>2. OwnRole' \/ OwnSecret' => result'.login = "generated" \/ LoginIn(body'.status)
      BY <2>1, <2>2, <2>5, <3>1
    <3>3. OwnMember' => \/ Claims(result')
                        \/ Claims(body'.status) /\ result'.login # "provided"
      BY <2>1, <2>2, <2>4, <2>5, <3>1
    <3> QED
      BY <2>1, <2>3, <2>6, <3>2, <3>3 DEF LoginAccounted, LoginIn, Claims, BeforeGrant
  <2>7. CASE Refresh /\ pc' = "publish"
    <3>1. pc = "refresh" /\ ~Superseded
      BY <2>7 DEF Refresh, Step
    <3>2. /\ LoginIn(body.status) => result.login = "generated"
          /\ Claims(body.status) => result.login = "provided"
      BY <1>a, <3>1 DEF Superseded, NamesFollow, LoginMarked, LoginIn, Claims
    <3>3. /\ OwnRole \/ OwnSecret => result.login = "generated"
          /\ OwnMember => Claims(result)
      BY <2>5, <3>1, <3>2
    <3> QED
      BY <2>1, <2>2, <2>3, <2>4, <2>7, <3>3 DEF LoginAccounted
  <2>8. CASE DropSupersededLogin
    <3>1. /\ pc = "dropSuperseded" /\ pc' = "deleteSuperseded"
          /\ RemoveLogin(body.status.login, body.status.created["login"] = "yes",
                         body.status.granted)
      BY <2>8 DEF DropSupersededLogin, Step
    <3>2. Superseded
      BY <1>a, <3>1 DEF ClaimsFollow
    <3>3. OwnRole' => result.login = "generated"
      <4>1. LoginIn(body.status) => ~OwnRole'
        BY <1>b, <2>1, <3>1 DEF LoginGone, LoginIn, OwnRole, Operators
      <4> QED
        BY <2>2, <2>5, <3>1, <4>1
    <3>4. OwnMember' => Claims(result)
      <4>1. ASSUME Claims(body.status) PROVE ~OwnMember'
        <5>1. body.status.login = "provided" /\ body.status.granted = TRUE
          <6>1. body.status.granted \in BOOLEAN
            BY <1>a DEF Typed, TypeOK, Body, Status
          <6> QED
            BY <4>1, <6>1 DEF Claims
        <5> DEFINE made == body.status.created["login"] = "yes"
        <5>2. ~made
          BY <1>a, <5>1 DEF NamesFollow, LoginMarked
        <5>3. RemoveLogin("provided", made, TRUE) /\ made \in BOOLEAN
          BY <3>1, <5>1
        <5>4. source.role["provided"] # "absent"
          BY <1>a DEF ProvidedStand
        <5> HIDE DEF made
        <5> QED
          BY <1>a, <5>2, <5>3, <5>4, Revoked
      <4> QED
        BY <2>2, <2>5, <3>1, <4>1
    <3>5. OwnSecret' => result.login = "generated" \/ LoginIn(body.status)
      BY <2>2, <2>5, <3>1
    <3> QED
      BY <2>1, <2>3, <2>4, <3>1, <3>2, <3>3, <3>4, <3>5 DEF LoginAccounted, LoginIn
  <2>9. CASE DeleteSupersededSecret
    <3>1. pc = "deleteSuperseded" /\ pc' = "publish"
      BY <2>9, TakenAt
    <3>2. /\ OwnRole => result.login = "generated"
          /\ OwnMember => Claims(result)
          /\ Superseded /\ (OwnSecret => result.login = "generated" \/ LoginIn(body.status))
      BY <1>a, <3>1 DEF LoginAccounted
    <3>3. OwnSecret' => result.login = "generated"
      <4>1. ASSUME LoginIn(body.status), result.login # "generated" PROVE ~OwnSecret'
        <5>1. /\ body.status.created["secret"] = "yes" /\ body.status.credentials = "generated"
          BY <1>a, <4>1 DEF LoginIn, NamesFollow, LoginMarked
        <5>2. result.credentials # "generated"
          BY <1>a, <3>1, <4>1 DEF ResultNames, LoginInHand
        <5>3. RemoveSecret("generated")
          BY <2>9, <5>1, <5>2 DEF DeleteSupersededSecret
        <5> QED
          BY <1>a, <5>3 DEF RemoveSecret, OwnSecret, SecretsType
      <4> QED
        BY <2>2, <3>2, <4>1
    <3> QED
      BY <2>1, <2>2, <2>3, <2>4, <3>1, <3>2, <3>3 DEF LoginAccounted
  <2> QED
    BY <1>8, <2>6, <2>7, <2>8, <2>9, Reached
<1>9. CASE Pass
  <2>1. \/ pc' = "idle"
        \/ pc \in BeforeGrant /\ pc' \in BeforeGrant
        \/ AdoptProvidedLogin \/ ApplySecret
        \/ pc \in LoginInHand /\ pc' \in LoginInHand
    BY <1>9, TakenAt DEF Pass, BeforeGrant, LoginInHand
  <2> QED
    BY <1>1, <1>4, <1>5, <1>6, <1>7, <1>8, <1>9, <2>1
<1> QED
  BY <1>a, <1>1, <1>2, <1>3, <1>9, PassOrRest, RestShapes

LEMMA LoginClearedNext ==
  ASSUME Ledger, [Next]_vars
  PROVE  LoginCleared'
<1>a. /\ Typed /\ Objects /\ LoginAccounted /\ LoginCleared /\ ProvidedStand
      /\ NamesFollow(status) /\ source \in SourceType /\ secrets \in SecretsType
      /\ (pc \in TeardownStep => body.status = status)
      /\ instances' \subseteq instances /\ status \in Status
  BY LedgerGuard, OneWay DEF Ledger
<1>b. LoginGone'
  BY NamesKept DEF Ledger, Names
<1>c. ASSUME pc \in TeardownStep \cup {"idle"}
      PROVE  /\ OwnRole \/ OwnSecret => LoginIn(status)
             /\ OwnMember => Claims(status)
             /\ (OwnRole' => OwnRole) /\ (OwnSecret' => OwnSecret) /\ (OwnMember' => OwnMember)
  <2>1. pc \in ({"idle"} \cup TeardownStep \cup BeforeGrant) \ {"commentRole", "applySecret"}
    BY <1>c DEF TeardownStep
  <2> QED
    BY <1>a, <1>c, <2>1, OwnedMade, TakenAt DEF LoginAccounted, TeardownStep
<1>1. ASSUME pc' \in {"deleteSecret", "finish"}, "source" \in instances' \ missed'
      PROVE  ~OwnRole' /\ ~OwnMember'
  <2>1. \/ pc = "dropLogin" /\ pc' = "deleteSecret" /\ DropLogin
        \/ pc \in {"deleteSecret", "finish"} /\ missed' = missed
    BY <1>1, <1>a, TeardownGoes DEF TeardownStep
  <2>2. CASE pc \in {"deleteSecret", "finish"} /\ missed' = missed
    BY <1>a, <1>c, <1>1, <2>2 DEF LoginCleared, TeardownStep
  <2>3. CASE pc = "dropLogin" /\ pc' = "deleteSecret" /\ DropLogin
    <3>1. body' = body /\ body.status = status
      BY <1>a, <2>3 DEF DropLogin, Step, TeardownStep
    <3>2. ~OwnRole'
      <4>1. LoginIn(status) => ~OwnRole'
        BY <1>b, <1>1, <2>3, <3>1 DEF LoginGone, LoginIn, OwnRole, Operators
      <4> QED
        BY <1>c, <2>3, <4>1 DEF TeardownStep
    <3>3. ~OwnMember'
      <4> SUFFICES ASSUME Claims(status) PROVE ~OwnMember'
        BY <1>c, <2>3 DEF TeardownStep
      <4>1. status.login = "provided" /\ status.granted = TRUE
        BY <1>a DEF Claims, Status
      <4>2. ~Made("login") /\ Made("login") \in BOOLEAN
        BY <1>a, <3>1, <4>1 DEF Made, NamesFollow, LoginMarked
      <4>3. RemoveLogin("provided", Made("login"), TRUE)
        <5>1. body.status.login # "none"
          BY <3>1, <4>1
        <5>2. RemoveLogin(body.status.login, Made("login"), body.status.granted)
          BY <2>3, <5>1, Zenon DEF DropLogin
        <5> QED
          BY <3>1, <4>1, <5>2
      <4> QED
        BY <1>a, <4>2, <4>3, Revoked DEF ProvidedStand
    <3> QED
      BY <3>2, <3>3
  <2> QED
    BY <2>1, <2>2, <2>3
<1>2. ASSUME pc' = "finish", "source" \notin missed'
      PROVE  ~OwnSecret'
  <2>1. \/ pc = "deleteSecret" /\ DeleteSecret /\ missed' = missed
        \/ pc = "finish" /\ missed' = missed
    BY <1>2, <1>a, TeardownGoes DEF TeardownStep
  <2>2. CASE pc = "finish" /\ missed' = missed
    BY <1>a, <1>c, <1>2, <2>2 DEF LoginCleared, TeardownStep
  <2>3. CASE pc = "deleteSecret" /\ DeleteSecret
    <3>1. LoginIn(status) => ~OwnSecret'
      <4> SUFFICES ASSUME LoginIn(status) PROVE ~OwnSecret'
        OBVIOUS
      <4>1. body.status.created["secret"] = "yes" /\ body.status.credentials = "generated"
        BY <1>a, <2>3 DEF LoginIn, NamesFollow, LoginMarked, TeardownStep
      <4>2. RemoveSecret("generated")
        BY <2>3, <4>1 DEF DeleteSecret, Made
      <4> QED
        BY <1>a, <4>2 DEF RemoveSecret, OwnSecret, SecretsType
    <3> QED
      BY <1>c, <2>3, <3>1 DEF TeardownStep
  <2> QED
    BY <2>1, <2>2, <2>3
<1>3. ASSUME spec'.released
      PROVE  /\ "source" \in instances' => ~OwnRole' /\ ~OwnMember'
             /\ ~OwnSecret'
  <2>1. CASE spec.released /\ pc = "idle"
    BY <1>a, <1>c, <2>1 DEF LoginCleared
  <2>2. CASE pc = "finish" /\ missed = {} /\ UNCHANGED <<source, target, secrets, instances, status>>
    BY <1>a, <2>2 DEF LoginCleared, OwnRole, OwnSecret, OwnMember
  <2>3. CASE /\ pc = "idle" /\ UNCHANGED <<source, target, secrets, instances, status>>
             /\ ~ \E o \in Object : status.created[o] = "yes"
             /\ ~status.granted
    <3>1. ~LoginIn(status) /\ ~Claims(status)
      BY <2>3 DEF LoginIn, Claims, Object
    <3> QED
      BY <1>c, <2>3, <3>1
  <2> QED
    BY <1>a, <1>3, <2>1, <2>2, <2>3, ReleasedBy
<1> QED
  BY <1>1, <1>2, <1>3 DEF LoginCleared

LEMMA LedgerKept ==
  ASSUME ~Overlap, Ledger, [Next]_vars
  PROVE  Ledger'
  BY NamesKept, ObjectsKept, BudgetWholeNext, UnswappedNext, LoginCarriedNext,
     LoginAccountedNext, LoginClearedNext DEF Ledger

LEMMA InitLedger ==
  ASSUME RecordsMade, SwapsComplete, Init
  PROVE  Ledger
<1>1. Names /\ Objects
  BY InitNames, InitObjects DEF SwapsComplete
<1>2. /\ status = NoStatus /\ pc = "idle" /\ budget \in Budgets /\ ~spec.released
      /\ secrets.generated = NoPassword
      /\ body.status = NoStatus /\ body.wanted = spec.wanted
  BY DEF Init
<1>3. BudgetWhole
  BY <1>2 DEF SwapsComplete, BudgetWhole
<1>4. Unswapped
  BY <1>2 DEF Unswapped, NoStatus, NoConnection
<1>5. ~OwnRole /\ ~OwnSecret /\ ~OwnMember
  <2>1. PICK p \in HolderOf("publication"), r \in HolderOf("login"), s \in HolderOf("slot") :
          source = [publication |-> p,
                    role |-> [l \in Login |-> IF l = "generated" THEN r ELSE "foreign"],
                    password |-> NoPassword, member |-> [l \in Login |-> "none"],
                    slot |-> IF s = "foreign" THEN "active" ELSE "absent"]
    BY Zenon DEF Init
  <2>2. source.role["generated"] = r /\ source.member["provided"] = "none"
    BY <2>1 DEF Login
  <2> QED
    BY <1>2, <2>2 DEF HolderOf, Operators, OwnRole, OwnSecret, OwnMember
<1>6. LoginCarried /\ LoginCleared
  BY <1>2 DEF LoginCarried, LoginCleared, LoginInHand, BeforeGrant
<1>7. LoginAccounted
  BY <1>2, <1>5 DEF LoginAccounted, LoginInHand, TeardownStep, BeforeGrant
<1> QED
  BY <1>1, <1>3, <1>4, <1>6, <1>7 DEF Ledger

\* Whenever no handler runs, what the operator has on either server, and its
\* Secret, is in status, whatever failed, went or was swapped before - as long
\* as making an object and recording it are not torn apart (_record_created),
\* the publication is left to the operator, and a swap of the login gets to
\* publish its connection.
THEOREM AccountedFor ==
  ASSUME RecordsMade, SwapsComplete
  PROVE  Spec => []Accounted
<1>1. Ledger => Accounted
  <2> SUFFICES ASSUME Ledger, pc = "idle"
               PROVE  /\ Operators(source.publication) => status.created["publication"] = "yes"
                      /\ Operators(source.role["generated"]) =>
                           status.created["login"] = "yes" /\ status.login = "generated"
                      /\ secrets.generated # NoPassword => status.created["secret"] = "yes"
                      /\ source.slot # "absent" =>
                           "yes" \in {status.created["slot"], status.created["subscription"]}
                      /\ Operators(target.subscription) => status.created["subscription"] = "yes"
                      /\ source.member["provided"] = "operator" =>
                           status.granted /\ status.login = "provided"
    BY DEF Accounted
  <2>1. ObjectsMarked /\ LoginAccounted /\ NamesFollow(status)
    BY LedgerGuard DEF Ledger, Objects
  <2>2. /\ OwnRole \/ OwnSecret => LoginIn(status)
        /\ OwnMember => Claims(status)
    BY <2>1 DEF LoginAccounted
  <2> QED
    BY <2>1, <2>2 DEF ObjectsMarked, NamesFollow, LoginMarked, LoginIn, Claims, OwnRole,
       OwnSecret, OwnMember
<1>2. Ledger /\ [Next]_vars => Ledger'
  BY LedgerKept DEF RecordsMade
<1> QED
  BY InitLedger, <1>1, <1>2, PTL DEF Spec

\* A finalizer that is released has left nothing of the operator's behind: no
\* slot on a source that still exists, no publication, login, membership,
\* subscription or Secret, whichever server it could not reach on the way, under
\* the same assumptions (teardown_replication, run_teardown).
THEOREM NothingLeftBehind ==
  ASSUME RecordsMade, SwapsComplete
  PROVE  Spec => []NothingLeft
<1>1. Ledger => NothingLeft
  BY DEF Ledger, Objects, ObjectsCleared, LoginCleared, NothingLeft, OwnRole, OwnSecret, OwnMember
<1>2. Ledger /\ [Next]_vars => Ledger'
  BY LedgerKept DEF RecordsMade
<1> QED
  BY InitLedger, <1>1, <1>2, PTL DEF Spec

-----------------------------------------------------------------------------
(***************************************************************************)
(* 8  Converged and SupersededUnused.  The connection of a subscription is *)
(* never read back: SetConnection trusts the fingerprint in status.  It    *)
(* may, because that fingerprint is the connection the subscription has,   *)
(* or one whose password no server and no Secret has any more, so that no  *)
(* pass can want it again.                                                 *)
(***************************************************************************)

MakingLogin == {"createRole", "commentRole", "applySecret"}

\* From setting the connection to publishing it.
Connected ==
  {"commentSubscription", "recordSubscription", "setEnabled", "refresh", "dropSuperseded",
   "deleteSuperseded", "publish"}

\* A login's own kind of password.
Honest(c) ==
  /\ c.login = "provided" => c.password = ProvidedPassword
  /\ c.login = "generated" => c.password \in Password

Stale(c) == c.login = "generated" /\ c.password \notin {source.password, secrets.generated}

Fingerprint ==
  /\ Honest(status.connection) /\ Honest(target.connection)
  /\ pc \in PassStep => body.status.connection = status.connection
  /\ MayPass /\ pc \notin Connected =>
       status.connection \in {NoConnection, target.connection} \/ Stale(status.connection)
  /\ pc \in MakingLogin \cup (LoginInHand \ Connected) =>
       \/ status.connection \in {NoConnection, target.connection}
       \/ status.connection.password # result.password

\* The Secret, the server and the pass agree on the generated login's password.
PasswordsAgree ==
  /\ MayPass /\ OwnRole /\ OwnSecret => secrets.generated = source.password
  /\ pc \in MakingLogin =>
       /\ secrets.generated \in {NoPassword, result.stored}
       /\ result.stored \in {NoPassword, result.password}
  /\ pc = "createRole" /\ result.stored # NoPassword /\ OwnRole =>
       source.password = result.stored
  /\ pc \in {"commentRole", "applySecret"} => OwnRole /\ source.password = result.password
  /\ pc \in LoginInHand /\ result.login = "provided" => result.password = ProvidedPassword
  /\ pc \in LoginInHand /\ result.login = "generated" =>
       /\ result.password \in Password /\ source.password = result.password /\ OwnRole
       /\ secrets.generated \in {NoPassword, result.password}

ConnectionSet ==
  /\ pc \in Connected => target.connection = ConnectionOf(result)
  /\ pc \in Connected \ {"setEnabled"} => target.enabled = body.enabled
  /\ pc \in TeardownStep => body.deleting

Links == Ledger /\ Fingerprint /\ PasswordsAgree /\ ConnectionSet /\ Converged

LEMMA LinksGuard ==
  ASSUME Links
  PROVE  /\ Ledger /\ Typed /\ queued = {} /\ Objects
         /\ PassOwns /\ ProvidedStand /\ ResultNames
         /\ source \in SourceType /\ secrets \in SecretsType /\ target \in TargetType
         /\ status \in Status /\ body \in Body /\ result \in Result
         /\ (pc \in TeardownStep => ~MayPass)
         /\ (pc \in PassStep => MayPass)
  BY LedgerGuard, ObjectsGuard DEF Links, Ledger, MayPass

\* What the pass knows of passwords it reads once.
LEMMA PasswordStays ==
  ASSUME result \in Result, Pass, pc' \in PassStep, ~ReadSecret
  PROVE  /\ result'.stored = result.stored
         /\ ~AdoptProvidedLogin => result'.password = result.password
<1>1. \A o \in Object : /\ Marked(o).stored = result.stored
                        /\ Marked(o).password = result.password
                        /\ Marked(o) \in Result
  BY SetCreated DEF Marked, Result, Mark
<1>2. CASE Inspect
  BY <1>2 DEF Inspect, Result
<1>3. CASE EnsurePublication \/ EnsureSlot \/ CommentSubscription \/ SetConnection
  BY <1>1, <1>3 DEF EnsurePublication, EnsureSlot, CommentSubscription, SetConnection, Object
<1>4. CASE EnsureLoginRole \/ CommentRole
  <2>1. result' \in {result, [Marked("login") EXCEPT !.login = "generated"]}
    BY <1>4 DEF EnsureLoginRole, CommentRole
  <2> QED
    BY <1>1, <2>1 DEF Result, Object
<1>5. CASE ApplySecret
  <2>1. PICK b : result' = [Marked("secret") EXCEPT !.credentials = "generated", !.granted = b]
    BY <1>5 DEF ApplySecret
  <2> QED
    BY <1>1, <2>1 DEF Result, Object
<1>6. CASE AdoptProvidedLogin
  <2>1. PICK b : result' = [result EXCEPT !.login = "provided", !.credentials = "provided",
                               !.password = ProvidedPassword, !.granted = b,
                               !.created["login"] = "no", !.created["secret"] = "no"]
    BY <1>6 DEF AdoptProvidedLogin
  <2> QED
    BY <1>6, <2>1 DEF Result
<1>7. CASE GrantReadGroup
  <2>1. PICK b : result' = [result EXCEPT !.granted = b]
    BY <1>7 DEF GrantReadGroup
  <2> QED
    BY <2>1 DEF Result
<1> QED
  BY <1>2, <1>3, <1>4, <1>5, <1>6, <1>7 DEF Pass, CommentPublication, RecordPublication,
     RecordLogin, ConvergeTables, RecordSlot, CreateSubscription, RecordSubscription,
     SetEnabled, Refresh, DropSupersededLogin, DeleteSupersededSecret, Publish, Refuse, Idle,
     PassStep

\* The fingerprint is written when a pass publishes.
LEMMA ConnectionWritten ==
  ASSUME Typed, [Next]_vars
  PROVE  /\ status'.connection = status.connection \/ Publish
         /\ Publish => status'.connection = ConnectionOf(result)
<1>a. status \in Status /\ result \in Result
  BY DEF Typed, TypeOK
<1>1. CASE Publish
  <2>1. pc = "publish" /\ status' = [Recorded(result) EXCEPT !.connection = ConnectionOf(result)]
    BY <1>1 DEF Publish
  <2>2. Recorded(result) \in Status
    BY <1>a, RecordedType
  <2> QED
    BY <1>1, <2>1, <2>2 DEF Status
<1>2. CASE RecordPublication \/ RecordLogin \/ RecordSlot \/ RecordSubscription
  <2>1. status' = Recorded(result)
    BY <1>2 DEF RecordPublication, RecordLogin, RecordSlot, RecordSubscription
  <2> QED
    BY <1>a, <2>1, <1>2, TakenAt DEF Recorded, Status
<1>3. CASE Pass /\ ~Publish /\ ~RecordPublication /\ ~RecordLogin /\ ~RecordSlot
           /\ ~RecordSubscription
  <2>1. status' = status
    BY <1>a, <1>3, StatusWritten, PassOrRest, TakenAt DEF Pass
  <2> QED
    BY <1>3, <2>1
<1>4. CASE Rest /\ ~Publish
  BY <1>a, <1>4, RestShapes DEF Around, GoesOn, Begins
<1> QED
  BY <1>1, <1>2, <1>3, <1>4, PassOrRest

\* A Secret is written when its login's password is known, and otherwise only
\* goes away.
LEMMA SecretMoves ==
  ASSUME Typed, [Next]_vars
  PROVE  \/ secrets'.generated \in {secrets.generated, NoPassword} /\ ~ApplySecret
         \/ ApplySecret /\ secrets'.generated = result.password
<1>a. secrets \in SecretsType
  BY DEF Typed, TypeOK, SecretsType
<1>1. \A owner : RemoveSecret(owner) => secrets'.generated \in {NoPassword, secrets.generated}
  BY <1>a DEF RemoveSecret, SecretsType
<1>2. DeleteSupersededSecret \/ DeleteSecret =>
        secrets'.generated \in {NoPassword, secrets.generated}
  BY <1>1 DEF DeleteSupersededSecret, DeleteSecret
<1>3. ApplySecret => secrets'.generated = result.password
  BY <1>a DEF ApplySecret, SecretsType
<1> QED
  BY <1>2, <1>3, OthersMove

\* Dropping the other login leaves the generated one and its password.
LEMMA OtherLoginDropped ==
  ASSUME source \in SourceType, NEW made, NEW granted, NEW login \in Login,
         RemoveLogin(login, made, granted)
  PROVE  /\ \/ source'.password = source.password
            \/ login = "generated" /\ source'.role["generated"] = "absent"
         /\ login = "provided" => source'.role["generated"] = source.role["generated"]
<1>1. \/ source' \in {source, [source EXCEPT !.member[login] = "none"]}
      \/ source' = [source EXCEPT !.role[login] = "absent", !.member[login] = "none",
                      !.password = IF login = "generated" THEN NoPassword ELSE @]
  BY Zenon DEF RemoveLogin
<1>2. source.role \in [Login -> Holder]
  BY DEF SourceType
<1>3. CASE source' \in {source, [source EXCEPT !.member[login] = "none"]}
  BY <1>3 DEF SourceType
<1>4. CASE source' = [source EXCEPT !.role[login] = "absent", !.member[login] = "none",
                        !.password = IF login = "generated" THEN NoPassword ELSE @]
  <2>1. source'.role = [source.role EXCEPT ![login] = "absent"]
    BY <1>4 DEF SourceType
  <2>2. source'.password = IF login = "generated" THEN NoPassword ELSE source.password
    BY <1>4 DEF SourceType
  <2> QED
    BY <1>2, <2>1, <2>2 DEF Login
<1> QED
  BY <1>1, <1>3, <1>4

LEMMA PasswordsAgreeNext ==
  ASSUME Links, [Next]_vars
  PROVE  PasswordsAgree'
<1>a. /\ Ledger /\ Typed /\ queued = {} /\ PassOwns /\ PasswordsAgree
      /\ source \in SourceType /\ secrets \in SecretsType /\ result \in Result
      /\ (pc \in TeardownStep => ~MayPass) /\ (pc \in PassStep => MayPass)
  BY LinksGuard DEF Links
<1>b. \/ secrets'.generated \in {secrets.generated, NoPassword} /\ ~ApplySecret
      \/ ApplySecret /\ secrets'.generated = result.password
  BY <1>a, SecretMoves
<1>c. /\ ~EnsureLoginRole /\ ~DropSupersededLogin /\ ~DropLogin /\ ~ResetLoginPassword =>
           source'.password = source.password
      /\ ~EnsureLoginRole /\ ~CommentRole /\ ~DropSupersededLogin /\ ~DropLogin =>
           source'.role = source.role
  BY <1>a, SourceMoves
<1>d. ASSUME DropSupersededLogin
      PROVE  /\ \/ source'.password = source.password
                \/ /\ body.status.login = "generated"
                   /\ source'.role["generated"] = "absent"
             /\ body.status.login = "provided" =>
                  source'.role["generated"] = source.role["generated"]
             /\ body.status.login \in Login \ {result.login} /\ pc = "dropSuperseded"
  <2>1. pc = "dropSuperseded" /\ body.status.login \in Login \ {result.login}
    BY <1>a, <1>d, TakenAt, LedgerGuard DEF ClaimsFollow, Superseded, Body, Status
  <2>2. RemoveLogin(body.status.login, body.status.created["login"] = "yes",
                    body.status.granted)
    BY <1>d DEF DropSupersededLogin
  <2>3. PICK m, g : RemoveLogin(body.status.login, m, g)
    BY <2>2
  <2> QED
    BY <1>a, <2>1, <2>3, OtherLoginDropped
<1>e. ASSUME EnsureLoginRole
      PROVE  /\ pc = "createRole" /\ pc' \in {"commentRole", "applySecret"}
             /\ OwnRole' /\ source'.password = result.password /\ secrets' = secrets
             /\ result'.password = result.password /\ result'.stored = result.stored
  <2>1. /\ pc = "createRole" /\ pc' \in {"commentRole", "applySecret"} /\ secrets' = secrets
        /\ Pass /\ ~ReadSecret /\ ~AdoptProvidedLogin
    BY <1>e, TakenAt DEF Pass, EnsureLoginRole
  <2>2. result'.password = result.password /\ result'.stored = result.stored
    BY <1>a, <2>1, PasswordStays DEF PassStep
  <2>3. CASE source.role["generated"] = "absent"
    <3>1. source' = [source EXCEPT !.role["generated"] = "bare", !.password = result.password]
      BY <1>e, <2>3 DEF EnsureLoginRole
    <3>2. /\ source'.role = [source.role EXCEPT !["generated"] = "bare"]
          /\ source'.password = result.password
          /\ source.role \in [Login -> Holder]
      BY <1>a, <3>1 DEF SourceType
    <3> QED
      BY <2>1, <2>2, <3>2 DEF OwnRole, Operators, Login
  <2>4. CASE source.role["generated"] # "absent"
    <3>1. source' = [source EXCEPT !.password =
                       IF result.stored = NoPassword THEN result.password ELSE @]
      BY <1>e, <2>4 DEF EnsureLoginRole
    <3>2. /\ source'.role = source.role
          /\ source'.password = IF result.stored = NoPassword THEN result.password
                                ELSE source.password
      BY <1>a, <3>1 DEF SourceType
    <3>3. OwnRole
      <4>1. source.role["generated"] \in Holder \ {"absent", "foreign"}
        BY <1>a, <2>1, <2>4 DEF PassOwns, PassStep, SourceType, Login
      <4> QED
        BY <4>1 DEF OwnRole, Operators, Holder
    <3>4. source'.password = result.password
      BY <1>a, <2>1, <3>2, <3>3 DEF PasswordsAgree, MakingLogin
    <3> QED
      BY <2>1, <2>2, <3>2, <3>3, <3>4 DEF OwnRole, Operators
  <2> QED
    BY <2>3, <2>4
<1>f. ASSUME CommentRole
      PROVE  /\ pc = "commentRole" /\ pc' = "applySecret"
             /\ OwnRole' /\ source'.password = source.password /\ secrets' = secrets
             /\ result'.password = result.password /\ result'.stored = result.stored
  <2>1. /\ pc = "commentRole" /\ pc' = "applySecret" /\ secrets' = secrets
        /\ Pass /\ ~ReadSecret /\ ~AdoptProvidedLogin
        /\ source' = [source EXCEPT !.role["generated"] = "ours"]
    BY <1>f, TakenAt DEF Pass, CommentRole
  <2>2. result'.password = result.password /\ result'.stored = result.stored
    BY <1>a, <2>1, PasswordStays DEF PassStep
  <2>3. /\ source'.role = [source.role EXCEPT !["generated"] = "ours"]
        /\ source'.password = source.password
        /\ source.role \in [Login -> Holder]
    BY <1>a, <2>1 DEF SourceType
  <2> QED
    BY <2>1, <2>2, <2>3 DEF OwnRole, Operators, Login
<1>1. MayPass' /\ OwnRole' /\ OwnSecret' => secrets'.generated = source'.password
  <2> SUFFICES ASSUME MayPass', OwnRole', OwnSecret'
               PROVE  secrets'.generated = source'.password
    OBVIOUS
  <2>1. MayPass /\ ~DropLogin /\ ~ResetLoginPassword
    BY <1>a, MayPassBefore DEF DropLogin, ResetLoginPassword, Step, TeardownStep
  <2>2. CASE EnsureLoginRole
    BY <1>a, <1>e, <2>2 DEF PasswordsAgree, MakingLogin, OwnSecret
  <2>3. CASE CommentRole
    BY <1>a, <1>f, <2>3 DEF PasswordsAgree, MakingLogin, OwnSecret
  <2>4. CASE ApplySecret
    <3>1. pc = "applySecret" /\ source' = source /\ secrets'.generated = result.password
      BY <1>b, <2>4 DEF ApplySecret, Step
    <3> QED
      BY <1>a, <3>1 DEF PasswordsAgree
  <2>5. CASE ~EnsureLoginRole /\ ~CommentRole /\ ~ApplySecret
    <3>1. secrets'.generated = secrets.generated /\ OwnSecret
      BY <1>b, <2>5 DEF OwnSecret
    <3>2. OwnRole
      BY <1>a, <2>5, OwnedMade
    <3>3. source'.password = source.password
      BY <1>c, <1>d, <2>1, <2>5 DEF OwnRole, Operators
    <3> QED
      BY <1>a, <2>1, <3>1, <3>2, <3>3 DEF PasswordsAgree
  <2> QED
    BY <2>2, <2>3, <2>4, <2>5
<1>2. CASE Rest
  <2>1. pc' \in MakingLogin \cup LoginInHand => Around
    BY <1>a, <1>2, RestShapes DEF GoesOn, Begins, MakingLogin, LoginInHand, TeardownStep
  <2>2. ASSUME pc' \in MakingLogin \cup LoginInHand
        PROVE  /\ pc' = pc /\ result' = result
               /\ source'.role = source.role /\ source'.password = source.password
               /\ OwnRole' = OwnRole
               /\ secrets'.generated \in {secrets.generated, NoPassword}
    <3>1. pc' = pc /\ result' = result
      BY <2>1, <2>2 DEF Around
    <3>2. /\ ~EnsureLoginRole /\ ~CommentRole /\ ~DropSupersededLogin /\ ~DropLogin
          /\ ~ApplySecret
      BY <3>1, TakenAt DEF DropLogin, Step
    <3>3. ~ResetLoginPassword
      BY <2>2, <3>1 DEF ResetLoginPassword, MakingLogin, LoginInHand
    <3>4. source'.role = source.role /\ source'.password = source.password
      BY <1>c, <3>2, <3>3
    <3> QED
      BY <1>b, <3>1, <3>2, <3>4 DEF OwnRole, Operators
  <2> QED
    BY <1>a, <1>1, <2>2 DEF PasswordsAgree, MakingLogin
<1>3. CASE ReadSecret
  <2>1. pc = "login" /\ pc' = "createRole" /\ UNCHANGED <<source, secrets>>
    BY <1>3 DEF ReadSecret, Step
  <2>2. PICK p \in IF secrets.generated = NoPassword THEN FreshPasswords ELSE {secrets.generated} :
          result' = [result EXCEPT !.stored = secrets.generated, !.password = p]
    BY <1>3 DEF ReadSecret
  <2>3. result'.stored = secrets.generated /\ result'.password = p
    BY <1>a, <2>2 DEF Result
  <2>4. result'.stored \in {NoPassword, result'.password}
    BY <2>2, <2>3
  <2>5. result'.stored # NoPassword /\ OwnRole => source.password = result'.stored
    BY <1>a, <2>1, <2>3 DEF PasswordsAgree, OwnSecret, PassStep
  <2>6. OwnRole' = OwnRole
    BY <2>1 DEF OwnRole
  <2> QED
    BY <1>1, <2>1, <2>3, <2>4, <2>5, <2>6 DEF PasswordsAgree, MakingLogin, LoginInHand
<1>4. CASE EnsureLoginRole
  BY <1>a, <1>1, <1>e, <1>4 DEF PasswordsAgree, MakingLogin, LoginInHand
<1>5. CASE CommentRole
  BY <1>a, <1>1, <1>f, <1>5 DEF PasswordsAgree, MakingLogin, LoginInHand
<1>6. CASE AdoptProvidedLogin
  <2>1. pc' = "grant" /\ result'.login = "provided" /\ result'.password = ProvidedPassword
    <3>1. PICK b : result' = [result EXCEPT !.login = "provided", !.credentials = "provided",
                               !.password = ProvidedPassword, !.granted = b,
                               !.created["login"] = "no", !.created["secret"] = "no"]
      BY <1>6 DEF AdoptProvidedLogin
    <3>2. result'.password = ProvidedPassword
      BY <1>a, <3>1 DEF Result
    <3> QED
      BY <1>a, <1>6, <3>2, AdoptedFields, TakenAt
  <2> QED
    BY <1>1, <2>1 DEF PasswordsAgree, MakingLogin
<1>7. CASE ApplySecret
  <2>1. /\ pc = "applySecret" /\ pc' = "grant" /\ source' = source
        /\ secrets'.generated = result.password /\ Pass /\ ~ReadSecret /\ ~AdoptProvidedLogin
    BY <1>b, <1>7, TakenAt DEF ApplySecret, Pass
  <2>2. result'.password = result.password
    BY <1>a, <2>1, PasswordStays DEF PassStep
  <2>3. OwnRole' /\ source.password = result.password /\ result.password \in Password
    BY <1>a, <2>1 DEF PasswordsAgree, OwnRole, Typed, ResultFits
  <2>4. result'.login # "provided"
    <3>1. result.login = "generated"
      BY <1>a, <2>1 DEF Typed, ResultFits
    <3>2. PICK b : result' = [Marked("secret") EXCEPT !.credentials = "generated", !.granted = b]
      BY <1>7 DEF ApplySecret
    <3>3. Marked("secret") \in Result
      BY <1>a, SetCreated DEF Marked, Object, Mark
    <3> QED
      BY <1>a, <3>1, <3>2, <3>3, MarkedFields DEF Object, Result
  <2> QED
    BY <1>1, <2>1, <2>2, <2>3, <2>4 DEF PasswordsAgree, MakingLogin
<1>8. CASE Pass /\ pc \in LoginInHand /\ pc' \in LoginInHand
  <2>1. result'.login = result.login /\ result'.password = result.password
    BY <1>a, <1>8, LoginStays
  <2>2. ~EnsureLoginRole /\ ~CommentRole /\ ~ApplySecret /\ ~DropLogin /\ ~ResetLoginPassword
    BY <1>8, TakenAt DEF LoginInHand, DropLogin, ResetLoginPassword, Step
  <2>3. secrets'.generated \in {secrets.generated, NoPassword}
    BY <1>b, <2>2
  <2>4. result.login = "generated" => /\ source'.password = source.password
                                      /\ OwnRole' = OwnRole
    <3>1. CASE DropSupersededLogin
      BY <1>d, <3>1 DEF Login, OwnRole
    <3>2. CASE ~DropSupersededLogin
      BY <1>c, <2>2, <3>2 DEF OwnRole
    <3> QED
      BY <3>1, <3>2
  <2>5. pc' \notin MakingLogin
    BY <1>8 DEF LoginInHand, MakingLogin
  <2> QED
    BY <1>a, <1>1, <1>8, <2>1, <2>3, <2>4, <2>5 DEF PasswordsAgree, MakingLogin
<1>9. CASE Pass
  <2>1. CASE pc' \notin MakingLogin \cup LoginInHand
    BY <1>1, <2>1 DEF PasswordsAgree, MakingLogin
  <2>2. CASE pc' \in MakingLogin \cup LoginInHand
    <3>1. \/ ReadSecret \/ EnsureLoginRole \/ CommentRole \/ AdoptProvidedLogin \/ ApplySecret
          \/ pc \in LoginInHand /\ pc' \in LoginInHand
      BY <1>9, <2>2, TakenAt DEF Pass, MakingLogin, LoginInHand
    <3> QED
      BY <1>3, <1>4, <1>5, <1>6, <1>7, <1>8, <1>9, <3>1
  <2> QED
    BY <2>1, <2>2
<1> QED
  BY <1>2, <1>9, PassOrRest

\* The subscription's connection is the pass's from the step that sets it, and
\* no other step of a pass changes it.
LEMMA ConnectionMoves ==
  ASSUME Links, [Next]_vars
  PROVE  /\ CreateSubscription \/ SetConnection => target'.connection = ConnectionOf(result)
         /\ CreateSubscription => target'.enabled = body.enabled
         /\ SetEnabled => target'.enabled = body.enabled
         /\ ~SetEnabled /\ ~CreateSubscription /\ pc \in PassStep => target'.enabled = target.enabled
         /\ ~CreateSubscription /\ ~SetConnection /\ ~DropSubscription =>
              target'.connection = target.connection
         /\ DropSubscription => target'.connection \in {NoConnection, target.connection}
         /\ DropSubscription => pc \in TeardownStep /\ pc \notin PassStep
<1>a. /\ Typed /\ target \in TargetType /\ result \in Result /\ Fingerprint
  BY LinksGuard DEF Links
<1>1. /\ CreateSubscription => /\ target'.connection = ConnectionOf(result)
                               /\ target'.enabled = body.enabled
      /\ CommentSubscription => /\ target'.connection = target.connection
                                /\ target'.enabled = target.enabled
      /\ SetEnabled => /\ target'.connection = target.connection
                       /\ target'.enabled = body.enabled
      /\ DropSubscription => /\ target'.connection \in {NoConnection, target.connection}
                             /\ pc \in TeardownStep /\ pc \notin PassStep
  BY <1>a DEF CreateSubscription, CommentSubscription, SetEnabled, DropSubscription, TargetType,
     Step, TeardownStep, PassStep
<1>2. ASSUME SetConnection
      PROVE  target'.connection = ConnectionOf(result) /\ target'.enabled = target.enabled
  <2>1. pc = "setConnection" /\ result.login \in Login
    BY <1>a, <1>2, TakenAt DEF Typed, ResultFits, LoginInHand
  <2>2. CASE body.status.connection # ConnectionOf(result)
    <3>1. target' = [target EXCEPT !.connection = ConnectionOf(result)]
      BY <1>2, <2>2 DEF SetConnection
    <3> QED
      BY <1>a, <3>1 DEF TargetType
  <2>3. CASE body.status.connection = ConnectionOf(result)
    <3>1. status.connection = ConnectionOf(result)
      BY <1>a, <2>1, <2>3 DEF Fingerprint, PassStep
    <3>2. status.connection # NoConnection /\ status.connection.password = result.password
      BY <2>1, <3>1 DEF ConnectionOf, NoConnection, Login
    <3>3. status.connection = target.connection
      BY <1>a, <2>1, <3>2 DEF Fingerprint, LoginInHand, Connected
    <3>4. target' = target
      BY <1>2, <2>3 DEF SetConnection
    <3> QED
      BY <3>1, <3>3, <3>4
  <2> QED
    BY <2>2, <2>3
<1>3. CASE CreateSubscription \/ CommentSubscription \/ SetConnection \/ SetEnabled
           \/ DropSubscription
  <2>1. /\ CreateSubscription => pc = "createSubscription"
        /\ CommentSubscription => pc = "commentSubscription"
        /\ SetConnection => pc = "setConnection"
        /\ SetEnabled => pc = "setEnabled"
    BY TakenAt
  <2> QED
    BY <1>1, <1>2, <1>3, <2>1
<1>4. CASE target' = target
  BY <1>1, <1>2, <1>4
<1> QED
  BY <1>a, <1>3, <1>4, OthersMove

\* A pass that breaks after it has set the connection leaves the fingerprint of
\* the same login: none, the one that is set, or one with a password of old.
LEMMA BrokenSwap ==
  ASSUME Links, [Next]_vars, Break, pc \in Connected
  PROVE  status.connection \in {NoConnection, target.connection} \/ Stale(status.connection)
<1>a. /\ Ledger /\ Typed /\ Objects /\ LoginCarried /\ Unswapped /\ status \in Status
      /\ Honest(status.connection) /\ PasswordsAgree /\ ConnectionSet
  BY LinksGuard DEF Links, Ledger, Fingerprint
<1>b. NoPassword \notin Password
  BY PasswordsDistinct
<1>1. pc \in Swapping /\ budget.at \cap Swapping # {}
  <2>1. pc \in PassStep /\ pc' # pc /\ pc \in budget.at
    BY DEF Break, Idle, Connected, PassStep
  <2>2. pc \notin budget.at \cap Unrecorded
    BY <1>a DEF Objects
  <2> QED
    BY <2>1, <2>2 DEF Connected, Swapping, Unrecorded
<1>2. pc \in LoginInHand /\ result.login = spec.wanted
  <2>1. pc \in LoginInHand
    BY DEF LoginInHand, Connected
  <2> QED
    BY <1>a, <1>1, <2>1 DEF LoginCarried, Unswapped
<1>3. status.connection.login \in {"none", result.login}
  BY <1>a, <1>1, <1>2 DEF Unswapped
<1>4. target.connection = ConnectionOf(result)
  BY <1>a DEF ConnectionSet
<1>5. status.connection \in Connection \cup {NoConnection}
  BY <1>a DEF Status
<1>6. status.connection = NoConnection \/ status.connection.login = result.login
  BY <1>3, <1>5 DEF Connection, Login
<1>7. CASE status.connection.login = result.login /\ status.connection.password = result.password
  <2>1. status.connection \in Connection
    <3>1. result.login \in Login
      BY <1>a, <1>2 DEF Typed, ResultFits
    <3> QED
      BY <1>5, <1>7, <3>1 DEF NoConnection, Login
  <2> QED
    BY <1>4, <1>7, <2>1 DEF Connection, ConnectionOf
<1>8. CASE status.connection.login = result.login /\ status.connection.password # result.password
  <2>1. result.login = "generated" /\ status.connection.password \in Password
    <3>1. result.login \in Login
      BY <1>a, <1>2 DEF Typed, ResultFits
    <3> QED
      BY <1>a, <1>2, <1>8, <3>1 DEF Honest, PasswordsAgree, Login
  <2>2. source.password = result.password /\ secrets.generated \in {NoPassword, result.password}
    BY <1>a, <1>2, <2>1 DEF PasswordsAgree
  <2> QED
    BY <1>b, <1>8, <2>1, <2>2 DEF Stale
<1> QED
  BY <1>6, <1>7, <1>8

\* A password that is stale stays so: the only one that comes into use is the
\* pass's.
LEMMA StaysStale ==
  ASSUME Links, [Next]_vars, MayPass, pc \notin Connected,
         NEW c, Honest(c), Stale(c),
         pc \in MakingLogin => c.password # result.password
  PROVE  c.login = "generated" /\ c.password \notin {source'.password, secrets'.generated}
<1>a. Typed /\ source \in SourceType /\ (pc \in TeardownStep => ~MayPass)
  BY LinksGuard
<1>b. c.password \in Password /\ c.password # NoPassword
  BY PasswordsDistinct DEF Honest, Stale
<1>1. source'.password \in {source.password, result.password}
  <2>1. ~DropSupersededLogin /\ ~DropLogin /\ ~ResetLoginPassword
    BY <1>a, TakenAt DEF Connected, DropLogin, ResetLoginPassword, Step, TeardownStep
  <2>2. EnsureLoginRole => source'.password \in {source.password, result.password}
    BY <1>a DEF EnsureLoginRole, SourceType
  <2> QED
    BY <1>a, <2>1, <2>2, SourceMoves
<1>2. source'.password # source.password => pc \in MakingLogin
  BY <1>a, SourceMoves, TakenAt DEF MakingLogin, DropLogin, ResetLoginPassword, Step,
     TeardownStep, Connected
<1>3. \/ secrets'.generated \in {secrets.generated, NoPassword}
      \/ pc \in MakingLogin /\ secrets'.generated = result.password
  BY <1>a, SecretMoves, TakenAt DEF MakingLogin
<1> QED
  BY <1>b, <1>1, <1>2, <1>3 DEF Stale

LEMMA FingerprintNext ==
  ASSUME Links, [Next]_vars
  PROVE  Fingerprint'
<1>a. /\ Typed /\ queued = {} /\ Fingerprint /\ PasswordsAgree /\ ConnectionSet
      /\ status \in Status /\ result \in Result
      /\ (pc \in TeardownStep => ~MayPass) /\ (pc \in PassStep => MayPass)
  BY LinksGuard DEF Links
<1>b. /\ Publish => pc = "publish" /\ pc' = "idle" /\ target' = target
                    /\ status'.connection = ConnectionOf(result)
      /\ ~Publish => status'.connection = status.connection
  BY <1>a, ConnectionWritten DEF Publish, Idle
<1>c. pc \in LoginInHand => Honest(ConnectionOf(result))
  BY <1>a DEF PasswordsAgree, Honest, ConnectionOf
<1>d. pc' \in PassStep =>
        \/ Pass /\ body' = body /\ ~Publish
        \/ Around /\ Rest
        \/ Begins /\ body'.status = status
  BY <1>a, <1>b, PassFrame, RestShapes, PassOrRest, SnapshotFields DEF GoesOn, PassStep, TeardownStep, Begins
<1>1. Honest(status'.connection)
  <2>1. pc = "publish" => pc \in LoginInHand
    BY DEF LoginInHand
  <2> QED
    BY <1>a, <1>b, <1>c, <2>1 DEF Fingerprint
<1>2. Honest(target'.connection)
  <2>1. CASE CreateSubscription \/ SetConnection
    <3>1. pc \in LoginInHand
      BY <2>1, TakenAt DEF LoginInHand
    <3> QED
      BY <1>c, <2>1, <3>1, ConnectionMoves
  <2>2. Honest(NoConnection)
    BY DEF Honest, NoConnection
  <2> QED
    BY <1>a, <2>1, <2>2, ConnectionMoves DEF Fingerprint
<1>3. pc' \in PassStep => body'.status.connection = status'.connection
  <2>1. CASE Pass /\ body' = body /\ ~Publish /\ pc' \in PassStep
    BY <1>a, <1>b, <2>1, PassFrame DEF Fingerprint
  <2>2. CASE Around /\ Rest /\ pc' \in PassStep
    BY <1>a, <2>2 DEF Around, Fingerprint
  <2>3. CASE Begins /\ body'.status = status
    BY <2>3 DEF Begins
  <2> QED
    BY <1>d, <2>1, <2>2, <2>3
<1>4. ASSUME MayPass', pc' \notin Connected
      PROVE  \/ status'.connection \in {NoConnection, target'.connection}
             \/ Stale(status.connection)'
  <2>1. MayPass
    BY <1>a, <1>4, MayPassBefore
  <2>2. CASE Publish
    <3>1. target.connection = ConnectionOf(result)
      BY <1>a, <1>b, <2>2 DEF ConnectionSet, Connected
    <3> QED
      BY <1>b, <2>2, <3>1
  <2>3. CASE ~Publish /\ pc \notin Connected
    <3>1. target'.connection = target.connection
      <4>1. ~CreateSubscription /\ ~SetConnection /\ ~DropSubscription
        BY <1>a, <1>4, <2>1, TakenAt, ConnectionMoves DEF Connected
      <4> QED
        BY <4>1, ConnectionMoves
    <3>2. CASE status.connection \in {NoConnection, target.connection}
      BY <1>b, <2>3, <3>1, <3>2
    <3>3. CASE status.connection \notin {NoConnection, target.connection}
      <4>1. Stale(status.connection) /\ Honest(status.connection)
        BY <1>a, <2>1, <2>3, <3>3 DEF Fingerprint
      <4>2. pc \in MakingLogin => status.connection.password # result.password
        BY <1>a, <3>3 DEF Fingerprint
      <4>3. \A c : /\ Honest(c) /\ Stale(c)
                   /\ (pc \in MakingLogin => c.password # result.password)
                   => /\ c.login = "generated"
                      /\ c.password \notin {source'.password, secrets'.generated}
        BY <2>1, <2>3, StaysStale
      <4> QED
        BY <1>b, <2>3, <4>1, <4>2, <4>3 DEF Stale
    <3> QED
      BY <3>2, <3>3
  <2>4. CASE ~Publish /\ pc \in Connected
    <3>1. Rest
      <4>1. Pass => pc' \in Connected \/ Publish
        BY <2>4, TakenAt DEF Pass, Connected
      <4> QED
        BY <1>4, <2>4, <4>1, PassOrRest
    <3>2. Break
      BY <1>a, <1>4, <2>4, <3>1, PassBroken DEF Connected, PassStep
    <3>3. UNCHANGED <<source, secrets, target>>
      BY <3>2 DEF Break
    <3> QED
      BY <1>b, <2>4, <3>2, <3>3, BrokenSwap DEF Stale
  <2> QED
    BY <2>2, <2>3, <2>4
<1>5. ASSUME pc' \in MakingLogin \cup (LoginInHand \ Connected)
      PROVE  \/ status'.connection \in {NoConnection, target'.connection}
             \/ status'.connection.password # result'.password
  <2>1. pc' \in PassStep /\ pc' # "inspect"
    BY <1>5 DEF MakingLogin, LoginInHand, PassStep
  <2>2. ~CreateSubscription /\ ~SetConnection /\ ~Publish
    BY <1>5, <1>b, <2>1, TakenAt DEF MakingLogin, LoginInHand, Connected, PassStep
  <2>3. status'.connection = status.connection
    BY <1>b, <2>2
  <2>4. CASE Around /\ Rest
    <3>1. target'.connection = target.connection
      <4>1. pc \notin TeardownStep
        BY <2>1, <2>4 DEF Around, PassStep, TeardownStep
      <4> QED
        BY <2>2, <4>1, ConnectionMoves
    <3> QED
      BY <1>a, <1>5, <2>3, <2>4, <3>1 DEF Around, Fingerprint
  <2>5. CASE Pass
    <3>1. target'.connection = target.connection
      BY <2>2, <2>5, PassFrame, ConnectionMoves
    <3>2. CASE ReadSecret \/ AdoptProvidedLogin
      <4>1. \/ status.connection \in {NoConnection, target.connection}
            \/ Stale(status.connection) /\ status.connection.password \in Password
        BY <1>a, <3>2, TakenAt DEF Fingerprint, Connected, PassStep, Honest, Stale
      <4>2. ReadSecret => \/ result'.password = secrets.generated
                          \/ result'.password # status.connection.password
        <5>1. ASSUME ReadSecret
              PROVE  \/ result'.password = secrets.generated
                     \/ result'.password # status.connection.password
          <6>1. PICK p \in IF secrets.generated = NoPassword THEN FreshPasswords
                           ELSE {secrets.generated} :
                  result' = [result EXCEPT !.stored = secrets.generated, !.password = p]
            BY <5>1 DEF ReadSecret
          <6>2. result'.password = p
            BY <1>a, <6>1 DEF Result
          <6>3. p = secrets.generated \/ p \in FreshPasswords
            BY <6>1
          <6> QED
            BY <6>2, <6>3 DEF FreshPasswords
        <5> QED
          BY <5>1
      <4>3. AdoptProvidedLogin => result'.password = ProvidedPassword
        <5>1. ASSUME AdoptProvidedLogin PROVE result'.password = ProvidedPassword
          <6>1. PICK b : result' = [result EXCEPT !.login = "provided", !.credentials = "provided",
                               !.password = ProvidedPassword, !.granted = b,
                               !.created["login"] = "no", !.created["secret"] = "no"]
            BY <5>1 DEF AdoptProvidedLogin
          <6> QED
            BY <1>a, <6>1 DEF Result
        <5> QED
          BY <5>1
      <4> QED
        BY <2>3, <3>1, <3>2, <4>1, <4>2, <4>3, PasswordsDistinct DEF Stale
    <3>3. CASE ~ReadSecret /\ ~AdoptProvidedLogin
      <4>1. pc \in MakingLogin \cup (LoginInHand \ Connected)
        BY <1>5, <2>5, <3>3, TakenAt DEF Pass, MakingLogin, LoginInHand, Connected
      <4>2. result'.password = result.password
        BY <1>a, <2>1, <2>5, <3>3, PasswordStays
      <4> QED
        BY <1>a, <2>3, <3>1, <4>1, <4>2 DEF Fingerprint
    <3> QED
      BY <3>2, <3>3
  <2>6. CASE Begins
    BY <1>5, <2>6 DEF Begins, MakingLogin, LoginInHand
  <2> QED
    BY <1>d, <2>1, <2>4, <2>5, <2>6
<1> QED
  BY <1>1, <1>2, <1>3, <1>4, <1>5 DEF Fingerprint, Honest, Stale

LEMMA ConnectionSetNext ==
  ASSUME Links, [Next]_vars
  PROVE  ConnectionSet'
<1>a. /\ Typed /\ queued = {} /\ ConnectionSet /\ result \in Result
  BY LinksGuard DEF Links
<1>1. CASE Rest
  <2>1. CASE Around
    <3>1. target' = target
      <4>1. pc' = pc
        BY <2>1 DEF Around
      <4>2. /\ ~CreateSubscription /\ ~CommentSubscription /\ ~SetConnection /\ ~SetEnabled
            /\ ~DropSubscription
        BY <4>1, TakenAt DEF DropSubscription, Step
      <4> QED
        BY <1>a, <4>2, OthersMove
    <3> QED
      BY <1>a, <2>1, <3>1 DEF Around, ConnectionSet
  <2>2. CASE GoesOn
    BY <1>a, <2>2 DEF GoesOn, ConnectionSet, Connected, TeardownStep
  <2>3. CASE Begins
    BY <2>3 DEF Begins, ConnectionSet, Connected, TeardownStep
  <2> QED
    BY <1>a, <1>1, <2>1, <2>2, <2>3, RestShapes
<1>2. CASE Pass
  <2>1. pc' \notin TeardownStep /\ body' = body /\ pc \in PassStep
    BY <1>2, PassFrame DEF PassStep, TeardownStep
  <2>2. ASSUME pc' \in Connected
        PROVE  /\ result'.login = result.login /\ result'.password = result.password
               /\ CreateSubscription \/ SetConnection \/ pc \in Connected
    <3>1. CreateSubscription \/ SetConnection \/ pc \in Connected
      BY <1>2, <2>2, TakenAt DEF Pass, Connected
    <3>2. pc \in LoginInHand /\ pc' \in LoginInHand
      BY <2>2, <3>1, TakenAt DEF Connected, LoginInHand
    <3> QED
      BY <1>a, <1>2, <3>1, <3>2, LoginStays
  <2>3. pc' \in Connected => target'.connection = ConnectionOf(result')
    <3>1. pc' \in Connected => target'.connection = ConnectionOf(result)
      BY <1>a, <2>1, <2>2, ConnectionMoves DEF ConnectionSet
    <3> QED
      BY <2>2, <3>1 DEF ConnectionOf
  <2>4. pc' \in Connected \ {"setEnabled"} => target'.enabled = body.enabled
    <3>1. pc = "setEnabled" /\ pc' \in Connected => SetEnabled
      BY <1>2, TakenAt DEF Pass, Connected
    <3>2. SetConnection => pc' = "setEnabled"
      BY TakenAt
    <3> QED
      BY <1>a, <2>1, <2>2, <3>1, <3>2, ConnectionMoves DEF ConnectionSet
  <2> QED
    BY <2>1, <2>3, <2>4 DEF ConnectionSet
<1> QED
  BY <1>1, <1>2, PassOrRest

\* A pass that publishes has what it was asked for.
LEMMA PublishedConverged ==
  ASSUME Links, Publish
  PROVE  /\ As(body.wanted, body.enabled)
         /\ result.login = "provided" => ~OwnRole
<1>a. /\ pc = "publish" /\ pc \in LoginInHand /\ pc \in Connected \ {"setEnabled"}
  BY DEF Publish, LoginInHand, Connected
<1>b. /\ Typed /\ Objects /\ LoginCarried /\ LoginAccounted /\ PasswordsAgree /\ ConnectionSet
      /\ ProvidedStand
  BY LinksGuard DEF Links, Ledger
<1>1. target.subscription = "ours"
  BY <1>a, <1>b DEF Objects, SubscriptionFits
<1>2. /\ target.connection.login = result.login /\ target.connection.password = result.password
      /\ target.enabled = body.enabled
  BY <1>a, <1>b DEF ConnectionSet, ConnectionOf
<1>3. result.login = body.wanted /\ result.login \in Login
  BY <1>a, <1>b DEF LoginCarried, Typed, ResultFits
<1>4. source.role[result.login] # "absent" /\ result.password = PasswordOf(result.login)
  BY <1>a, <1>b, <1>3 DEF PasswordsAgree, OwnRole, Operators, ProvidedStand, PasswordOf, Login
<1>5. OwnRole => result.login = "generated"
  BY <1>a, <1>b DEF LoginAccounted
<1> QED
  BY <1>1, <1>2, <1>3, <1>4, <1>5 DEF As, Authenticates

\* Between two handlers nothing ends, and nothing is undone.
LEMMA StillConverged ==
  ASSUME Links, [Next]_vars, Rest, pc = "idle"
  PROVE  Converged'
<1>a. Typed /\ Converged /\ source \in SourceType
  BY LinksGuard DEF Links
<1>1. CASE StartPass \/ StartTeardown \/ StartQueued
  <2>1. outcome' = "none"
    BY <1>1, Zenon DEF StartPass, StartTeardown, StartQueued, BeginPass, BeginTeardown
  <2> QED
    BY <2>1 DEF Converged
<1>2. CASE ~StartPass /\ ~StartTeardown /\ ~StartQueued
  <2>1. ~Teardown \/ EndWalsender
    BY DEF Teardown, DropSubscription, SourceGone, DropSlot, DropPublication, DropLogin,
       DeleteSecret, Finish, Step
  <2>2. /\ ~TargetUnreachable /\ ~SourceUnreachable /\ ~Abandon /\ ~ResetLoginPassword /\ ~Break
        /\ ~QueueHandler /\ ~EndWalsender
    <3>1. pc \notin PassStep \cup TeardownStep
      BY DEF PassStep, TeardownStep
    <3>2. pc \notin budget.at
      BY <1>a, <3>1 DEF Typed, TypeOK, Budget
    <3> QED
      BY <3>1, <3>2 DEF TargetUnreachable, SourceUnreachable, Unreachable, Abandon,
         ResetLoginPassword, Break, QueueHandler, EndWalsender
  <2>3. UNCHANGED <<status, target, body, outcome, pc>>
    BY <1>2, <2>1, <2>2 DEF Rest, Edit, Delete, WorkerConnects, WorkerStops, Meddle, vars
  <2>4. source'.role = source.role /\ source'.password = source.password
    <3>1. ~DropLogin
      BY DEF DropLogin, Step
    <3> QED
      BY <1>a, <2>2, <3>1, SourceMoves, TakenAt
  <2> QED
    BY <1>a, <2>3, <2>4 DEF Converged, As, Authenticates, PasswordOf, Operators
<1> QED
  BY <1>1, <1>2

LEMMA ConvergedNext ==
  ASSUME Links, [Next]_vars
  PROVE  Converged'
<1> SUFFICES ASSUME pc' = "idle", outcome' = "ok", ~body'.deleting
             PROVE  Converged'
  BY DEF Converged
<1>a. /\ Typed /\ ConnectionSet /\ status \in Status /\ result \in Result
  BY LinksGuard DEF Links
<1>1. CASE Pass
  <2>1. Publish
    BY <1>1, Reached DEF Refuse, Idle
  <2>2. /\ UNCHANGED <<source, target, body>>
        /\ status' = [Recorded(result) EXCEPT !.connection = ConnectionOf(result)]
    BY <2>1 DEF Publish
  <2>3. status'.login = result.login
    BY <1>a, <2>2, RecordedType, RecordedFields DEF Status
  <2>4. As(body.wanted, body.enabled) /\ (result.login = "provided" => ~OwnRole)
    BY <2>1, PublishedConverged
  <2> QED
    BY <2>2, <2>3, <2>4 DEF Converged, As, Authenticates, PasswordOf, OwnRole
<1>2. CASE Rest /\ pc = "idle"
  BY <1>2, StillConverged
<1>3. CASE Rest /\ pc \in PassStep
  <2>1. Break
    BY <1>a, <1>3, PassBroken DEF PassStep
  <2> QED
    BY <2>1 DEF Break, Idle
<1>4. CASE Rest /\ pc \in TeardownStep
  <2>1. body' = body
    <3>1. GoesOn \/ Around
      BY <1>a, <1>4, RestShapes DEF Begins, TeardownStep
    <3> QED
      BY <3>1 DEF GoesOn, Around
  <2> QED
    BY <1>a, <1>4, <2>1 DEF ConnectionSet
<1> QED
  BY <1>a, <1>1, <1>2, <1>3, <1>4, PassOrRest DEF Typed, TypeOK

LEMMA LinksKept ==
  ASSUME ~Overlap, Links, [Next]_vars
  PROVE  Links'
  BY LedgerKept, PasswordsAgreeNext, FingerprintNext, ConnectionSetNext, ConvergedNext DEF Links

LEMMA InitLinks ==
  ASSUME SwapsComplete, RecordsMade, Init
  PROVE  Links
<1>1. Ledger
  BY InitLedger
<1>2. /\ pc = "idle" /\ outcome = "none" /\ status = NoStatus
      /\ secrets = [generated |-> NoPassword, provided |-> TRUE]
  BY DEF Init
<1>3. status.connection = NoConnection /\ ~OwnSecret
  BY <1>2 DEF NoStatus, OwnSecret
<1>4. target.connection = NoConnection
  BY DEF Init
<1>5. Fingerprint
  BY <1>2, <1>3, <1>4
     DEF Fingerprint, Honest, NoConnection, PassStep, MakingLogin, LoginInHand
<1>6. PasswordsAgree
  BY <1>2, <1>3 DEF PasswordsAgree, MakingLogin, LoginInHand
<1>7. ConnectionSet /\ Converged
  BY <1>2 DEF ConnectionSet, Connected, TeardownStep, Converged
<1> QED
  BY <1>1, <1>5, <1>6, <1>7 DEF Links

LEMMA DropsUnused ==
  ASSUME Links, [Next]_vars, pc = "dropSuperseded",
         source'.role["generated"] # source.role["generated"]
  PROVE  target.connection.login # "generated"
<1>a. /\ Typed /\ ClaimsFollow /\ body \in Body /\ source \in SourceType /\ ConnectionSet
  BY LinksGuard, LedgerGuard DEF Links
<1>1. DropSupersededLogin
  BY <1>a, SourceMoves, TakenAt DEF DropLogin, Step
<1>2. body.status.login \in Login \ {result.login}
  BY <1>a DEF ClaimsFollow, Superseded, Body, Status
<1>3. PICK m, g : RemoveLogin(body.status.login, m, g)
  BY <1>1 DEF DropSupersededLogin
<1>4. body.status.login # "provided"
  BY <1>a, <1>2, <1>3, OtherLoginDropped
<1>5. target.connection.login = result.login
  BY <1>a DEF ConnectionSet, Connected, ConnectionOf
<1> QED
  BY <1>2, <1>4, <1>5 DEF Login

\* When a pass reports success the subscription logs in as the login it was asked
\* for, with the password that login has, and no login it replaced is left
\* (_converge_subscription, _remove_superseded_login): its connection may be
\* trusted unread, because the fingerprint in status is never out of date.  For
\* every set of passwords and names already held, if handlers do not queue,
\* records are made (RecordsMade) and swaps complete (SwapsComplete).
THEOREM ConvergedWhenOk ==
  ASSUME SwapsComplete, RecordsMade
  PROVE  Spec => []Converged
<1>1. Init => Links
  BY InitLinks
<1>2. ~Overlap
  BY DEF RecordsMade
<1>3. Links /\ [Next]_vars => Links'
  BY <1>2, LinksKept
<1>4. Links => Converged
  BY DEF Links
<1> QED
  BY <1>1, <1>3, <1>4, PTL DEF Spec

\* A pass drops the generated login only when the subscription logs in as the
\* other one (_remove_superseded_login runs after the connection was changed),
\* under the same premises.
THEOREM SupersededIsUnused ==
  ASSUME SwapsComplete, RecordsMade
  PROVE  Spec => SupersededUnused
<1>1. Init => Links
  BY InitLinks
<1>2. ~Overlap
  BY DEF RecordsMade
<1>3. Links /\ [Next]_vars => Links'
  BY <1>2, LinksKept
<1>4. ASSUME Links, [Next]_vars
      PROVE  [pc = "dropSuperseded" /\ source'.role["generated"] # source.role["generated"]
                => target.connection.login # "generated"]_vars
  BY <1>4, DropsUnused
<1> QED
  BY <1>1, <1>3, <1>4, PTL DEF Spec, SupersededUnused

-----------------------------------------------------------------------------
(***************************************************************************)
(* 9  Every step is a step of Custody, or changes nothing there.  Ledger   *)
(* gives what Custody's guards ask for; what is left to show is that a     *)
(* step of a pass makes one thing at most and takes away none or only what *)
(* it replaces, that a finalizer makes nothing, and that whoever else acts *)
(* pays for it.                                                            *)
(***************************************************************************)

\* Each thing is made, or given back, at steps of its own.
MakingSteps == [t \in Thing |->
  CASE t = "publication" -> {"publication", "commentPublication"}
    [] t = "login" -> {"createRole", "commentRole"}
    [] t = "secret" -> {"applySecret"}
    [] t = "slot" -> {"slot"}
    [] t = "subscription" -> {"createSubscription", "commentSubscription"}
    [] t = "membership" -> {"grant"}]

LEMMA MadeAt ==
  ASSUME Typed, [Next]_vars, NEW t \in Thing, t \in Held', t \notin Held
  PROVE  Pass /\ pc \in MakingSteps[t]
<1>a. source \in SourceType /\ target \in TargetType
  BY DEF Typed, TypeOK, SourceType, TargetType
<1>1. ASSUME EnsurePublication \/ CommentPublication \/ EnsureLoginRole \/ CommentRole
             \/ ApplySecret \/ EnsureSlot \/ CreateSubscription \/ CommentSubscription
             \/ GrantReadGroup
      PROVE  Pass
  BY <1>1 DEF Pass
<1>2. CASE t = "publication"
  <2>1. source'.publication # source.publication /\ Operators(source'.publication)
    BY <1>2 DEF Held, Operators
  <2>2. ~Operators("absent")
    BY DEF Operators
  <2>3. DropPublication => source'.publication \in {source.publication, "absent"}
    BY <1>a DEF DropPublication, SourceType
  <2>4. EnsurePublication \/ CommentPublication
    BY <2>1, <2>2, <2>3, SourceMoves
  <2> QED
    BY <1>1, <1>2, <2>4, TakenAt DEF MakingSteps, Thing, Object
<1>3. CASE t = "login"
  <2>1. OwnRole' /\ ~OwnRole
    BY <1>3 DEF Held, OwnRole
  <2> QED
    BY <1>1, <1>3, <2>1, OwnedMade, TakenAt DEF MakingSteps, Thing, Object
<1>4. CASE t = "secret"
  <2>1. OwnSecret' /\ ~OwnSecret
    BY <1>4 DEF Held, OwnSecret
  <2> QED
    BY <1>1, <1>4, <2>1, OwnedMade, TakenAt DEF MakingSteps, Thing, Object
<1>5. CASE t = "membership"
  <2>1. OwnMember' /\ ~OwnMember
    BY <1>5 DEF Held, OwnMember
  <2> QED
    BY <1>1, <1>5, <2>1, OwnedMade, TakenAt DEF MakingSteps, Thing, Object
<1>6. CASE t = "slot"
  <2>1. source.slot = "absent" /\ source'.slot # "absent"
    BY <1>6 DEF Held
  <2>2. DropSlot \/ DropSubscription \/ EndWalsender \/ WorkerConnects \/ WorkerStops =>
          source'.slot = "absent"
    BY <1>a, <2>1 DEF DropSlot, DropSubscription, EndWalsender, WorkerConnects, WorkerStops,
       SourceType
  <2>3. EnsureSlot
    BY <2>1, <2>2, SourceMoves
  <2> QED
    BY <1>1, <1>6, <2>3, TakenAt DEF MakingSteps, Thing, Object
<1>7. CASE t = "subscription"
  <2>1. Operators(target'.subscription) /\ ~Operators(target.subscription)
    BY <1>7 DEF Held
  <2>2. SetConnection \/ SetEnabled => target'.subscription = target.subscription
    BY <1>a DEF SetConnection, SetEnabled, TargetType
  <2>3. DropSubscription => target'.subscription \in {"absent", target.subscription}
    BY <1>a DEF DropSubscription, TargetType
  <2>4. CreateSubscription \/ CommentSubscription
    BY <2>1, <2>2, <2>3, OthersMove DEF Operators
  <2> QED
    BY <1>1, <1>7, <2>4, TakenAt DEF MakingSteps, Thing, Object
<1> QED
  BY <1>2, <1>3, <1>4, <1>5, <1>6, <1>7 DEF Thing, Object

\* So one step makes one thing.
LEMMA OneMade ==
  ASSUME Typed, [Next]_vars, Held \subseteq Held', Held' # Held
  PROVE  \E t \in Thing : t \notin Held /\ Held' = Held \cup {t}
<1>1. Held' \subseteq Thing
  BY DEF Held
<1>2. PICK t \in Held' : t \notin Held
  OBVIOUS
<1>3. ASSUME NEW u \in Held', u \notin Held
      PROVE  u = t
  <2>1. pc \in MakingSteps[t] /\ pc \in MakingSteps[u]
    BY <1>1, <1>2, <1>3, MadeAt
  <2> QED
    BY <1>1, <1>2, <2>1 DEF MakingSteps, Thing, Object
<1> QED
  BY <1>1, <1>2, <1>3

\* A step of a pass is none of a finalizer, and nobody else's.
LEMMA PassAlone ==
  ASSUME Pass
  PROVE  /\ pc \in PassStep /\ pc' # pc
         /\ ~DropSubscription /\ ~DropSlot /\ ~DropPublication /\ ~DropLogin /\ ~DeleteSecret
         /\ ~EndWalsender /\ ~WorkerConnects /\ ~WorkerStops /\ ~Meddle
<1>1. pc \in PassStep
  BY PassFrame
<1>2. pc' # pc
  BY TakenAt DEF Pass
<1> QED
  BY <1>1, <1>2 DEF PassStep, DropSubscription, DropSlot, DropPublication, DropLogin,
     DeleteSecret, EndWalsender, WorkerConnects, WorkerStops, Meddle, Step

\* Only what a swap replaces is given back while a pass runs.
LEMMA PassHolds ==
  ASSUME Ledger, Pass, ~DropSupersededLogin, ~DeleteSupersededSecret
  PROVE  Held \subseteq Held'
<1>a. /\ source \in SourceType /\ target \in TargetType /\ secrets \in SecretsType /\ Typed
      /\ body \in Body /\ result \in Result /\ Objects /\ Granting
  BY LedgerGuard, ObjectsGuard DEF Ledger, Objects
<1>b. [Next]_vars
  BY PassOrRest
<1>c. /\ ~DropSubscription /\ ~DropSlot /\ ~DropPublication /\ ~DropLogin /\ ~DeleteSecret
      /\ ~EndWalsender /\ ~WorkerConnects /\ ~WorkerStops /\ ~Meddle
  BY PassAlone
<1>1. Operators(source.publication) => Operators(source'.publication)
  <2>1. EnsurePublication => source'.publication = source.publication \/ source'.publication = "bare"
    BY <1>a DEF EnsurePublication, SourceType
  <2>2. CommentPublication => source'.publication = "ours"
    BY <1>a DEF CommentPublication, SourceType
  <2> QED
    BY <1>a, <1>b, <1>c, <2>1, <2>2, SourceMoves DEF Operators
<1>2. OwnRole => OwnRole'
  <2>1. EnsureLoginRole => source'.role = source.role \/ source'.role["generated"] = "bare"
    <3>1. EnsureLoginRole =>
            \/ source' = [source EXCEPT !.role["generated"] = "bare", !.password = result.password]
            \/ \E p : source' = [source EXCEPT !.password = p]
      BY Zenon DEF EnsureLoginRole
    <3> QED
      BY <1>a, <3>1 DEF SourceType, Login
  <2>2. CommentRole => source'.role["generated"] = "ours"
    BY <1>a DEF CommentRole, SourceType, Login
  <2> QED
    BY <1>a, <1>b, <1>c, <2>1, <2>2, SourceMoves DEF Operators, OwnRole
<1>3. OwnMember => OwnMember'
  BY <1>a, <1>b, <1>c, MembersChange DEF OwnMember
<1>4. OwnSecret => OwnSecret'
  <2>1. ApplySecret => secrets'.generated = result.password
    BY <1>a DEF ApplySecret, SecretsType
  <2>2. ApplySecret => result.password # NoPassword
    BY <1>a, TakenAt, PasswordsDistinct DEF Typed, ResultFits
  <2> QED
    BY <1>a, <1>b, <1>c, <2>1, <2>2, OthersMove DEF OwnSecret
<1>5. source.slot # "absent" => source'.slot # "absent"
  <2>1. EnsureSlot => source'.slot = "idle"
    BY <1>a DEF EnsureSlot, SourceType
  <2> QED
    BY <1>a, <1>b, <1>c, <2>1, SourceMoves
<1>6. Operators(target.subscription) => Operators(target'.subscription)
  <2>1. CreateSubscription => target'.subscription = "bare"
    BY DEF CreateSubscription
  <2>2. CommentSubscription => target'.subscription = "ours"
    BY <1>a DEF CommentSubscription, TargetType
  <2>3. SetConnection \/ SetEnabled => target'.subscription = target.subscription
    BY <1>a DEF SetConnection, SetEnabled, TargetType
  <2> QED
    BY <1>a, <1>b, <1>c, <2>1, <2>2, <2>3, OthersMove DEF Operators
<1> QED
  BY <1>1, <1>2, <1>3, <1>4, <1>5, <1>6 DEF Held, OwnRole, OwnMember, OwnSecret

\* What Custody's guards ask of a state, and what of the next.
InOrder ==
  /\ OnRecord \subseteq Thing \ Foreign
  /\ Held \subseteq Thing /\ Held \cap Foreign = {}
  /\ pc = "idle" => Held \subseteq OnRecord
  /\ spec.released => Held \cap Reachable = {}

LEMMA LedgerInOrder ==
  ASSUME Ledger
  PROVE  InOrder
<1>a. /\ Owns(status.created) /\ ClaimsHold /\ ObjectsMarked /\ LoginAccounted
      /\ NamesFollow(status) /\ ObjectsCleared /\ LoginCleared
  BY LedgerGuard DEF Ledger, Objects, Granting, Ownership
<1>1. OnRecord \subseteq Thing \ Foreign
  BY <1>a DEF OnRecord, Foreign, Owns, ClaimsHold, Claims
<1>2. Held \subseteq Thing /\ Held \cap Foreign = {}
  BY DEF Held, Foreign, Operators
<1>3. pc = "idle" => Held \subseteq OnRecord
  <2> SUFFICES ASSUME pc = "idle" PROVE Held \subseteq OnRecord
    OBVIOUS
  <2>1. /\ OwnRole \/ OwnSecret => LoginIn(status)
        /\ OwnMember => Claims(status)
    BY <1>a DEF LoginAccounted
  <2> QED
    BY <1>a, <2>1 DEF ObjectsMarked, NamesFollow, LoginMarked, LoginIn, Claims, OwnRole,
       OwnSecret, OwnMember, Held, OnRecord
<1>4. spec.released => Held \cap Reachable = {}
  BY <1>a DEF ObjectsCleared, LoginCleared, OwnRole, OwnSecret, OwnMember, Held, Reachable
<1> QED
  BY <1>1, <1>2, <1>3, <1>4 DEF InOrder

LEMMA InOrderNext == Ledger' => InOrder'
<1>1. Ledger => InOrder
  BY LedgerInOrder
<1> QED
  BY <1>1, PTL

\* What others have stays theirs, and only they add to it.
LEMMA ForeignMoves ==
  ASSUME Ledger, [Next]_vars
  PROVE  \/ Foreign' = Foreign
         \/ /\ Meddle /\ "membership" \notin Held \cup OnRecord
            /\ Foreign' = Foreign \cup {"membership"}
<1>1. Respects /\ Typed /\ Granting
  BY NamesRespect, LedgerGuard DEF Ledger, Objects
<1>2. /\ source'.publication = "foreign" <=> source.publication = "foreign"
      /\ source'.role["generated"] = "foreign" <=> source.role["generated"] = "foreign"
      /\ target'.subscription = "foreign" <=> target.subscription = "foreign"
  BY <1>1 DEF Respects, LeavesOthersAlone, NoNewForeign, Login
<1>3. \/ source'.member["provided"] = "admin" <=> source.member["provided"] = "admin"
      \/ /\ Meddle /\ ~status.granted /\ source.member["provided"] # "operator"
         /\ source'.member["provided"] = "admin" /\ source.member["provided"] # "admin"
  <2>1. /\ source.member["provided"] = "admin" => source'.member["provided"] = "admin"
        /\ source'.member["provided"] = "admin" =>
             source.member["provided"] = "admin" \/ (Meddle /\ ~status.granted)
        /\ source.member["provided"] = "operator" =>
             \/ source'.member["provided"] = "operator"
             \/ DropLogin \/ DropSupersededLogin
    BY <1>1, MembersChange
  <2>2. ~(Meddle /\ (DropLogin \/ DropSupersededLogin))
    BY DEF Meddle, DropLogin, DropSupersededLogin, Step
  <2> QED
    BY <2>1, <2>2
<1>4. CASE source'.member["provided"] = "admin" <=> source.member["provided"] = "admin"
  BY <1>2, <1>4 DEF Foreign
<1>5. CASE /\ Meddle /\ ~status.granted /\ source.member["provided"] # "operator"
           /\ source'.member["provided"] = "admin" /\ source.member["provided"] # "admin"
  <2>1. Foreign' = Foreign \cup {"membership"}
    BY <1>2, <1>5 DEF Foreign, Thing
  <2> QED
    BY <1>5, <2>1 DEF Held, OnRecord
<1> QED
  BY <1>3, <1>4, <1>5

\* Only others pay with acts of theirs, and only the finalizer releases.
LEMMA QuietMoves ==
  ASSUME Typed, [Next]_vars, ~Meddle
  PROVE  budget'.meddling = budget.meddling /\ instances' = instances
<1>1. CASE Pass
  BY <1>1, PassFrame
<1>2. CASE Rest
  <2>1. /\ \/ UNCHANGED budget
           \/ budget' = [budget EXCEPT !.breaks = @ - 1]
           \/ budget' = [budget EXCEPT !.edits = @ - 1]
        /\ instances' = instances
    BY <1>2, Zenon DEF Rest, Teardown, TargetUnreachable, SourceUnreachable, Unreachable, Abandon,
       ResetLoginPassword, StartPass, StartTeardown, StartQueued, QueueHandler, Break, Edit,
       Delete, WorkerConnects, WorkerStops, vars, BeginPass, BeginTeardown,
       DropSubscription, SourceGone, EndWalsender, DropSlot, DropPublication, DropLogin,
       DeleteSecret, Finish, Step
  <2> QED
    BY <2>1 DEF Typed, TypeOK, Budget
<1> QED
  BY <1>1, <1>2, PassOrRest

LEMMA ReleasedStays ==
  ASSUME Ledger, [Next]_vars, spec.released
  PROVE  spec'.released
<1>a. /\ Typed /\ spec \in SpecType /\ pc = "idle" /\ ~Abandon /\ spec.deleting
  BY ObjectsGuard DEF Ledger, Objects, ObjectsCleared
<1>1. CASE Pass
  BY <1>1, <1>a, PassFrame DEF PassStep
<1>2. CASE Rest
  <2>1. spec' = spec \/ spec' = [spec EXCEPT !.released = TRUE] \/ Finish \/ Edit \/ Delete
    BY <1>2, Zenon DEF Rest, Teardown, TargetUnreachable, SourceUnreachable, Unreachable, Abandon,
       ResetLoginPassword, StartPass, StartTeardown, StartQueued, QueueHandler, Break,
       WorkerConnects, WorkerStops, Meddle, vars, BeginPass, BeginTeardown, DropSubscription,
       SourceGone, EndWalsender, DropSlot, DropPublication, DropLogin, DeleteSecret, Step
  <2> QED
    BY <1>a, <2>1 DEF SpecType, Finish, Edit, Delete
<1> QED
  BY <1>1, <1>2, PassOrRest

\* A pass makes one thing, gives back what was replaced, records, or ends.
LEMMA PassInCustody ==
  ASSUME Ledger, Ledger', Pass
  PROVE  Keeping!Next \/ UNCHANGED Keeping!vars
<1>a. /\ Typed /\ Names /\ [Next]_vars /\ pc # "idle" /\ ~Meddle
      /\ instances' = instances /\ budget'.meddling = budget.meddling /\ spec' = spec
  BY LedgerGuard, PassOrRest, PassAlone, PassFrame DEF Ledger, PassStep
<1>b. /\ Foreign' = Foreign /\ Reachable' = Reachable
      /\ OnRecord' \subseteq Thing \ Foreign /\ Held \subseteq Thing /\ Held' \subseteq Thing
      /\ pc' = "idle" => Held' \subseteq OnRecord'
  BY <1>a, ForeignMoves, LedgerInOrder, InOrderNext DEF Reachable, InOrder
<1>c. Held' \cap Foreign = {}
  BY <1>b, InOrderNext DEF InOrder
<1>1. CASE status' # status
  <2>1. UNCHANGED <<source, target, secrets>>
    BY <1>1, <1>a, StatusWritten
  <2>2. Held' = Held
    BY <2>1 DEF Held
  <2>3. CASE pc' = "idle"
    <3>1. Keeping!Pause
      BY <1>a, <1>b, <2>2, <2>3 DEF Keeping!Pause
    <3> QED
      BY <3>1 DEF Keeping!Next
  <2>4. CASE pc' # "idle"
    <3>1. Keeping!Record
      BY <1>a, <1>b, <2>2, <2>4 DEF Keeping!Record
    <3> QED
      BY <3>1 DEF Keeping!Next
  <2> QED
    BY <2>3, <2>4
<1>2. CASE status' = status /\ pc' = "idle"
  <2>1. UNCHANGED <<source, target, secrets>>
    BY <1>2, TakenAt, Reached DEF Publish, Refuse
  <2>2. Held' = Held
    BY <2>1 DEF Held
  <2>3. Keeping!Pause
    BY <1>a, <1>b, <1>2, <2>2 DEF Keeping!Pause
  <2> QED
    BY <2>3 DEF Keeping!Next
<1>3. CASE status' = status /\ pc' # "idle" /\ ~DropSupersededLogin /\ ~DeleteSupersededSecret
  <2>a. OnRecord' = OnRecord
    BY <1>3 DEF OnRecord
  <2>1. CASE Held' = Held
    BY <1>a, <1>b, <1>3, <2>a, <2>1 DEF Keeping!vars
  <2>2. CASE Held' # Held
    <3>1. PICK t \in Thing : t \notin Held /\ Held' = Held \cup {t}
      BY <1>a, <1>3, <2>2, PassHolds, OneMade
    <3>2. Keeping!Make(t)
      BY <1>a, <1>b, <1>c, <1>3, <2>a, <3>1 DEF Keeping!Make
    <3> QED
      BY <3>2 DEF Keeping!Next
  <2> QED
    BY <2>1, <2>2
<1>4. CASE status' = status /\ pc' # "idle" /\ (DropSupersededLogin \/ DeleteSupersededSecret)
  <2>a. OnRecord' = OnRecord
    BY <1>4 DEF OnRecord
  <2>1. pc \in {"dropSuperseded", "deleteSuperseded"}
    BY <1>4, TakenAt
  <2>2. Held' \subseteq Held
    <3>1. ASSUME NEW t \in Held', t \notin Held
          PROVE  FALSE
      BY <1>a, <1>b, <2>1, <3>1, MadeAt DEF MakingSteps, Thing, Object
    <3> QED
      BY <3>1
  <2>3. "secret" \in Held \ Held' => {"login"} \cap Held \cap Reachable = {}
    <3>1. SUFFICES ASSUME "secret" \in Held, "secret" \notin Held'
                   PROVE  {"login"} \cap Held \cap Reachable = {}
      OBVIOUS
    <3>2. secrets.generated # NoPassword /\ secrets'.generated = NoPassword
      BY <3>1 DEF Held, Thing, Object
    <3>3. pc = "deleteSuperseded" /\ pc' # pc
      BY <1>4, <3>2, TakenAt DEF DropSupersededLogin
    <3>4. "source" \in instances => ~Operators(source.role["generated"])
      BY <1>a, <3>2, <3>3, SecretLast
    <3> QED
      BY <3>4 DEF Held, Reachable
  <2>4. Keeping!Remove(Held \ Held')
    BY <1>a, <1>b, <1>4, <2>a, <2>2, <2>3 DEF Keeping!Remove
  <2> QED
    BY <2>4 DEF Keeping!Next
<1> QED
  BY <1>1, <1>2, <1>3, <1>4

\* Where a handler begins, ends or does not run, nothing is made or given back.
LEMMA HeldStill ==
  ASSUME Typed, [Next]_vars, ~Pass, ~Meddle, pc = "idle" \/ pc' = "idle"
  PROVE  Held' = Held
<1>a. source \in SourceType
  BY DEF Typed, TypeOK, SourceType
<1>1. /\ ~EnsurePublication /\ ~CommentPublication /\ ~EnsureLoginRole /\ ~CommentRole
      /\ ~ApplySecret /\ ~EnsureSlot /\ ~CreateSubscription /\ ~CommentSubscription
      /\ ~GrantReadGroup /\ ~DropSupersededLogin /\ ~DeleteSupersededSecret
      /\ ~SetConnection /\ ~SetEnabled
  BY DEF Pass
<1>2. /\ ~DropSubscription /\ ~DropSlot /\ ~DropPublication /\ ~DropLogin /\ ~DeleteSecret
      /\ ~EndWalsender
  BY DEF DropSubscription, DropSlot, DropPublication, DropLogin, DeleteSecret, EndWalsender, Step
<1>3. WorkerConnects \/ WorkerStops => source.slot # "absent" /\ source'.slot # "absent"
  BY <1>a DEF WorkerConnects, WorkerStops, SourceType
<1>4. /\ source'.publication = source.publication /\ source'.role = source.role
      /\ source'.member = source.member
      /\ source'.slot = "absent" <=> source.slot = "absent"
      /\ target' = target /\ secrets' = secrets
  BY <1>1, <1>2, <1>3, SourceMoves, OthersMove
<1> QED
  BY <1>4 DEF Held

\* Others take a Secret or a server away, or grant the membership themselves.
LEMMA MeddleInCustody ==
  ASSUME Ledger, Ledger', Meddle
  PROVE  Keeping!Next
<1>a. /\ Typed /\ source \in SourceType /\ secrets \in SecretsType /\ budget \in Budget
      /\ "publication" \notin budget.what
      /\ UNCHANGED <<spec, status, target, pc>> /\ [Next]_vars
  BY LedgerGuard, PassOrRest DEF Ledger, Names, Typed, TypeOK, Meddle, Rest
<1>b. /\ budget.meddling > 0 /\ budget'.meddling = budget.meddling - 1
      /\ OnRecord' = OnRecord
  BY <1>a DEF Meddle, Budget, OnRecord
<1>c. Keeping!Meddle
  BY <1>a, <1>b DEF Keeping!Meddle
<1>1. CASE /\ source.member["provided"] = "none" /\ ~status.granted
           /\ source' = [source EXCEPT !.member["provided"] = "admin"]
           /\ UNCHANGED <<secrets, instances>>
  <2>1. /\ source'.publication = source.publication /\ source'.role = source.role
        /\ source'.slot = source.slot /\ source'.member["provided"] = "admin"
    BY <1>a, <1>1 DEF SourceType, Login
  <2>2. Held' = Held
    BY <1>a, <1>1, <2>1 DEF Held
  <2>3. Foreign' = Foreign \cup {"membership"}
    BY <1>a, <2>1 DEF Foreign, Thing
  <2>4. "membership" \notin Held \cup OnRecord /\ Reachable' = Reachable
    BY <1>1 DEF Held, OnRecord, Reachable
  <2>5. Keeping!Claim("membership")
    BY <1>c, <2>2, <2>3, <2>4 DEF Keeping!Claim
  <2> QED
    BY <2>5 DEF Keeping!Next, Thing
<1>2. CASE /\ secrets.generated # NoPassword
           /\ secrets' = [secrets EXCEPT !.generated = NoPassword]
           /\ UNCHANGED <<source, instances>>
  <2>1. secrets'.generated = NoPassword
    BY <1>a, <1>2 DEF SecretsType
  <2>2. Held' = Held \ {"secret"} /\ Foreign' = Foreign /\ Reachable' = Reachable
    BY <1>a, <1>2, <2>1 DEF Held, Foreign, Reachable
  <2>3. Keeping!Lose("secret")
    BY <1>c, <2>2 DEF Keeping!Lose
  <2> QED
    BY <2>3 DEF Keeping!Next, Thing, Object
<1>3. CASE /\ \E side \in instances : instances' = instances \ {side}
           /\ UNCHANGED <<secrets, source>>
  <2>1. Held' = Held /\ Foreign' = Foreign
    BY <1>a, <1>3 DEF Held, Foreign
  <2>2. Reachable' \subseteq Reachable
    BY <1>3 DEF Reachable
  <2>3. Keeping!Shrink
    BY <1>c, <2>1, <2>2 DEF Keeping!Shrink
  <2> QED
    BY <2>3 DEF Keeping!Next
<1> QED
  BY <1>a, <1>1, <1>2, <1>3, Zenon DEF Meddle

\* A handler begins, a finalizer gives things back, or either ends.
LEMMA RestInCustody ==
  ASSUME Ledger, Ledger', [Next]_vars, ~Pass, ~Meddle
  PROVE  Keeping!Next \/ UNCHANGED Keeping!vars
<1>a. /\ Typed /\ Names /\ Objects /\ Rest /\ pc \in {"idle"} \cup PassStep \cup TeardownStep
      /\ spec \in SpecType /\ spec' \in SpecType
  BY LedgerGuard, ObjectsGuard, PassOrRest, NextTyped DEF Ledger, Typed, TypeOK, SpecType
<1>b. /\ Foreign' = Foreign /\ Reachable' = Reachable /\ OnRecord' = OnRecord
      /\ budget'.meddling = budget.meddling
  <2>1. status' = status
    BY <1>a, RestShapes DEF Around, GoesOn, Begins
  <2> QED
    BY <1>a, <2>1, ForeignMoves, QuietMoves DEF Reachable, OnRecord
<1>c. /\ pc' = "idle" => Held' \subseteq OnRecord'
      /\ OnRecord \subseteq Thing \ Foreign
      /\ spec'.released => Held' \cap Reachable' = {}
      /\ Held \subseteq Thing /\ Held' \subseteq Thing
  BY LedgerInOrder, InOrderNext DEF InOrder
<1>1. CASE spec'.released # spec.released
  <2>1. spec'.released /\ ~spec.released
    BY <1>a, <1>1, ReleasedStays DEF SpecType
  <2>2. pc' = "idle" /\ Held' = Held
    BY <1>a, <2>1, ReleasedBy, HeldStill
  <2>3. Keeping!Release
    BY <1>b, <1>c, <2>1, <2>2 DEF Keeping!Release
  <2> QED
    BY <2>3 DEF Keeping!Next
<1>2. CASE spec'.released = spec.released /\ pc = "idle" /\ pc' = "idle"
  <2>1. Held' = Held
    BY <1>a, <1>2, HeldStill
  <2> QED
    BY <1>b, <1>2, <2>1 DEF Keeping!vars
<1>3. CASE spec'.released = spec.released /\ pc = "idle" /\ pc' # "idle"
  <2>1. Held' = Held
    BY <1>a, <1>3, HeldStill
  <2>2. ~spec.released
    BY <1>a, <1>3, ReleasedBy
  <2>3. Keeping!Start
    BY <1>b, <1>3, <2>1, <2>2 DEF Keeping!Start
  <2> QED
    BY <2>3 DEF Keeping!Next
<1>4. CASE spec'.released = spec.released /\ pc # "idle" /\ pc' = "idle"
  <2>1. Held' = Held
    BY <1>a, <1>4, HeldStill
  <2>2. Keeping!Pause
    BY <1>b, <1>c, <1>4, <2>1 DEF Keeping!Pause
  <2> QED
    BY <2>2 DEF Keeping!Next
<1>5. CASE spec'.released = spec.released /\ pc # "idle" /\ pc' # "idle"
  <2>1. Held' \subseteq Held
    BY <1>a, <1>c, MadeAt
  <2>2. "secret" \in Held \ Held' => {"login"} \cap Held \cap Reachable = {}
    <3>1. SUFFICES ASSUME "secret" \in Held, "secret" \notin Held'
                   PROVE  {"login"} \cap Held \cap Reachable = {}
      OBVIOUS
    <3>2. secrets.generated # NoPassword /\ secrets'.generated = NoPassword
      BY <3>1 DEF Held, Thing, Object
    <3>3. pc = "deleteSecret" /\ pc' # pc
      BY <1>a, <3>2, RestKeeps DEF DeleteSecret, Step
    <3>4. "source" \in instances => ~Operators(source.role["generated"])
      BY <1>a, <3>2, <3>3, SecretLast
    <3> QED
      BY <3>4 DEF Held, Reachable
  <2>3. Keeping!Remove(Held \ Held')
    BY <1>b, <1>c, <1>5, <2>1, <2>2 DEF Keeping!Remove
  <2> QED
    BY <2>3 DEF Keeping!Next
<1> QED
  BY <1>1, <1>2, <1>3, <1>4, <1>5

LEMMA InitInCustody ==
  ASSUME RecordsMade, SwapsComplete, Init
  PROVE  Keeping!Init
<1>1. Ledger
  BY InitLedger
<1>2. /\ status = NoStatus /\ pc = "idle" /\ instances = Side /\ budget \in Budgets
      /\ ~spec.released
  BY DEF Init
<1>3. OnRecord = {}
  BY <1>2 DEF OnRecord, NoStatus, Object, Thing
<1>4. Held = {}
  BY <1>1, <1>2, <1>3, LedgerInOrder DEF InOrder
<1>5. Foreign \subseteq Thing
  BY DEF Foreign
<1>6. Reachable = Thing
  BY <1>2 DEF Reachable, Side, Thing, Object
<1>7. budget.meddling \in Nat
  BY <1>2, BudgetsAreBudgets DEF Budget
<1> QED
  BY <1>2, <1>3, <1>4, <1>5, <1>6, <1>7 DEF Keeping!Init

\* A replication implements Custody: it makes and drops only its own, has all of
\* it in status whenever no handler runs, drops the login before its Secret, and
\* releases the finalizer with nothing left on a server that exists
\* (_refuse_foreign_objects, _record_created, _remove_superseded_login,
\* teardown_replication) - for every set of passwords, budgets and names already
\* held, under the premises of AccountedFor and NothingLeftBehind.
THEOREM CustodyIsKept ==
  ASSUME RecordsMade, SwapsComplete
  PROVE  Spec => CustodyKept
<1>1. Init => Ledger /\ Keeping!Init
  BY InitLedger, InitInCustody
<1>2. Ledger /\ [Next]_vars => Ledger'
  BY LedgerKept DEF RecordsMade
<1>3. Ledger /\ Ledger' /\ [Next]_vars => [Keeping!Next]_(Keeping!vars)
  BY PassInCustody, MeddleInCustody, RestInCustody
<1> QED
  BY <1>1, <1>2, <1>3, PTL DEF Spec, CustodyKept, Keeping!Spec

\* What a state owes to Custody, stated of the things alone.
Promised ==
  /\ Held \cap Foreign = {} /\ OnRecord \cap Foreign = {}
  /\ pc = "idle" /\ ~spec.released => Held \subseteq OnRecord
  /\ spec.released => pc = "idle" /\ Held \cap Reachable = {}

\* What Custody is worth by itself: nothing it has or records is somebody else's,
\* what it has is on record whenever it pauses, and once it let go nothing within
\* reach is left.  So Accounted and NothingLeft are two of its consequences, and
\* whatever implements Custody - a finalizer with other steps, in another order -
\* has them (_record_created, teardown_replication).
THEOREM CustodyMeans == CustodyKept => []Promised
<1>1. Keeping!Init => Promised
  BY DEF Keeping!Init, Promised
<1>2. Promised /\ [Keeping!Next]_(Keeping!vars) => Promised'
  <2> SUFFICES ASSUME Promised, [Keeping!Next]_(Keeping!vars)
               PROVE  Promised'
    OBVIOUS
  <2>1. CASE UNCHANGED Keeping!vars
    BY <2>1 DEF Keeping!vars, Promised
  <2>2. CASE Keeping!Start
    BY <2>2 DEF Keeping!Start, Promised
  <2>3. CASE Keeping!Record \/ Keeping!Pause
    BY <2>3 DEF Keeping!Record, Keeping!Pause, Promised
  <2>4. CASE Keeping!Release
    BY <2>4 DEF Keeping!Release, Promised
  <2>5. CASE Keeping!Shrink
    BY <2>5 DEF Keeping!Shrink, Keeping!Meddle, Promised
  <2>6. ASSUME NEW t \in Thing, Keeping!Make(t)
        PROVE  Promised'
    BY <2>6 DEF Keeping!Make, Promised
  <2>7. ASSUME NEW t \in Thing, Keeping!Lose(t)
        PROVE  Promised'
    BY <2>7 DEF Keeping!Lose, Keeping!Meddle, Promised
  <2>8. ASSUME NEW t \in Thing, Keeping!Claim(t)
        PROVE  Promised'
    BY <2>8 DEF Keeping!Claim, Keeping!Meddle, Promised
  <2>9. ASSUME NEW some \in SUBSET Held, Keeping!Remove(some)
        PROVE  Promised'
    BY <2>9 DEF Keeping!Remove, Promised
  <2> QED
    BY <2>1, <2>2, <2>3, <2>4, <2>5, <2>6, <2>7, <2>8, <2>9 DEF Keeping!Next
<1> QED
  BY <1>1, <1>2, PTL DEF CustodyKept, Keeping!Spec
=============================================================================
