---------------------- MODULE DatabaseLifecycle_proofs ----------------------
(***************************************************************************)
(* Proofs about DatabaseLifecycle, for every value of its constants.       *)
(*                                                                         *)
(*   1  records keep their types under the updates the actions make        *)
(*   2  TypeOK is an invariant                                             *)
(*   3  DroppedClean                                                       *)
(*   4  RetainedReachable, if no restart and no second failure falls       *)
(*      while the database is closed                                       *)
(*   5  ReplicationIntact, if replications are declared before a deletion  *)
(*   6  OrphansTracked, where edits wait for the last one to converge      *)
(*   7  OnlyDeclaredDropped, with no extension inside a declared schema    *)
(***************************************************************************)
EXTENDS DatabaseLifecycle, TLAPS

-----------------------------------------------------------------------------
(***************************************************************************)
(* 1  The sets TypeOK is made of, and the updates that stay inside them    *)
(***************************************************************************)

SpecType == [wants : SUBSET Object, policy : Policy, deleting : BOOLEAN, released : BOOLEAN]
BudgetType == [breaks : Nat, edits : Nat, meddling : Nat]
Maker == {"absent", "operator", "other"}

LEMMA SetSpec ==
  ASSUME NEW s \in SpecType, NEW w \in SUBSET Object, NEW p \in Policy
  PROVE  /\ [s EXCEPT !.wants = w] \in SpecType
         /\ [s EXCEPT !.policy = p] \in SpecType
  BY DEF SpecType

LEMMA SetProgress ==
  ASSUME NEW s \in SpecType
  PROVE  /\ [s EXCEPT !.deleting = TRUE] \in SpecType
         /\ [s EXCEPT !.released = TRUE] \in SpecType
  BY DEF SpecType

LEMMA SetLive ==
  ASSUME NEW s \in Server, NEW o \in Object, NEW by \in Maker, NEW G \in SUBSET Schema
  PROVE  /\ [s EXCEPT !.live[o] = by] \in Server
         /\ [s EXCEPT !.live[o] = by, !.granted = G] \in Server
  BY DEF Server, Maker

LEMMA SetAllLive ==
  ASSUME NEW s \in Server, NEW l \in [Object -> Maker], NEW G \in SUBSET Schema
  PROVE  /\ [s EXCEPT !.granted = G, !.live = l] \in Server
         /\ [s EXCEPT !.database = "open", !.live = l] \in Server
  BY DEF Server, Maker

LEMMA SetDatabase ==
  ASSUME NEW s \in Server, NEW how \in {"absent", "open", "closed"}
  PROVE  /\ [s EXCEPT !.database = how] \in Server
         /\ [s EXCEPT !.connect = TRUE] \in Server
  BY DEF Server

LEMMA SetRoles ==
  ASSUME NEW s \in Server, NEW R \in SUBSET GroupRole
  PROVE  /\ [s EXCEPT !.roles = R] \in Server
         /\ [s EXCEPT !.roles = R, !.granted = {}, !.connect = FALSE] \in Server
  BY DEF Server

LEMMA SetElsewhere ==
  ASSUME NEW s \in Server, NEW r \in GroupRole, NEW use \in {"nothing", "owns", "privileges"}
  PROVE  [s EXCEPT !.elsewhere[r] = use] \in Server
  BY DEF Server

LEMMA SetSessions ==
  ASSUME NEW s \in Server, NEW S \in SUBSET {"app", "foreign"}
  PROVE  [s EXCEPT !.sessions = S] \in Server
  BY DEF Server

LEMMA SetResult ==
  ASSUME NEW r \in Result, NEW T \in SUBSET Object, NEW R \in SUBSET GroupRole
  PROVE  /\ [r EXCEPT !.todo = T] \in Result
         /\ [r EXCEPT !.orphaned = T] \in Result
         /\ [r EXCEPT !.roles = R] \in Result
  BY DEF Result

LEMMA NothingTyped ==
  /\ NoResult \in Result
  /\ Nothing \in [Object -> Maker]
  /\ server \in Server => NoDatabase \in Server
<1>1. Nothing \in [Object -> Maker]
  BY DEF Nothing, Maker
<1> QED
  BY <1>1 DEF NoResult, Result, NoDatabase, Server, Maker

-----------------------------------------------------------------------------
(***************************************************************************)
(* 2  Type correctness.  Grants are made on what a pass has still to do,   *)
(* which is schemas at that step and extensions at the next.               *)
(***************************************************************************)

TypeInv ==
  /\ TypeOK
  /\ pc = "schemas" => result.todo \subseteq Schema
  /\ pc = "extensions" => result.todo \subseteq Extension

\* What the handler does to the server and to its own result.
LEMMA ServerTypedByPass ==
  ASSUME TypeInv, Pass
  PROVE  server' \in Server /\ result' \in Result
<1> USE DEF TypeInv, TypeOK
<1>1. CASE Resolve \/ Publish \/ Refuse
  BY <1>1, NothingTyped DEF Resolve, Publish, Refuse, Idle
<1>2. CASE EnsureGroupRoles
  <2>1. /\ result' = result
        /\ \/ server' = server
           \/ \E r \in GroupRole : server' = [server EXCEPT !.roles = @ \cup {r}]
    BY <1>2 DEF EnsureGroupRoles
  <2>2. ASSUME NEW r \in GroupRole, server' = [server EXCEPT !.roles = @ \cup {r}]
        PROVE  server' \in Server
    <3>1. server.roles \cup {r} \in SUBSET GroupRole
      BY DEF Server
    <3> QED
      BY <2>2, <3>1, SetRoles
  <2> QED
    BY <2>1, <2>2
<1>3. CASE EnsureDatabase
  <2>1. [o \in Object |-> IF o \in Template THEN "other" ELSE "absent"] \in [Object -> Maker]
    BY DEF Maker
  <2> QED
    BY <1>3, <2>1, SetAllLive DEF EnsureDatabase
<1>4. CASE ApplyPrivileges
  <2>1. body.wants \cap Schema \in SUBSET Object
    BY DEF Object
  <2> QED
    BY <1>4, <2>1, SetDatabase, SetResult DEF ApplyPrivileges
<1>5. CASE EnsureSchema
  <2>1. PICK s \in result.todo :
          /\ result' = [result EXCEPT !.todo = @ \ {s}]
          /\ server' = [server EXCEPT !.live[s] = IF @ = "absent" THEN "operator" ELSE @,
                                      !.granted = @ \cup {s}]
    BY <1>5 DEF EnsureSchema
  <2>2. /\ s \in Object /\ result.todo \ {s} \in SUBSET Object
        /\ server.granted \cup {s} \in SUBSET Schema /\ server.live[s] \in Maker
    BY <1>5 DEF EnsureSchema, Step, Result, Server, Object, Maker
  <2>3. (IF server.live[s] = "absent" THEN "operator" ELSE server.live[s]) \in Maker
    BY <2>2 DEF Maker
  <2> QED
    BY <2>1, <2>2, <2>3, SetLive, SetResult
<1>6. CASE ListExtensions
  <2>1. (body.wants \cap Extension \cap Available) \ Live \in SUBSET Object
    BY DEF Object
  <2> QED
    BY <1>6, <2>1, SetResult DEF ListExtensions
<1>7. CASE EnsureExtension
  <2>1. PICK e \in result.todo :
          /\ result' = [result EXCEPT !.todo = @ \ {e}]
          /\ server' = [server EXCEPT !.live[e] = IF @ = "absent" THEN "operator" ELSE @]
    BY <1>7 DEF EnsureExtension
  <2>2. /\ e \in Object /\ result.todo \ {e} \in SUBSET Object /\ server.live[e] \in Maker
    BY DEF Result, Server, Maker
  <2>3. (IF server.live[e] = "absent" THEN "operator" ELSE server.live[e]) \in Maker
    BY <2>2 DEF Maker
  <2> QED
    BY <2>1, <2>2, <2>3, SetLive, SetResult
<1>8. CASE FindOrphans
  <2>1. Orphans \in SUBSET Object
    BY DEF Orphans, Body
  <2> QED
    BY <1>8, <2>1, SetResult DEF FindOrphans
<1>9. CASE DropOrphan
  <2>1. PICK o \in result.todo :
          /\ result' = [result EXCEPT !.todo = @ \ {o}]
          /\ server' = [server EXCEPT !.granted = @ \ {o},
               !.live = [x \in Object |-> IF x \in DroppedWith(o) THEN "absent" ELSE @[x]]]
    BY <1>9 DEF DropOrphan
  <2>2. /\ result.todo \ {o} \in SUBSET Object /\ server.granted \ {o} \in SUBSET Schema
        /\ [x \in Object |-> IF x \in DroppedWith(o) THEN "absent" ELSE server.live[x]]
             \in [Object -> Maker]
    BY DEF Result, Server, Maker
  <2> QED
    BY <2>1, <2>2, SetAllLive, SetResult
<1> QED
  BY <1>1, <1>2, <1>3, <1>4, <1>5, <1>6, <1>7, <1>8, <1>9 DEF Pass

LEMMA PassTyped ==
  ASSUME TypeInv, Pass
  PROVE  TypeInv'
<1> USE DEF TypeInv, TypeOK
<1>0. server' \in Server /\ result' \in Result
  BY ServerTypedByPass
<1>1. CASE Publish \/ Refuse
  BY <1>0, <1>1, ZenonT(60) DEF Publish, Refuse, Idle, Result, Body
<1>2. CASE Resolve \/ EnsureGroupRoles \/ EnsureDatabase
  BY <1>0, <1>2 DEF Resolve, EnsureGroupRoles, EnsureDatabase, Step, PassStep
<1>3. CASE ApplyPrivileges
  <2>1. result'.todo = body.wants \cap Schema
    BY <1>3 DEF ApplyPrivileges, Result
  <2> QED
    BY <1>0, <1>3, <2>1 DEF ApplyPrivileges, Step, PassStep
<1>4. CASE EnsureSchema \/ EnsureExtension \/ DropOrphan
  <2>1. PICK o \in result.todo : result' = [result EXCEPT !.todo = @ \ {o}]
    BY <1>4 DEF EnsureSchema, EnsureExtension, DropOrphan
  <2>2. result'.todo \subseteq result.todo
    BY <2>1 DEF Result
  <2> QED
    BY <1>0, <1>4, <2>2 DEF EnsureSchema, EnsureExtension, DropOrphan, Step, PassStep
<1>5. CASE ListExtensions
  <2>1. result'.todo = (body.wants \cap Extension \cap Available) \ Live
    BY <1>5 DEF ListExtensions, Result
  <2> QED
    BY <1>0, <1>5, <2>1 DEF ListExtensions, Step, PassStep
<1>6. CASE FindOrphans
  BY <1>0, <1>6 DEF FindOrphans, Step, PassStep
<1> QED
  BY <1>1, <1>2, <1>3, <1>4, <1>5, <1>6 DEF Pass

LEMMA TeardownTyped ==
  ASSUME TypeInv, Teardown
  PROVE  TypeInv'
<1> USE DEF TypeInv, TypeOK
<1>0. spec \in SpecType
  BY DEF SpecType
<1>1. CASE CheckReplications
  BY <1>1, NothingTyped DEF CheckReplications, Idle, TeardownStep
<1>2. CASE FindDatabase
  <2>1. result' \in Result
    BY <1>2, SetResult DEF FindDatabase
  <2> QED
    BY <1>2, <2>1 DEF FindDatabase, Step, TeardownStep
<1>3. CASE SkipTeardown \/ Finish
  <2>1. spec' \in SpecType
    BY <1>0, <1>3, SetProgress DEF SkipTeardown, Finish
  <2> QED
    BY <1>3, <2>1, NothingTyped DEF SkipTeardown, Finish, Idle, SpecType
<1>4. CASE CloseDatabase
  BY <1>4, SetDatabase DEF CloseDatabase, Step, TeardownStep
<1>5. CASE EvictSessions
  <2>1. server' \in Server
    BY <1>5, SetSessions DEF EvictSessions
  <2> QED
    BY <1>5, <2>1 DEF EvictSessions, Step, TeardownStep
<1>6. CASE DropDatabase \/ DropRefused
  BY <1>6, NothingTyped DEF DropDatabase, DropRefused, Step, TeardownStep
<1>7. CASE Reopen
  <2>1. server' \in Server
    BY <1>7, SetDatabase DEF Reopen, Server
  <2> QED
    BY <1>7, <2>1, NothingTyped DEF Reopen, Idle
<1>8. CASE DropGroupRole
  <2>1. PICK r \in result.roles :
          /\ result' = [result EXCEPT !.roles = @ \ {r}]
          /\ server' \in {server, [server EXCEPT !.roles = @ \ {r}]}
    BY <1>8 DEF DropGroupRole
  <2>2. result.roles \ {r} \in SUBSET GroupRole /\ server.roles \ {r} \in SUBSET GroupRole
    BY DEF Result, Server
  <2>3. result' \in Result /\ server' \in Server
    BY <2>1, <2>2, SetResult, SetRoles, ZenonT(60)
  <2> QED
    BY <1>8, <2>3 DEF DropGroupRole, Step, TeardownStep
<1> QED
  BY <1>1, <1>2, <1>3, <1>4, <1>5, <1>6, <1>7, <1>8 DEF Teardown

LEMMA StartTyped ==
  ASSUME TypeInv, StartPass \/ StartTeardown
  PROVE  TypeInv'
<1> USE DEF TypeInv, TypeOK
<1>0. spec \in SpecType
  BY DEF SpecType
<1>1. CASE StartPass
  BY <1>1 DEF StartPass, PassStep, Body
<1>2. CASE StartTeardown
  <2>1. spec' \in SpecType
    BY <1>0, <1>2, SetProgress DEF StartTeardown
  <2>2. body' \in Body
    BY <1>2 DEF StartTeardown, Body
  <2> QED
    BY <1>2, <2>1, <2>2 DEF StartTeardown, TeardownStep, SpecType
<1> QED
  BY <1>1, <1>2

\* What others do to the server leaves it one.
LEMMA MeddleTyped ==
  ASSUME TypeOK, MeddleWithServer
  PROVE  server' \in Server
<1>0. server \in Server
  BY DEF TypeOK
<1>1. ASSUME NEW o \in Object, server' = [server EXCEPT !.live[o] = "other"]
      PROVE  server' \in Server
  BY <1>0, <1>1, SetLive DEF Maker
<1>2. ASSUME NEW o \in Object,
             server' = [server EXCEPT !.live[o] = "absent", !.granted = @ \ {o}]
      PROVE  server' \in Server
  <2>1. server.granted \ {o} \in SUBSET Schema
    BY <1>0 DEF Server
  <2> QED
    BY <1>0, <1>2, <2>1, SetLive DEF Maker
<1>3. ASSUME NEW r \in GroupRole,
             server' = [server EXCEPT !.roles = @ \ {r}, !.granted = {}, !.connect = FALSE]
      PROVE  server' \in Server
  <2>1. server.roles \ {r} \in SUBSET GroupRole
    BY <1>0 DEF Server
  <2> QED
    BY <1>0, <1>3, <2>1, SetRoles
<1>4. ASSUME NEW r \in GroupRole, NEW use \in {"owns", "privileges"},
             server' = [server EXCEPT !.elsewhere[r] = use]
      PROVE  server' \in Server
  BY <1>0, <1>4, SetElsewhere
<1>5. ASSUME server' = [server EXCEPT !.sessions = @ \cup {"foreign"}]
      PROVE  server' \in Server
  <2>1. server.sessions \cup {"foreign"} \in SUBSET {"app", "foreign"}
    BY <1>0 DEF Server
  <2> QED
    BY <1>0, <1>5, <2>1, SetSessions
<1>6. server.roles \subseteq GroupRole /\ Live \subseteq Object
  BY <1>0 DEF Server, Live
<1> QED
  BY <1>0, <1>1, <1>2, <1>3, <1>4, <1>5, <1>6, NothingTyped DEF MeddleWithServer

LEMMA OthersTyped ==
  ASSUME TypeInv, Others
  PROVE  TypeInv'
<1> USE DEF TypeInv, TypeOK
<1>0. spec \in SpecType /\ budget \in BudgetType
  BY DEF SpecType, BudgetType
<1>1. CASE Break \/ Stop
  <2>1. budget' \in BudgetType
    <3>1. budget' = [budget EXCEPT !.breaks = @ + 1]
      BY <1>1 DEF Break, Stop
    <3> QED
      BY <1>0, <3>1 DEF BudgetType
  <2>2. /\ pc' \in {"idle", "reopen"} /\ result' \in {result, NoResult}
        /\ outcome' \in {outcome, "failed"}
    BY <1>1 DEF Break, Stop, Idle
  <2> QED
    BY <1>1, <2>1, <2>2, NothingTyped DEF Break, Stop, BudgetType, TeardownStep
<1>2. CASE Edit
  <2>1. spec' \in SpecType
    <3>1. \/ \E w \in SUBSET Object : spec' = [spec EXCEPT !.wants = w]
          \/ \E p \in Policy : spec' = [spec EXCEPT !.policy = p]
      <4>1. ASSUME NEW o \in Object,
                   spec' = [spec EXCEPT !.wants = IF o \in @ THEN @ \ {o} ELSE @ \cup {o}]
            PROVE  \E w \in SUBSET Object : spec' = [spec EXCEPT !.wants = w]
        <5>1. (IF o \in spec.wants THEN spec.wants \ {o} ELSE spec.wants \cup {o})
                \in SUBSET Object
          BY <1>0 DEF SpecType
        <5> QED
          BY <4>1, <5>1
      <4> QED
        BY <1>2, <4>1 DEF Edit
    <3>2. spec.wants \in SUBSET Object /\ spec.policy \in Policy
      BY <1>0 DEF SpecType
    <3> HIDE DEF TypeInv, TypeOK
    <3> QED
      BY <1>0, <3>1, <3>2, SetSpec
  <2>2. budget' \in BudgetType /\ declared' \in SUBSET Object
    BY <1>0, <1>2, <2>1 DEF Edit, BudgetType, SpecType
  <2> QED
    BY <1>2, <2>1, <2>2 DEF Edit, SpecType, BudgetType
<1>3. CASE Delete
  <2>1. spec' \in SpecType
    BY <1>0, <1>3, SetProgress DEF Delete
  <2> QED
    BY <1>3, <2>1 DEF Delete, SpecType
<1>4. CASE Clients
  <2>1. \/ server' = [server EXCEPT !.sessions = @ \cup {"app"}]
        \/ \E s \in server.sessions : server' = [server EXCEPT !.sessions = @ \ {s}]
    BY <1>4 DEF Clients
  <2>2. \E S \in SUBSET {"app", "foreign"} : server' = [server EXCEPT !.sessions = S]
    BY <2>1 DEF Server
  <2>3. server' \in Server
    BY <2>2, SetSessions
  <2> QED
    BY <1>4, <2>3 DEF Clients
<1>5. CASE Replicate
  BY <1>5 DEF Replicate
<1>6. CASE Meddle
  <2>1. budget' \in BudgetType
    BY <1>0, <1>6 DEF Meddle, BudgetType
  <2>2. server' \in Server
    BY <1>6, MeddleTyped DEF Meddle
  <2>3. /\ replication' \in {"none", "declared", "attached", "broken"}
        /\ instance' \in [exists : BOOLEAN, force : BOOLEAN]
    BY <1>6 DEF Meddle, MeddleAround
  <2> QED
    BY <1>6, <2>1, <2>2, <2>3 DEF Meddle, BudgetType
<1>7. CASE Abandon
  <2>1. spec' \in SpecType
    BY <1>0, <1>7, SetProgress DEF Abandon
  <2>2. budget' \in BudgetType
    BY <1>0, <1>7 DEF Abandon, BudgetType
  <2>3. body' \in Body
    BY <1>0, <1>7 DEF Abandon, Body, SpecType
  <2> QED
    BY <1>7, <2>1, <2>2, <2>3, NothingTyped DEF Abandon, Idle, SpecType, BudgetType
<1> QED
  BY <1>1, <1>2, <1>3, <1>4, <1>5, <1>6, <1>7 DEF Others

LEMMA TypeStep == TypeInv /\ [Next]_vars => TypeInv'
<1> SUFFICES ASSUME TypeInv, [Next]_vars PROVE TypeInv'
  OBVIOUS
<1>1. CASE Operator
  BY <1>1, StartTyped, PassTyped, TeardownTyped DEF Operator
<1>2. CASE Others
  BY <1>2, OthersTyped
<1>3. CASE Gone \/ UNCHANGED vars
  BY <1>3 DEF Gone, vars, TypeInv, TypeOK
<1> QED
  BY <1>1, <1>2, <1>3 DEF Next

LEMMA TypeInit == Init => TypeInv
<1> SUFFICES ASSUME Init PROVE TypeInv
  OBVIOUS
<1>1. spec \in SpecType /\ body \in Body
  BY DEF Init, SpecType, Body
<1>2. server \in Server
  BY NothingTyped DEF Init, Server, Maker
<1> QED
  BY <1>1, <1>2, NothingTyped DEF Init, TypeInv, TypeOK, SpecType

\* Every variable keeps its type, and a pass grants on schemas only.
THEOREM DatabaseTypeCorrect == Spec => []TypeOK
<1>1. TypeInv => TypeOK
  BY DEF TypeInv
<1> QED
  BY <1>1, TypeInit, TypeStep, PTL DEF Spec

-----------------------------------------------------------------------------
(***************************************************************************)
(* 3  A dropped database leaves nothing: which step of the finalizer may   *)
(* rely on what the steps before it removed.                               *)
(***************************************************************************)

Deleting ==
  /\ pc \in TeardownStep => spec.deleting /\ ~spec.released
  /\ spec.released => spec.deleting /\ pc = "idle"

DropInv ==
  /\ TypeInv
  /\ Deleting
  /\ pc \in {"close", "evict", "drop database"} => result.roles = GroupRole
  /\ pc = "drop roles" => /\ server.database = "absent"
                          /\ \A r \in server.roles \ result.roles :
                               server.elsewhere[r] # "nothing"
  /\ DroppedClean

\* Others never bring a database back, never make a group role, and never
\* take a role out of use.
LEMMA OthersBringNothing ==
  ASSUME TypeOK, Clients \/ Meddle
  PROVE  /\ server.database = "absent" => server'.database = "absent"
         /\ server'.database = "closed" => server.database = "closed"
         /\ server'.roles \subseteq server.roles
         /\ \A r \in GroupRole : server.elsewhere[r] # "nothing" => server'.elsewhere[r] # "nothing"
         /\ instance'.exists => instance.exists
<1> USE DEF TypeOK, Server
<1>1. CASE Clients
  BY <1>1 DEF Clients
<1>2. CASE Meddle
  <2>1. instance'.exists => instance.exists
    BY <1>2 DEF Meddle, MeddleAround
  <2>2. CASE server' = server
    BY <2>1, <2>2
  <2>3. CASE server' = NoDatabase
    BY <2>1, <2>3 DEF NoDatabase
  <2>4. ASSUME NEW o \in Object,
               \/ server' = [server EXCEPT !.live[o] = "other"]
               \/ server' = [server EXCEPT !.live[o] = "absent", !.granted = @ \ {o}]
        PROVE  /\ server'.database = server.database /\ server'.roles = server.roles
               /\ server'.elsewhere = server.elsewhere
    BY <2>4
  <2>5. ASSUME NEW r \in GroupRole,
               server' = [server EXCEPT !.roles = @ \ {r}, !.granted = {}, !.connect = FALSE]
        PROVE  /\ server'.database = server.database /\ server'.roles \subseteq server.roles
               /\ server'.elsewhere = server.elsewhere
    BY <2>5
  <2>6. ASSUME NEW r \in GroupRole, NEW use \in {"owns", "privileges"},
               server' = [server EXCEPT !.elsewhere[r] = use]
        PROVE  /\ server'.database = server.database /\ server'.roles = server.roles
               /\ \A x \in GroupRole :
                    server.elsewhere[x] # "nothing" => server'.elsewhere[x] # "nothing"
    BY <2>6
  <2>7. CASE server' = [server EXCEPT !.sessions = @ \cup {"foreign"}]
    BY <2>1, <2>7
  <2>8. server.roles \subseteq GroupRole /\ Live \subseteq Object
    BY DEF Live
  <2> HIDE DEF TypeOK, Server
  <2> QED
    BY <1>2, <2>1, <2>2, <2>3, <2>4, <2>5, <2>6, <2>7, <2>8 DEF Meddle, MeddleWithServer
<1> QED
  BY <1>1, <1>2

\* What a step of a pass leaves alone.
LEMMA PassFrame ==
  ASSUME Pass
  PROVE  /\ UNCHANGED <<spec, declared, instance, body, budget>>
         /\ pc \in PassStep \cup {"close", "drop roles"}
         /\ pc' \in PassStep \cup {"idle"}
         /\ pc \notin PassStep => pc' = "idle" /\ server' = server
         /\ pc' # "idle" => managed' = managed
<1> USE DEF PassStep
<1>1. CASE Resolve \/ EnsureGroupRoles \/ EnsureDatabase \/ ApplyPrivileges \/ EnsureSchema
           \/ ListExtensions \/ EnsureExtension \/ FindOrphans \/ DropOrphan
  BY <1>1 DEF Resolve, EnsureGroupRoles, EnsureDatabase, ApplyPrivileges, EnsureSchema,
              ListExtensions, EnsureExtension, FindOrphans, DropOrphan, Step
<1>2. CASE Publish \/ Refuse
  BY <1>2 DEF Publish, Refuse, Idle
<1> QED
  BY <1>1, <1>2 DEF Pass

LEMMA DropStep == DropInv /\ [Next]_vars => DropInv'
<1> SUFFICES ASSUME DropInv, [Next]_vars PROVE DropInv'
  OBVIOUS
<1> USE DEF DropInv, Deleting, DroppedClean
<1>0. TypeInv' /\ TypeOK /\ TypeOK'
  BY TypeStep DEF TypeInv
<1>1. CASE StartPass
  BY <1>0, <1>1 DEF StartPass, PassStep, TeardownStep
<1>2. CASE StartTeardown
  BY <1>0, <1>2 DEF StartTeardown, TeardownStep, TypeOK, Body
<1>3. CASE Pass
  <2>1. ~spec.released /\ UNCHANGED <<spec, instance>> /\ pc' \in PassStep \cup {"idle"}
    BY <1>3, PassFrame DEF PassStep, TeardownStep
  <2> QED
    BY <1>0, <2>1 DEF PassStep, TeardownStep
<1>4. CASE Teardown
  <2>1. CASE CheckReplications
    BY <1>0, <2>1 DEF CheckReplications, Idle, TeardownStep
  <2>2. CASE FindDatabase
    <3>1. result'.roles = GroupRole /\ server.roles \subseteq GroupRole
      BY <1>0, <2>2 DEF FindDatabase, TypeOK, Result, Server
    <3> QED
      BY <1>0, <2>2, <3>1 DEF FindDatabase, Step, TeardownStep
  <2>3. CASE SkipTeardown
    BY <1>0, <2>3 DEF SkipTeardown, Idle, TeardownStep, TypeOK
  <2>4. CASE CloseDatabase \/ EvictSessions \/ DropRefused
    BY <1>0, <2>4 DEF CloseDatabase, EvictSessions, DropRefused, Step, TeardownStep
  <2>5. CASE DropDatabase
    <3>1. server'.database = "absent" /\ server'.roles \subseteq GroupRole
      BY <1>0, <2>5 DEF DropDatabase, NoDatabase, TypeOK, Server
    <3> QED
      BY <1>0, <2>5, <3>1 DEF DropDatabase, Step, TeardownStep
  <2>6. CASE Reopen
    BY <1>0, <2>6 DEF Reopen, Idle, TeardownStep
  <2>7. CASE DropGroupRole
    <3>1. PICK r \in result.roles :
            /\ result' = [result EXCEPT !.roles = @ \ {r}]
            /\ r \in server.roles => server.elsewhere[r] # "privileges"
            /\ server' = IF server.elsewhere[r] = "owns" THEN server
                         ELSE [server EXCEPT !.roles = @ \ {r}]
            /\ pc = "drop roles" /\ pc' = "drop roles"
            /\ UNCHANGED <<spec, instance, body>>
      BY <2>7 DEF DropGroupRole, Step
    <3>2. /\ result'.roles = result.roles \ {r}
          /\ server'.database = server.database /\ server'.elsewhere = server.elsewhere
          /\ server.elsewhere[r] = "owns" => server'.roles = server.roles
          /\ server.elsewhere[r] # "owns" => server'.roles = server.roles \ {r}
      BY <1>0, <3>1 DEF TypeOK, Result, Server
    <3> QED
      BY <1>0, <3>1, <3>2 DEF TeardownStep
  <2>8. CASE Finish
    <3>1. spec'.released /\ spec'.deleting
      BY <1>0, <2>8 DEF Finish, TeardownStep, TypeOK
    <3> QED
      BY <1>0, <2>8, <3>1 DEF Finish, Idle, TeardownStep
  <2> QED
    BY <1>4, <2>1, <2>2, <2>3, <2>4, <2>5, <2>6, <2>7, <2>8 DEF Teardown
<1>5. CASE Break \/ Stop
  <2>1. /\ UNCHANGED <<spec, server, instance, body>> /\ pc # "idle"
        /\ pc' = "idle" \/ (pc' = "reopen" /\ pc \in TeardownStep)
    BY <1>5 DEF Break, Stop, Idle, TeardownStep
  <2> QED
    BY <1>0, <2>1 DEF TeardownStep
<1>6. CASE Edit \/ Delete
  <2>1. /\ spec'.released = spec.released /\ spec.deleting => spec'.deleting
        /\ UNCHANGED <<server, instance, body, result, outcome, pc>>
    BY <1>0, <1>6 DEF Edit, Delete, TypeOK
  <2>2. spec'.released = spec.released
    BY <1>0, <1>6 DEF Edit, Delete, TypeOK
  <2> QED
    BY <1>0, <2>1, <2>2
<1>7. CASE Clients \/ Meddle
  <2>1. UNCHANGED <<spec, pc, body, result, outcome>> /\ server.roles \subseteq GroupRole
    BY <1>0, <1>7 DEF Clients, Meddle, TypeOK, Server
  <2> QED
    BY <1>0, <1>7, <2>1, OthersBringNothing
<1>8. CASE Replicate
  BY <1>0, <1>8 DEF Replicate
<1>9. CASE Gone \/ UNCHANGED vars
  BY <1>0, <1>9 DEF Gone, vars
<1>10. CASE Abandon
  <2>1. spec'.released /\ spec'.deleting /\ pc' = "idle" /\ outcome' = "abandoned"
    BY <1>0, <1>10 DEF Abandon, Idle, TypeOK, TeardownStep
  <2> QED
    BY <1>0, <2>1 DEF TeardownStep
<1> QED
  BY <1>1, <1>2, <1>3, <1>4, <1>5, <1>6, <1>7, <1>8, <1>9, <1>10 DEF Next, Operator, Others

LEMMA DropInit == Init => DropInv
  BY TypeInit DEF Init, DropInv, Deleting, DroppedClean, TeardownStep

\* Under DROP the finalizer is released only with the database gone, and with
\* no group role left but those in use elsewhere, whatever failed on the way
\* short of a configuration error, over which run_teardown lets it go at once.
THEOREM NothingLeftOfDatabase == Spec => []DroppedClean
<1>1. DropInv => DroppedClean
  BY DEF DropInv
<1> QED
  BY <1>1, DropInit, DropStep, PTL DEF Spec

-----------------------------------------------------------------------------
(***************************************************************************)
(* 4  A database is closed only between the step that closes it and the    *)
(* one that drops or opens it, and no release falls in between.            *)
(***************************************************************************)

Window == {"evict", "drop database", "reopen"}

ReachableInv == DropInv /\ (server.database = "closed" => pc \in Window)

LEMMA ReachableStep ==
  ASSUME Stops \cap Window = {}, "reopen" \notin Breaks, ReachableInv, [Next]_vars
  PROVE  ReachableInv'
<1> USE DEF ReachableInv, Window
<1>0. DropInv' /\ TypeOK
  BY DropStep DEF DropInv, TypeInv
<1>1. CASE StartPass \/ StartTeardown
  BY <1>0, <1>1 DEF StartPass, StartTeardown
<1>2. CASE Pass
  <2>1. pc \notin Window
    BY <1>2, PassFrame DEF PassStep
  <2>2. server'.database \in {server.database, "open"}
    <3>1. CASE Resolve \/ EnsureGroupRoles \/ ListExtensions \/ FindOrphans \/ Publish \/ Refuse
      BY <1>0, <3>1, ZenonT(60) DEF Resolve, EnsureGroupRoles, ListExtensions, FindOrphans, Publish, Refuse,
                        TypeOK, Server
    <3>2. CASE ApplyPrivileges
      BY <1>0, <3>2 DEF ApplyPrivileges, TypeOK, Server
    <3>4. CASE EnsureDatabase
      BY <1>0, <3>4 DEF EnsureDatabase, TypeOK, Server
    <3>3. CASE EnsureSchema \/ EnsureExtension \/ DropOrphan
      BY <1>0, <3>3, ZenonT(60) DEF EnsureSchema, EnsureExtension, DropOrphan, TypeOK, Server
    <3> QED
      BY <1>2, <3>1, <3>2, <3>3, <3>4 DEF Pass
  <2> QED
    BY <1>0, <2>1, <2>2
<1>3. CASE Teardown
  <2>1. CASE CheckReplications \/ FindDatabase \/ SkipTeardown \/ Finish
    BY <1>0, <2>1 DEF CheckReplications, FindDatabase, SkipTeardown, Finish, Step
  <2>2. CASE CloseDatabase \/ DropRefused
    BY <1>0, <2>2 DEF CloseDatabase, DropRefused, Step
  <2>3. CASE EvictSessions
    BY <1>0, <2>3 DEF EvictSessions, Step
  <2>4. CASE DropDatabase
    <3>1. server'.database = "absent"
      BY <1>0, <2>4 DEF DropDatabase, NoDatabase, TypeOK, Server
    <3> QED
      BY <1>0, <3>1
  <2>5. CASE Reopen
    <3>1. server'.database # "closed"
      BY <1>0, <2>5 DEF Reopen, TypeOK, Server
    <3> QED
      BY <1>0, <3>1
  <2>6. CASE DropGroupRole
    <3>1. server'.database = server.database /\ pc = "drop roles"
      BY <1>0, <2>6, ZenonT(60) DEF DropGroupRole, Step, TypeOK, Server
    <3> QED
      BY <1>0, <3>1
  <2> QED
    BY <1>3, <2>1, <2>2, <2>3, <2>4, <2>5, <2>6 DEF Teardown
<1>4. CASE Break \/ Stop
  <2>1. server' = server /\ (pc \in Window => pc' = "reopen")
    BY <1>4 DEF Break, Stop
  <2> QED
    BY <1>0, <2>1
<1>5. CASE Clients \/ Meddle
  <2>1. pc' = pc
    BY <1>5 DEF Clients, Meddle
  <2> QED
    BY <1>0, <1>5, <2>1, OthersBringNothing
<1>6. CASE Edit \/ Delete \/ Replicate
  BY <1>0, <1>6 DEF Edit, Delete, Replicate
<1>7. CASE Gone \/ UNCHANGED vars
  BY <1>0, <1>7 DEF Gone, vars
<1>8. CASE Abandon
  <2>1. server' = server /\ pc \notin Window
    BY <1>8 DEF Abandon
  <2> QED
    BY <1>0, <2>1
<1> QED
  BY <1>1, <1>2, <1>3, <1>4, <1>5, <1>6, <1>7, <1>8 DEF Next, Operator, Others

\* A retained database can be connected to, also after a drop that was begun
\* and refused, if the process is not stopped while the database is closed and
\* the statement that opens it again succeeds.
THEOREM NeverLeftClosed ==
  ASSUME Stops \cap Window = {}, "reopen" \notin Breaks
  PROVE  Spec => []RetainedReachable
<1>1. Init => ReachableInv
  <2>1. Init => server.database = "absent"
    BY DEF Init
  <2> QED
    BY <2>1, DropInit DEF ReachableInv
<1>2. ReachableInv => RetainedReachable
  BY DEF ReachableInv, DropInv, Deleting, Window, RetainedReachable
<1>3. ReachableInv /\ [Next]_vars => ReachableInv'
  BY ReachableStep
<1> QED
  BY <1>1, <1>2, <1>3, PTL DEF Spec

-----------------------------------------------------------------------------
(***************************************************************************)
(* 5  No database is dropped under a replication: what the finalizer found *)
(* stays true, because nothing is declared on a database being deleted.    *)
(***************************************************************************)

IntactInv ==
  /\ DropInv
  /\ pc \in {"find", "close", "evict", "drop database"} => replication = "none"
  /\ ReplicationIntact

LEMMA IntactStep ==
  ASSUME "late replication" \notin Meddling, IntactInv, [Next]_vars
  PROVE  IntactInv'
<1> USE DEF IntactInv, ReplicationIntact
<1>0. DropInv' /\ TypeOK
  BY DropStep DEF DropInv, TypeInv
<1>1. CASE StartPass \/ StartTeardown
  BY <1>0, <1>1 DEF StartPass, StartTeardown
<1>2. CASE Pass
  <2>1. replication' = replication /\ pc' \in PassStep \cup {"idle"}
    BY <1>2, PassFrame DEF Pass, Resolve, EnsureGroupRoles, EnsureDatabase, ApplyPrivileges,
         EnsureSchema, ListExtensions, EnsureExtension, FindOrphans, DropOrphan, Publish, Refuse
  <2> QED
    BY <1>0, <2>1 DEF PassStep
<1>3. CASE CheckReplications
  <2>1. /\ replication' = replication
        /\ pc' = "idle" \/ replication \notin {"declared", "attached"}
    BY <1>3 DEF CheckReplications, Idle
  <2> QED
    BY <1>0, <2>1 DEF TypeOK
<1>4. CASE Teardown /\ ~CheckReplications
  BY <1>0, <1>4 DEF Teardown, FindDatabase, SkipTeardown, CloseDatabase, EvictSessions,
       DropDatabase, DropRefused, Reopen, DropGroupRole, Finish, Step, Idle
<1>5. CASE Abandon \/ Break \/ Stop
  BY <1>0, <1>5 DEF Abandon, Break, Stop, Idle
<1>6. CASE Edit \/ Delete \/ Clients
  BY <1>0, <1>6 DEF Edit, Delete, Clients
<1>7. CASE Replicate
  BY <1>0, <1>7 DEF Replicate
<1>8. CASE Meddle
  <2>1. pc' = pc /\ (replication' = replication \/ (replication' = "declared" /\ ~spec.deleting))
    BY <1>8 DEF Meddle, MeddleAround
  <2> QED
    BY <1>0, <2>1 DEF DropInv, Deleting, TeardownStep
<1>9. CASE Gone \/ UNCHANGED vars
  BY <1>0, <1>9 DEF Gone, vars
<1> QED
  BY <1>1, <1>2, <1>3, <1>4, <1>5, <1>6, <1>7, <1>8, <1>9 DEF Next, Operator, Others

\* The finalizer drops no database that a replication has an end in, if none is
\* declared on it once its deletion has begun.
THEOREM NotUnderReplication ==
  ASSUME "late replication" \notin Meddling
  PROVE  Spec => []ReplicationIntact
<1>1. Init => IntactInv
  BY DropInit DEF Init, IntactInv, ReplicationIntact
<1>2. IntactInv => ReplicationIntact
  BY DEF IntactInv
<1>3. IntactInv /\ [Next]_vars => IntactInv'
  BY IntactStep
<1> QED
  BY <1>1, <1>2, <1>3, PTL DEF Spec

-----------------------------------------------------------------------------
(***************************************************************************)
(* 6  Orphans are tracked.  The property speaks of the end of a pass; what *)
(* carries it is that every object the operator made is named by status or *)
(* by the spec, so that the pass that reads both finds it.                 *)
(***************************************************************************)

\* The objects a pass may have to drop one day.
Mine == {o \in Object \ Baseline : server.live[o] = "operator"}

Current == pc \in PassStep => body.wants = spec.wants /\ body.managed = managed
OnRecord == Mine \subseteq managed \cup spec.wants
Making == pc \in {"schemas", "extensions"} => result.todo \subseteq body.wants
Dropping == pc = "drop" => Mine \subseteq body.wants \cup result.todo \cup result.orphaned
Tracked == pc = "idle" /\ outcome = "ok" => Mine \subseteq managed

TrackInv == TypeInv /\ Current /\ OnRecord /\ Making /\ Dropping /\ Tracked

LEMMA TrackPass ==
  ASSUME TrackInv, Pass
  PROVE  (Current /\ OnRecord /\ Making /\ Dropping /\ Tracked)'
<1> USE DEF TrackInv, Current, OnRecord, Making, Dropping, Tracked
<1>0. TypeOK
  BY DEF TypeInv
<1>1. CASE Resolve \/ EnsureGroupRoles
  <2>1. Mine' = Mine
    BY <1>0, <1>1 DEF Resolve, EnsureGroupRoles, Mine, TypeOK, Server
  <2> QED
    BY <1>1, <2>1 DEF Resolve, EnsureGroupRoles, Step, PassStep
<1>2. CASE EnsureDatabase
  <2>1. Mine' \subseteq Mine
    <3>1. CASE server' = server
      BY <3>1 DEF Mine
    <3>2. CASE server' = [server EXCEPT !.database = "open",
                 !.live = [o \in Object |-> IF o \in Template THEN "other" ELSE "absent"]]
      <4>1. server'.live = [o \in Object |-> IF o \in Template THEN "other" ELSE "absent"]
        BY <1>0, <3>2 DEF TypeOK, Server
      <4> QED
        BY <4>1 DEF Mine
    <3> QED
      BY <1>2, <3>1, <3>2 DEF EnsureDatabase
  <2> QED
    BY <1>2, <2>1 DEF EnsureDatabase, Step, PassStep
<1>3. CASE ApplyPrivileges
  <2>1. Mine' = Mine
    BY <1>0, <1>3 DEF ApplyPrivileges, Mine, TypeOK, Server
  <2>2. result'.todo = body.wants \cap Schema
    BY <1>0, <1>3 DEF ApplyPrivileges, TypeOK, Result
  <2> QED
    BY <1>3, <2>1, <2>2 DEF ApplyPrivileges, Step, PassStep
<1>4. CASE EnsureSchema \/ EnsureExtension
  <2>1. PICK o \in result.todo :
          /\ result' = [result EXCEPT !.todo = @ \ {o}]
          /\ server'.live = [server.live EXCEPT ![o] = IF @ = "absent" THEN "operator" ELSE @]
    BY <1>0, <1>4, ZenonT(60) DEF EnsureSchema, EnsureExtension, TypeOK, Server
  <2>2. Mine' \subseteq Mine \cup {o}
    BY <1>0, <2>1 DEF Mine, TypeOK, Server
  <2>3. o \in spec.wants /\ result'.todo \subseteq result.todo
    BY <1>0, <1>4, <2>1 DEF EnsureSchema, EnsureExtension, Step, PassStep, TypeOK, Result
  <2>4. pc' = pc /\ pc \in {"schemas", "extensions"} /\ UNCHANGED <<spec, managed, body>>
    BY <1>4 DEF EnsureSchema, EnsureExtension, Step
  <2> QED
    BY <2>2, <2>3, <2>4 DEF PassStep
<1>5. CASE ListExtensions
  <2>1. Mine' = Mine
    BY <1>5 DEF ListExtensions, Mine
  <2>2. result'.todo = (body.wants \cap Extension \cap Available) \ Live
    BY <1>0, <1>5 DEF ListExtensions, TypeOK, Result
  <2> QED
    BY <1>5, <2>1, <2>2 DEF ListExtensions, Step, PassStep
<1>6. CASE FindOrphans
  <2>1. Mine' = Mine
    BY <1>6 DEF FindOrphans, Mine
  <2>2. result'.todo = Orphans \/ result'.orphaned = Orphans
    BY <1>0, <1>6 DEF FindOrphans, TypeOK, Result
  <2>3. Mine \subseteq body.managed \cup body.wants
    BY <1>6 DEF FindOrphans, Step, PassStep
  <2>4. Mine \subseteq Live /\ Mine \cap Baseline = {}
    BY DEF Mine, Live
  <2>5. Mine \subseteq body.wants \cup Orphans
    BY <2>3, <2>4 DEF Orphans
  <2> QED
    BY <1>6, <2>1, <2>2, <2>5 DEF FindOrphans, Step, PassStep
<1>7. CASE DropOrphan
  <2>1. PICK o \in result.todo :
          /\ result' = [result EXCEPT !.todo = @ \ {o}]
          /\ server' = [server EXCEPT !.granted = @ \ {o},
               !.live = [x \in Object |-> IF x \in DroppedWith(o) THEN "absent" ELSE @[x]]]
    BY <1>7 DEF DropOrphan
  <2>2. server'.live = [x \in Object |-> IF x \in DroppedWith(o) THEN "absent" ELSE server.live[x]]
    BY <1>0, <2>1 DEF TypeOK, Server
  <2>3. Mine' \subseteq Mine \ {o}
    BY <2>2 DEF Mine, DroppedWith
  <2>4. result'.todo = result.todo \ {o} /\ result'.orphaned = result.orphaned
    BY <1>0, <2>1 DEF TypeOK, Result
  <2> QED
    BY <1>7, <2>3, <2>4 DEF DropOrphan, Step, PassStep
<1>8. CASE Publish
  <2>1. Mine' = Mine
    BY <1>8 DEF Publish, Mine
  <2>2. managed' = body.wants \cup result.orphaned /\ Mine \subseteq managed'
    BY <1>8 DEF Publish
  <2> QED
    BY <1>8, <2>1, <2>2 DEF Publish, Idle, PassStep
<1>9. CASE Refuse
  <2>1. Mine' = Mine
    BY <1>9 DEF Refuse, Mine
  <2> QED
    BY <1>9, <2>1 DEF Refuse, Idle, PassStep
<1> QED
  BY <1>1, <1>2, <1>3, <1>4, <1>5, <1>6, <1>7, <1>8, <1>9 DEF Pass

\* The finalizer and others make nothing in the operator's name.
LEMMA OnlyPassesMake ==
  ASSUME TypeOK, Teardown \/ Clients \/ Meddle
  PROVE  Mine' \subseteq Mine
<1> USE DEF TypeOK, Server
<1>1. CASE Teardown
  <2>1. CASE DropDatabase
    <3>1. server'.live = [o \in Object |-> "absent"]
      BY <2>1 DEF DropDatabase, NoDatabase, Nothing
    <3> QED
      BY <3>1 DEF Mine
  <2>2. CASE CheckReplications \/ FindDatabase \/ SkipTeardown \/ DropRefused \/ Finish
    BY <2>2 DEF CheckReplications, FindDatabase, SkipTeardown, DropRefused, Finish, Mine
  <2>3. CASE CloseDatabase \/ EvictSessions \/ Reopen \/ DropGroupRole
    <3>1. server'.live = server.live
      BY <2>3, ZenonT(60) DEF CloseDatabase, EvictSessions, Reopen, DropGroupRole
    <3> QED
      BY <3>1 DEF Mine
  <2> QED
    BY <1>1, <2>1, <2>2, <2>3 DEF Teardown
<1>2. CASE Clients
  <2>1. server'.live = server.live
    BY <1>2 DEF Clients
  <2> QED
    BY <2>1 DEF Mine
<1>3. CASE Meddle
  <2>1. CASE server' = server
    BY <2>1 DEF Mine
  <2>2. CASE server' = NoDatabase
    <3>1. server'.live = [o \in Object |-> "absent"]
      BY <2>2 DEF NoDatabase, Nothing
    <3> QED
      BY <3>1 DEF Mine
  <2>3. ASSUME NEW o \in Object, NEW by \in {"other", "absent"},
               server'.live = [server.live EXCEPT ![o] = by]
        PROVE  Mine' \subseteq Mine
    BY <2>3 DEF Mine
  <2>4. CASE server'.live = server.live
    BY <2>4 DEF Mine
  <2>5. \/ server' = server \/ server' = NoDatabase \/ server'.live = server.live
        \/ \E o \in Object, by \in {"other", "absent"} :
             server'.live = [server.live EXCEPT ![o] = by]
    <3>1. Live \subseteq Object
      BY DEF Live
    <3>2. ASSUME NEW o \in Object,
                 \/ server' = [server EXCEPT !.live[o] = "other"]
                 \/ server' = [server EXCEPT !.live[o] = "absent", !.granted = @ \ {o}]
          PROVE  \E by \in {"other", "absent"} : server'.live = [server.live EXCEPT ![o] = by]
      BY <3>2
    <3>3. ASSUME NEW r \in server.roles, NEW use \in {"owns", "privileges"},
                 \/ server' = [server EXCEPT !.roles = @ \ {r}, !.granted = {}, !.connect = FALSE]
                 \/ server' = [server EXCEPT !.elsewhere[r] = use]
                 \/ server' = [server EXCEPT !.sessions = @ \cup {"foreign"}]
          PROVE  server'.live = server.live
      BY <3>3
    <3>4. CASE server' = [server EXCEPT !.sessions = @ \cup {"foreign"}]
      BY <3>4
    <3> HIDE DEF TypeOK, Server
    <3> QED
      BY <1>3, <3>1, <3>2, <3>3, <3>4, ZenonT(60) DEF Meddle, MeddleWithServer
  <2> QED
    BY <2>1, <2>2, <2>3, <2>4, <2>5
<1> QED
  BY <1>1, <1>2, <1>3

LEMMA TrackOthers ==
  ASSUME TrackInv, ~Hasty, StartPass \/ StartTeardown \/ Teardown \/ Others
  PROVE  (Current /\ OnRecord /\ Making /\ Dropping /\ Tracked)'
<1> USE DEF TrackInv, Current, OnRecord, Making, Dropping, Tracked
<1>0. TypeOK
  BY DEF TypeInv
<1>1. CASE StartPass
  <2>1. Mine' = Mine
    BY <1>1 DEF StartPass, Mine
  <2> QED
    BY <1>1, <2>1 DEF StartPass
<1>2. CASE StartTeardown
  <2>1. Mine' = Mine
    BY <1>2 DEF StartTeardown, Mine
  <2>2. /\ spec'.wants = spec.wants /\ managed' = managed
        /\ pc' \in {"idle", "check"} /\ outcome' = "none"
    BY <1>0, <1>2 DEF StartTeardown, TypeOK
  <2> QED
    BY <2>1, <2>2 DEF PassStep
<1>3. CASE Teardown
  <2>1. Mine' \subseteq Mine
    BY <1>0, <1>3, OnlyPassesMake
  <2>2. /\ spec'.wants = spec.wants /\ managed' = managed
        /\ pc' \in TeardownStep \/ (pc' = "idle" /\ outcome' # "ok")
    BY <1>0, <1>3 DEF Teardown, CheckReplications, FindDatabase, SkipTeardown, CloseDatabase,
         EvictSessions, DropDatabase, DropRefused, Reopen, DropGroupRole, Finish, Step, Idle,
         TypeOK, TeardownStep
  <2> QED
    BY <2>1, <2>2 DEF PassStep, TeardownStep
<1>4. CASE Break \/ Stop
  <2>1. Mine' = Mine
    BY <1>4 DEF Break, Stop, Mine
  <2>2. /\ UNCHANGED <<spec, managed>>
        /\ pc' = "reopen" \/ (pc' = "idle" /\ outcome' = "failed")
    BY <1>4 DEF Break, Stop, Idle
  <2> QED
    BY <2>1, <2>2 DEF PassStep
<1>5. CASE Edit
  <2>1. Mine' = Mine /\ UNCHANGED <<managed, body, pc, outcome, result>>
    BY <1>5 DEF Edit, Mine
  <2>2. spec'.wants = spec.wants \/ (pc = "idle" /\ outcome = "ok")
    BY <1>0, <1>5 DEF Edit, TypeOK
  <2> QED
    BY <2>1, <2>2 DEF PassStep
<1>6. CASE Delete
  <2>1. Mine' = Mine /\ spec'.wants = spec.wants
    BY <1>0, <1>6 DEF Delete, Mine, TypeOK
  <2> QED
    BY <1>6, <2>1 DEF Delete
<1>7. CASE Clients \/ Meddle
  <2>1. Mine' \subseteq Mine
    BY <1>0, <1>7, OnlyPassesMake
  <2>2. UNCHANGED <<spec, managed, pc, body, result, outcome>>
    BY <1>7 DEF Clients, Meddle
  <2> QED
    BY <2>1, <2>2
<1>8. CASE Replicate
  <2>1. Mine' = Mine
    BY <1>8 DEF Replicate, Mine
  <2> QED
    BY <1>8, <2>1 DEF Replicate
<1>9. CASE Abandon
  <2>1. Mine' = Mine
    BY <1>9 DEF Abandon, Mine
  <2>2. /\ spec'.wants = spec.wants /\ managed' = managed
        /\ pc' = "idle" /\ outcome' = "abandoned"
    BY <1>0, <1>9 DEF Abandon, Idle, TypeOK
  <2> QED
    BY <2>1, <2>2 DEF PassStep
<1> QED
  BY <1>1, <1>2, <1>3, <1>4, <1>5, <1>6, <1>7, <1>8, <1>9 DEF Others

LEMMA TrackStep ==
  ASSUME ~Hasty, TrackInv, [Next]_vars
  PROVE  TrackInv'
<1>0. TypeInv'
  BY TypeStep DEF TrackInv
<1>1. CASE Pass
  BY <1>0, <1>1, TrackPass DEF TrackInv
<1>2. CASE StartPass \/ StartTeardown \/ Teardown \/ Others
  BY <1>0, <1>2, TrackOthers DEF TrackInv
<1>3. CASE Gone \/ UNCHANGED vars
  BY <1>0, <1>3 DEF Gone, vars, TrackInv, Current, OnRecord, Making, Dropping, Tracked, Mine
<1> QED
  BY <1>1, <1>2, <1>3 DEF Next, Operator

\* After a successful pass status names every object the operator made, if each
\* edit of the objects waits for the last one to converge; the retention policy
\* may change at any time.
THEOREM NoOrphanForgotten ==
  ASSUME ~Hasty
  PROVE  Spec => []OrphansTracked
<1>1. Init => TrackInv
  <2> SUFFICES ASSUME Init PROVE TrackInv
    OBVIOUS
  <2>1. Mine = {}
    BY DEF Init, Mine, Nothing
  <2> QED
    BY <2>1, TypeInit DEF Init, TrackInv, Current, OnRecord, Making, Dropping, Tracked, PassStep
<1>2. TrackInv => OrphansTracked
  BY DEF TrackInv, Tracked, Mine, OrphansTracked
<1>3. TrackInv /\ [Next]_vars => TrackInv'
  BY TrackStep
<1> QED
  BY <1>1, <1>2, <1>3, PTL DEF Spec

-----------------------------------------------------------------------------
(***************************************************************************)
(* 7  What a pass drops was declared once.                                 *)
(***************************************************************************)

DeclaredInv ==
  /\ TypeInv
  /\ spec.wants \cup body.wants \cup managed \cup body.managed \cup result.orphaned
       \subseteq declared
  /\ pc = "drop" => result.todo \subseteq declared \ Baseline
  /\ server.database = "absent" => server.live = Nothing

LEMMA DeclaredByPass ==
  ASSUME DeclaredInv, Pass
  PROVE  /\ result'.orphaned \subseteq declared
         /\ managed' \subseteq declared
         /\ pc' = "drop" => result'.todo \subseteq declared \ Baseline
<1> USE DEF DeclaredInv
<1>0. TypeOK
  BY DEF TypeInv
<1>1. CASE Resolve \/ EnsureGroupRoles \/ EnsureDatabase
  BY <1>1 DEF Resolve, EnsureGroupRoles, EnsureDatabase, Step
<1>2. CASE ApplyPrivileges \/ ListExtensions
  <2>1. result'.orphaned = result.orphaned
    BY <1>0, <1>2 DEF ApplyPrivileges, ListExtensions, TypeOK, Result
  <2> QED
    BY <1>2, <2>1 DEF ApplyPrivileges, ListExtensions, Step
<1>3. CASE EnsureSchema \/ EnsureExtension \/ DropOrphan
  <2>1. PICK o \in result.todo : result' = [result EXCEPT !.todo = @ \ {o}]
    BY <1>3 DEF EnsureSchema, EnsureExtension, DropOrphan
  <2>2. result'.orphaned = result.orphaned /\ result'.todo \subseteq result.todo
    BY <1>0, <2>1 DEF TypeOK, Result
  <2>3. managed' = managed /\ (pc' = "drop" => pc = "drop")
    BY <1>3 DEF EnsureSchema, EnsureExtension, DropOrphan, Step
  <2> QED
    BY <2>2, <2>3
<1>4. CASE FindOrphans
  <2>1. Orphans \subseteq declared \ Baseline
    BY DEF Orphans
  <2>2. \/ result'.todo = Orphans /\ result'.orphaned = result.orphaned
        \/ result'.todo = {} /\ result'.orphaned = Orphans
    BY <1>0, <1>4 DEF FindOrphans, TypeOK, Result
  <2> QED
    BY <1>4, <2>1, <2>2 DEF FindOrphans, Step
<1>5. CASE Publish \/ Refuse
  <2>1. result' = NoResult /\ pc' = "idle"
    BY <1>5 DEF Publish, Refuse, Idle
  <2>2. managed' \in {managed, body.wants \cup result.orphaned}
    BY <1>5 DEF Publish, Refuse
  <2> QED
    BY <2>1, <2>2 DEF NoResult
<1> QED
  BY <1>1, <1>2, <1>3, <1>4, <1>5 DEF Pass

\* There are no objects without a database.
LEMMA NothingWithoutDatabase ==
  ASSUME DeclaredInv, [Next]_vars, server'.database = "absent"
  PROVE  server'.live = Nothing
<1> USE DEF DeclaredInv
<1>0. server \in Server
  BY DEF TypeInv, TypeOK
<1> USE DEF Server
<1>1. CASE server' = server
  BY <1>1
<1>2. CASE server' = NoDatabase
  BY <1>0, <1>2 DEF NoDatabase
<1>3. CASE server'.database = server.database /\ server'.live = server.live
  BY <1>3
<1>4. CASE server.database = "open"
  <2>1. CASE Pass
    BY <1>0, <1>4, <2>1, ZenonT(60) DEF Pass, Resolve, EnsureGroupRoles, EnsureDatabase, ApplyPrivileges,
         EnsureSchema, ListExtensions, EnsureExtension, FindOrphans, DropOrphan, Publish, Refuse
  <2>2. CASE Teardown
    BY <1>0, <1>2, <1>4, <2>2 DEF Teardown, CheckReplications, FindDatabase, SkipTeardown,
         CloseDatabase, EvictSessions, DropDatabase, DropRefused, Reopen, DropGroupRole, Finish
  <2>3. CASE ~Pass /\ ~Teardown
    BY <1>0, <1>1, <1>2, <1>4, <2>3, ZenonT(60) DEF Next, Operator, Others, StartPass, StartTeardown, Abandon,
         Break, Stop, Edit, Delete, Clients, Replicate, Meddle, MeddleWithServer, Gone, vars
  <2> QED
    BY <2>1, <2>2, <2>3
<1>5. CASE server.database # "open"
  <2>1. CASE Pass
    BY <1>0, <1>1, <1>5, <2>1 DEF Pass, Resolve, EnsureGroupRoles, EnsureDatabase,
         ApplyPrivileges, EnsureSchema, ListExtensions, EnsureExtension, FindOrphans,
         DropOrphan, Publish, Refuse
  <2>2. CASE Teardown
    BY <1>0, <1>2, <1>5, <2>2, ZenonT(60) DEF Teardown, CheckReplications, FindDatabase, SkipTeardown,
         CloseDatabase, EvictSessions, DropDatabase, DropRefused, Reopen, DropGroupRole, Finish
  <2>3. CASE ~Pass /\ ~Teardown
    BY <1>0, <1>1, <1>2, <1>5, <2>3, ZenonT(60) DEF Next, Operator, Others, StartPass, StartTeardown, Abandon,
         Break, Stop, Edit, Delete, Clients, Replicate, Meddle, MeddleWithServer, Gone, vars
  <2> QED
    BY <2>1, <2>2, <2>3
<1> QED
  BY <1>4, <1>5

LEMMA DeclaredStep == DeclaredInv /\ [Next]_vars => DeclaredInv'
<1> SUFFICES ASSUME DeclaredInv, [Next]_vars PROVE DeclaredInv'
  OBVIOUS
<1> USE DEF DeclaredInv
<1>0. TypeInv' /\ TypeOK
  BY TypeStep DEF TypeInv
<1>1. server'.database = "absent" => server'.live = Nothing
  BY NothingWithoutDatabase
<1>2. CASE Pass
  <2>1. UNCHANGED <<spec, body, declared>>
    BY <1>2, PassFrame
  <2> QED
    BY <1>0, <1>1, <1>2, <2>1, DeclaredByPass
<1>3. CASE StartPass
  BY <1>0, <1>1, <1>3 DEF StartPass
<1>4. CASE StartTeardown
  <2>1. spec'.wants = spec.wants /\ body'.wants = body.wants /\ body'.managed = body.managed
    BY <1>0, <1>4 DEF StartTeardown, TypeOK, Body
  <2> QED
    BY <1>0, <1>1, <1>4, <2>1 DEF StartTeardown
<1>5. CASE Teardown
  <2>1. spec'.wants = spec.wants /\ UNCHANGED <<body, managed, declared>> /\ pc' # "drop"
    BY <1>0, <1>5 DEF Teardown, CheckReplications, FindDatabase, SkipTeardown, CloseDatabase,
         EvictSessions, DropDatabase, DropRefused, Reopen, DropGroupRole, Finish, Step, Idle,
         TypeOK
  <2>2. \/ result' \in {result, NoResult}
        \/ \E R \in SUBSET GroupRole : result' = [result EXCEPT !.roles = R]
    <3>1. CASE DropGroupRole
      <4>1. PICK r \in result.roles : result' = [result EXCEPT !.roles = result.roles \ {r}]
        BY <3>1 DEF DropGroupRole
      <4>2. result.roles \ {r} \in SUBSET GroupRole
        BY <1>0 DEF TypeOK, Result
      <4> QED
        BY <4>1, <4>2
    <3>2. CASE FindDatabase
      BY <3>2 DEF FindDatabase
    <3>3. CASE Teardown /\ ~DropGroupRole /\ ~FindDatabase
      BY <3>3 DEF Teardown, CheckReplications, SkipTeardown, CloseDatabase, EvictSessions,
                  DropDatabase, DropRefused, Reopen, Finish, Idle
    <3> QED
      BY <1>5, <3>1, <3>2, <3>3
  <2>3. result'.orphaned \in {result.orphaned, {}}
    BY <1>0, <2>2 DEF TypeOK, NoResult, Result
  <2> QED
    BY <1>0, <1>1, <2>1, <2>3
<1>6. CASE Break \/ Stop
  <2>1. UNCHANGED <<spec, body, managed, declared>> /\ pc' # "drop" /\ result' \in {result, NoResult}
    BY <1>6 DEF Break, Stop, Idle
  <2> QED
    BY <1>0, <1>1, <2>1 DEF NoResult
<1>7. CASE Edit
  BY <1>0, <1>1, <1>7 DEF Edit
<1>8. CASE Delete
  <2>1. spec'.wants = spec.wants
    BY <1>0, <1>8 DEF Delete, TypeOK
  <2> QED
    BY <1>0, <1>1, <1>8, <2>1 DEF Delete
<1>9. CASE Clients \/ Replicate \/ Meddle
  BY <1>0, <1>1, <1>9 DEF Clients, Replicate, Meddle
<1>10. CASE Gone \/ UNCHANGED vars
  BY <1>0, <1>1, <1>10 DEF Gone, vars
<1>11. CASE Abandon
  <2>1. /\ spec'.wants = spec.wants /\ body'.wants = body.wants /\ body'.managed = body.managed
        /\ UNCHANGED <<managed, declared>> /\ pc' = "idle" /\ result' = NoResult
    BY <1>0, <1>11 DEF Abandon, Idle, TypeOK, Body
  <2> QED
    BY <1>0, <1>1, <2>1 DEF NoResult
<1> QED
  BY <1>2, <1>3, <1>4, <1>5, <1>6, <1>7, <1>8, <1>9, <1>10, <1>11 DEF Next, Operator, Others

LEMMA DropsDeclaredStep ==
  ASSUME \A e \in Extension : Home[e] = "none", DeclaredInv, [Next]_vars
  PROVE  DropsDeclared
<1> SUFFICES ASSUME NEW o \in Object, pc \in PassStep, pc' \in PassStep,
                    server'.database = "open", budget' = budget,
                    server.live[o] = "other", server'.live[o] = "absent"
             PROVE  o \in declared \ Baseline
  BY DEF DropsDeclared
<1>0. TypeOK /\ server' # server
  BY DEF DeclaredInv, TypeInv
<1>1. CASE DropOrphan
  <2>1. PICK x \in result.todo :
          server' = [server EXCEPT !.granted = @ \ {x},
            !.live = [y \in Object |-> IF y \in DroppedWith(x) THEN "absent" ELSE @[y]]]
    BY <1>1 DEF DropOrphan
  <2>2. o \in DroppedWith(x)
    BY <1>0, <2>1 DEF TypeOK, Server
  <2>3. x \in Object
    BY <1>0 DEF TypeOK, Result
  <2>4. o = x
    BY <2>2, <2>3, HomeIsSchema DEF DroppedWith
  <2> QED
    BY <1>1, <2>4 DEF DropOrphan, Step, DeclaredInv
<1>2. CASE EnsureDatabase
  <2>1. server.database = "absent"
    BY <1>0, <1>2 DEF EnsureDatabase
  <2> QED
    BY <2>1 DEF DeclaredInv, Nothing
<1>3. CASE EnsureGroupRoles \/ ApplyPrivileges
  BY <1>0, <1>3 DEF EnsureGroupRoles, ApplyPrivileges, TypeOK, Server
<1>4. CASE EnsureSchema \/ EnsureExtension
  <2>1. PICK x \in result.todo :
          server'.live = [server.live EXCEPT ![x] = IF @ = "absent" THEN "operator" ELSE @]
    BY <1>0, <1>4 DEF EnsureSchema, EnsureExtension, TypeOK, Server
  <2> QED
    BY <1>0, <2>1 DEF TypeOK, Server
<1>5. CASE Resolve \/ ListExtensions \/ FindOrphans \/ Publish \/ Refuse
  BY <1>0, <1>5 DEF Resolve, ListExtensions, FindOrphans, Publish, Refuse
<1>6. CASE StartPass \/ StartTeardown \/ Teardown
  BY <1>0, <1>6 DEF StartPass, StartTeardown, Teardown, CheckReplications, FindDatabase,
       SkipTeardown, CloseDatabase, EvictSessions, DropDatabase, DropRefused, Reopen,
       DropGroupRole, Finish, Step, PassStep
<1>7. CASE Abandon \/ Break \/ Stop \/ Edit \/ Delete \/ Replicate \/ Gone \/ UNCHANGED vars
  BY <1>0, <1>7 DEF Abandon, Break, Stop, Edit, Delete, Replicate, Gone, vars
<1>8. CASE Clients
  BY <1>0, <1>8 DEF Clients, TypeOK, Server
<1>9. CASE Meddle
  <2>1. budget'.meddling = budget.meddling + 1 /\ budget.meddling \in Nat
    BY <1>0, <1>9 DEF Meddle, TypeOK
  <2> QED
    BY <2>1
<1> QED
  BY <1>1, <1>2, <1>3, <1>4, <1>5, <1>6, <1>7, <1>8, <1>9 DEF Next, Operator, Others, Pass

\* A pass drops an object that others made only if a spec once declared it,
\* where no extension lives in a schema that may be dropped.
THEOREM OnlyDeclaredObjectsDropped ==
  ASSUME \A e \in Extension : Home[e] = "none"
  PROVE  Spec => OnlyDeclaredDropped
<1>1. Init => DeclaredInv
  <2> SUFFICES ASSUME Init PROVE DeclaredInv
    OBVIOUS
  <2>1. server.live = Nothing
    BY DEF Init
  <2> QED
    BY <2>1, TypeInit DEF Init, DeclaredInv, NoResult
<1>2. DeclaredInv /\ [Next]_vars => [DropsDeclared]_vars
  BY DropsDeclaredStep
<1> QED
  BY <1>1, <1>2, DeclaredStep, PTL DEF Spec, OnlyDeclaredDropped
=============================================================================
