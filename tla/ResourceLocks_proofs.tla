------------------------- MODULE ResourceLocks_proofs -------------------------
(***************************************************************************)
(* What the locks that the passes share protect.                           *)
(*                                                                         *)
(*   1  mutual exclusion and exact reference counts of ResourceLocks, for  *)
(*      any finite set of tasks and any sets of keys and lock objects      *)
(*   2  ResourceLocks implements the safety part of OnePass                *)
(*   3  NoPoolLost of ConnectionPools, whose passes share one lock more    *)
(*                                                                         *)
(* Mutual exclusion is not inductive.  What makes it so is that all users  *)
(* of a key share the entry's lock object (SharedLock), which holds only   *)
(* because the count is exact (CountsUsers): an entry is never deleted     *)
(* while a task still queues on its lock.                                  *)
(***************************************************************************)
EXTENDS ResourceLocks, ConnectionPools, FiniteSetTheorems, TLAPS

\* The part of TypeOK the argument needs: it never looks into the queues.
Types ==
  /\ table \in [Key -> Entry \cup {NoEntry}]
  /\ owner \in [Lock -> Task \cup {NoTask}]
  /\ task \in [Task -> Local]

\* Whoever uses a key uses the lock its entry names.
SharedLock ==
  \A t \in Task : task[t].phase # "outside" =>
    /\ InTable(task[t].key)
    /\ table[task[t].key].lock = task[t].lock

\* Being inside is owning the lock.
InsideOwns ==
  \A t \in Task : task[t].phase = "inside" => owner[task[t].lock] = t

IInv == Types /\ SharedLock /\ InsideOwns /\ CountsUsers

-----------------------------------------------------------------------------
LEMMA UsersFinite == \A k \in Key : IsFiniteSet(Users(k))
  BY FiniteTasks, FS_Subset DEF Users

LEMMA EntryFields ==
  ASSUME Types, NEW k \in Key, InTable(k)
  PROVE  table[k] \in Entry /\ table[k].lock \in Lock /\ table[k].holders \in Nat
  BY DEF Types, InTable, Entry

LEMMA InitIInv == Init => IInv
<1> SUFFICES ASSUME Init PROVE IInv
  OBVIOUS
<1>1. Types
  BY DEF Init, Types, Local, Phase
<1>2. \A t \in Task : task[t].phase = "outside"
  BY DEF Init
<1>3. SharedLock /\ InsideOwns
  BY <1>2 DEF SharedLock, InsideOwns
<1>4. CountsUsers
  BY <1>2 DEF Init, CountsUsers, InTable, Users
<1> QED
  BY <1>1, <1>3, <1>4 DEF IInv

-----------------------------------------------------------------------------
\* A task that enters hold() is one more user of its key.
LEMMA RegisterIInv ==
  ASSUME IInv, NEW t \in Task, NEW k \in Key, Register(t, k)
  PROVE  IInv'
<1> USE DEF IInv
<1>1. PICK l \in Lock :
        /\ IF InTable(k) THEN l = table[k].lock ELSE Fresh(l)
        /\ table' = [table EXCEPT ![k] =
             [lock |-> l, holders |-> IF InTable(k) THEN table[k].holders + 1 ELSE 1]]
        /\ task' = [task EXCEPT ![t] = [phase |-> "waiting", key |-> k, lock |-> l]]
  BY DEF Register
<1>2. owner' = owner /\ task[t].phase = "outside"
  BY DEF Register
<1>3. table'[k] = [lock |-> l, holders |-> IF InTable(k) THEN table[k].holders + 1 ELSE 1]
  BY <1>1 DEF Types
<1>4. table'[k] \in Entry
  BY <1>3, EntryFields DEF Entry
<1>5. Types'
  BY <1>1, <1>2, <1>4 DEF Types, Local, Phase
<1>6. InTable(k)'
  BY <1>4, NoEntryIsNone DEF InTable, Entry
<1>7. \A j \in Key : j # k => table'[j] = table[j] /\ (InTable(j)' <=> InTable(j))
  BY <1>1 DEF Types, InTable
<1>8. task'[t] = [phase |-> "waiting", key |-> k, lock |-> l]
      /\ \A u \in Task : u # t => task'[u] = task[u]
  BY <1>1 DEF Types
<1>9. SharedLock'
  <2> SUFFICES ASSUME NEW u \in Task, task'[u].phase # "outside"
               PROVE  InTable(task[u].key)' /\ table'[task'[u].key].lock = task'[u].lock
    BY DEF SharedLock, InTable
  <2>1. CASE u = t
    BY <2>1, <1>3, <1>6, <1>8 DEF InTable
  <2>2. CASE u # t /\ task[u].key = k
    <3>1. InTable(k) /\ table[k].lock = task[u].lock
      BY <2>2, <1>8 DEF SharedLock
    <3> QED
      BY <3>1, <2>2, <1>1, <1>3, <1>6, <1>8 DEF InTable
  <2>3. CASE u # t /\ task[u].key # k
    BY <2>3, <1>7, <1>8 DEF SharedLock, Types, Local, InTable
  <2> QED
    BY <2>1, <2>2, <2>3
<1>10. InsideOwns'
  BY <1>2, <1>8 DEF InsideOwns
<1>11. CountsUsers'
  <2> SUFFICES ASSUME NEW j \in Key
               PROVE  IF InTable(j)'
                      THEN Users(j)' # {} /\ table'[j].holders = Cardinality(Users(j)')
                      ELSE Users(j)' = {}
    BY DEF CountsUsers
  <2>1. CASE j = k
    <3>1. Users(k)' = Users(k) \cup {t} /\ t \notin Users(k)
      BY <1>2, <1>8 DEF Users
    <3>2. Cardinality(Users(k)') = Cardinality(Users(k)) + 1
      BY <3>1, UsersFinite, FS_AddElement
    <3>3. table'[k].holders = Cardinality(Users(k)')
      <4>1. CASE InTable(k)
        <5>1. table[k].holders = Cardinality(Users(k))
          BY <4>1 DEF CountsUsers
        <5> QED
          BY <5>1, <4>1, <3>2, <1>3
      <4>2. CASE ~InTable(k)
        <5>1. Users(k) = {}
          BY <4>2 DEF CountsUsers
        <5> QED
          BY <5>1, <4>2, <3>2, <1>3, FS_EmptySet
      <4> QED
        BY <4>1, <4>2
    <3> QED
      BY <3>1, <3>3, <2>1, <1>6
  <2>2. CASE j # k
    <3>1. Users(j)' = Users(j)
      BY <2>2, <1>2, <1>8 DEF Users
    <3> QED
      BY <3>1, <2>2, <1>7 DEF CountsUsers
  <2> QED
    BY <2>1, <2>2
<1> QED
  BY <1>5, <1>9, <1>10, <1>11

\* Taking the lock changes neither the users nor the table.
LEMMA AcquireIInv ==
  ASSUME IInv, NEW t \in Task, Acquire(t)
  PROVE  IInv'
<1> USE DEF IInv
<1>1. /\ task[t].phase = "waiting" /\ owner[task[t].lock] = NoTask
      /\ owner' = [owner EXCEPT ![task[t].lock] = t]
      /\ task' = [task EXCEPT ![t].phase = "inside"]
      /\ table' = table
  BY DEF Acquire
<1>2. task[t] \in Local /\ task[t].lock \in Lock
  BY DEF Types, Local
<1>3. /\ task'[t] = [task[t] EXCEPT !.phase = "inside"]
      /\ \A u \in Task : u # t => task'[u] = task[u]
  BY <1>1 DEF Types
<1>4. Types'
  BY <1>1, <1>2, <1>3 DEF Types, Local, Phase
<1>5. task'[t].key = task[t].key /\ task'[t].lock = task[t].lock /\ task'[t].phase = "inside"
  BY <1>2, <1>3 DEF Local
<1>6. SharedLock'
  BY <1>1, <1>3, <1>5 DEF SharedLock, InTable
<1>7. InsideOwns'
  <2> SUFFICES ASSUME NEW u \in Task, task'[u].phase = "inside"
               PROVE  owner'[task'[u].lock] = u
    BY DEF InsideOwns
  <2>1. CASE u = t
    BY <2>1, <1>1, <1>2, <1>5 DEF Types
  <2>2. CASE u # t
    <3>1. owner[task[u].lock] = u /\ task[u].lock \in Lock
      BY <2>2, <1>3 DEF InsideOwns, Types, Local
    <3>2. task[u].lock # task[t].lock
      BY <3>1, <1>1, NoTaskIsNone
    <3> QED
      BY <2>2, <3>1, <3>2, <1>1, <1>3 DEF Types
  <2> QED
    BY <2>1, <2>2
<1>8. \A k \in Key : Users(k)' = Users(k)
  BY <1>1, <1>3, <1>5 DEF Users
<1>9. CountsUsers'
  BY <1>1, <1>8 DEF CountsUsers, InTable
<1> QED
  BY <1>4, <1>6, <1>7, <1>9

\* The finally clause: one user fewer, and the entry goes with the last one.
LEMMA ForgetIInv ==
  ASSUME IInv, NEW t \in Task,
         task[t].phase # "outside",
         Forget(task[t].key),
         task' = [task EXCEPT ![t].phase = "outside"],
         \/ owner' = owner
         \/ owner' = [owner EXCEPT ![task[t].lock] = NoTask] /\ task[t].phase = "inside"
  PROVE  IInv'
<1> USE DEF IInv
<1> DEFINE k == task[t].key
<1>1. task[t] \in Local /\ k \in Key /\ task[t].lock \in Lock
  BY DEF Types, Local
<1>2. InTable(k) /\ table[k].holders = Cardinality(Users(k)) /\ table[k].holders \in Nat
  BY <1>1, EntryFields DEF SharedLock, CountsUsers
<1>3. /\ task'[t].phase = "outside" /\ task'[t] \in Local
      /\ \A u \in Task : u # t => task'[u] = task[u]
  BY <1>1 DEF Types, Local, Phase
<1>4. t \in Users(k) /\ Users(k)' = Users(k) \ {t}
  BY <1>3 DEF Users
<1>5. Cardinality(Users(k)') = Cardinality(Users(k)) - 1
  BY <1>1, <1>4, UsersFinite, FS_RemoveElement
<1>6. IsFiniteSet(Users(k)')
  BY <1>1, <1>4, UsersFinite, FS_RemoveElement
<1>7. table'[k] = IF table[k].holders <= 1 THEN NoEntry
                  ELSE [table[k] EXCEPT !.holders = @ - 1]
  BY <1>1 DEF Forget, Types
<1>8. \A j \in Key : j # k => table'[j] = table[j]
  BY <1>1 DEF Forget, Types
<1>9. CASE table[k].holders <= 1
  <2>1. table'[k] = NoEntry /\ ~InTable(k)'
    BY <1>7, <1>9 DEF InTable
  <2>2. Cardinality(Users(k)) = 1
    <3>1. Cardinality(Users(k)) # 0
      BY <1>1, <1>4, UsersFinite, FS_EmptySet
    <3> QED
      BY <3>1, <1>2, <1>9
  <2>3. Users(k)' = {}
    BY <2>2, <1>5, <1>6, FS_EmptySet
  <2>4. Types'
    BY <2>1, <1>1, <1>3, <1>8 DEF Types, Forget
  <2>5. \A u \in Task : task'[u].phase # "outside" => task'[u] = task[u] /\ u # t /\ task[u].key # k
    BY <2>3, <1>3 DEF Users
  <2>6. SharedLock'
    BY <2>5, <1>8 DEF SharedLock, InTable, Types, Local
  <2>7. InsideOwns'
    <3> SUFFICES ASSUME NEW u \in Task, task'[u].phase = "inside"
                 PROVE  owner'[task'[u].lock] = u
      BY DEF InsideOwns
    <3>1. u # t /\ task'[u] = task[u] /\ owner[task[u].lock] = u /\ task[u].lock \in Lock
      BY <2>5 DEF InsideOwns, Types, Local
    <3> QED
      BY <3>1, <1>1 DEF InsideOwns, Types
  <2>8. \A j \in Key : j # k => Users(j)' = Users(j)
    BY <1>3 DEF Users
  <2>9. CountsUsers'
    BY <2>1, <2>3, <2>8, <1>8 DEF CountsUsers, InTable
  <2> QED
    BY <2>4, <2>6, <2>7, <2>9
<1>10. CASE ~(table[k].holders <= 1)
  <2>1. table'[k] = [table[k] EXCEPT !.holders = @ - 1] /\ table[k] \in Entry
    BY <1>1, <1>2, <1>7, <1>10, EntryFields
  <2>2. /\ table'[k] \in Entry /\ table'[k].lock = table[k].lock
        /\ table'[k].holders = table[k].holders - 1
    BY <2>1, <1>2, <1>10 DEF Entry
  <2>3. InTable(k)'
    BY <2>2, NoEntryIsNone DEF InTable, Entry
  <2>4. Types'
    BY <2>2, <1>1, <1>3, <1>8 DEF Types, Forget
  <2>5. SharedLock'
    <3> SUFFICES ASSUME NEW u \in Task, task'[u].phase # "outside"
                 PROVE  InTable(task[u].key)' /\ table'[task'[u].key].lock = task'[u].lock
      BY DEF SharedLock, InTable
    <3>1. u # t /\ task'[u] = task[u] /\ task[u].key \in Key
      BY <1>3 DEF Types, Local
    <3> QED
      BY <3>1, <2>2, <2>3, <1>8 DEF SharedLock, InTable
  <2>6. InsideOwns'
    <3> SUFFICES ASSUME NEW u \in Task, task'[u].phase = "inside"
                 PROVE  owner'[task'[u].lock] = u
      BY DEF InsideOwns
    <3>1. u # t /\ task'[u] = task[u] /\ owner[task[u].lock] = u /\ task[u].lock \in Lock
      BY <1>3 DEF InsideOwns, Types, Local
    <3> QED
      BY <3>1, <1>1 DEF InsideOwns, Types
  <2>7. Users(k)' # {}
    <3>1. Cardinality(Users(k)') # 0
      BY <1>2, <1>5, <1>10
    <3> QED
      BY <3>1, FS_EmptySet
  <2>8. \A j \in Key : j # k => Users(j)' = Users(j)
    BY <1>3 DEF Users
  <2>9. CountsUsers'
    BY <2>2, <2>3, <2>7, <2>8, <1>2, <1>5, <1>8 DEF CountsUsers, InTable
  <2> QED
    BY <2>4, <2>5, <2>6, <2>9
<1> QED
  BY <1>9, <1>10

LEMMA NextIInv == IInv /\ [Next]_vars => IInv'
<1> SUFFICES ASSUME IInv, [Next]_vars PROVE IInv'
  OBVIOUS
<1>1. ASSUME NEW t \in Task, NEW k \in Key, Register(t, k) PROVE IInv'
  BY <1>1, RegisterIInv
<1>2. ASSUME NEW t \in Task, Acquire(t) PROVE IInv'
  BY <1>2, AcquireIInv
<1>3. ASSUME NEW t \in Task, Leave(t) PROVE IInv'
  BY <1>3, ForgetIInv DEF Leave
<1>4. ASSUME NEW t \in Task, Cancel(t) PROVE IInv'
  BY <1>4, ForgetIInv DEF Cancel
<1>5. CASE UNCHANGED vars
  BY <1>5 DEF vars, IInv, Types, SharedLock, InsideOwns, CountsUsers, InTable, Users
<1> QED
  BY <1>1, <1>2, <1>3, <1>4, <1>5 DEF Next

LEMMA IInvMutex == IInv => MutualExclusion
  BY DEF IInv, SharedLock, InsideOwns, MutualExclusion

\* No two tasks are ever inside hold() for one resource: the guarantee the
\* reconcilers and finalizers of every kind are written against.
THEOREM Mutex == Spec => []MutualExclusion
<1>1. Spec => []IInv
  BY InitIInv, NextIInv, PTL DEF Spec
<1> QED
  BY <1>1, IInvMutex, PTL

\* The reference count of an entry is exact, so the table forgets a resource
\* neither too early (a second lock) nor too late (a leak).
THEOREM ExactCounts == Spec => []CountsUsers
<1>1. Spec => []IInv
  BY InitIInv, NextIInv, PTL DEF Spec
<1>2. IInv => CountsUsers
  BY DEF IInv
<1> QED
  BY <1>1, <1>2, PTL

-----------------------------------------------------------------------------
(***************************************************************************)
(* 2  Every step is a step of OnePass, or changes nothing there.           *)
(***************************************************************************)

WaitingAt == [k \in Key |-> {t \in Task : task[t].phase = "waiting" /\ task[t].key = k}]
RunningAt == [k \in Key |-> {t \in Task : task[t].phase = "inside" /\ task[t].key = k}]

LEMMA PromiseInit == Init => Promise!Init
  BY DEF Init, Promise!Init

\* A task outside hold() neither waits nor runs in the abstract specification.
LEMMA IdleIsNotBusy ==
  ASSUME NEW t \in Task, task[t].phase = "outside"
  PROVE  ~Promise!Busy(t)
  BY DEF Promise!Busy

LEMMA RegisterAsks ==
  ASSUME IInv, NEW t \in Task, NEW k \in Key, Register(t, k)
  PROVE  Promise!Ask(t, k)
<1>1. PICK l \in Lock : task' = [task EXCEPT ![t] = [phase |-> "waiting", key |-> k, lock |-> l]]
  BY DEF Register
<1>2. task[t].phase = "outside"
  BY DEF Register
<1>3. /\ task'[t].phase = "waiting" /\ task'[t].key = k
      /\ \A u \in Task : u # t => task'[u] = task[u]
  BY <1>1 DEF IInv, Types
<1>4. WaitingAt' = [WaitingAt EXCEPT ![k] = @ \cup {t}]
  BY <1>2, <1>3 DEF WaitingAt
<1>5. RunningAt' = RunningAt
  BY <1>2, <1>3 DEF RunningAt
<1> QED
  BY <1>2, <1>4, <1>5, IdleIsNotBusy DEF Promise!Ask, WaitingAt, RunningAt

\* Whoever is inside for the same resource owns the lock this task takes.
LEMMA AcquireBegins ==
  ASSUME IInv, NEW t \in Task, Acquire(t)
  PROVE  \E k \in Key : Promise!Begin(t, k)
<1>0. PICK k \in Key : k = task[t].key
  BY DEF IInv, Types, Local
<1>1. /\ task[t].phase = "waiting" /\ owner[task[t].lock] = NoTask
      /\ task' = [task EXCEPT ![t].phase = "inside"]
  BY DEF Acquire
<1>2. task[t] \in Local
  BY DEF IInv, Types, Local
<1>3. /\ task'[t].phase = "inside" /\ task'[t].key = k
      /\ \A u \in Task : u # t => task'[u] = task[u]
  BY <1>0, <1>1, <1>2 DEF IInv, Types, Local
<1>4. ASSUME NEW u \in Task, task[u].phase = "inside", task[u].key = k PROVE FALSE
  <2>1. owner[task[u].lock] = u
    BY <1>4 DEF IInv, InsideOwns
  <2>2. task[u].lock = task[t].lock
    BY <1>0, <1>1, <1>4 DEF IInv, SharedLock
  <2> QED
    BY <1>1, <2>1, <2>2, NoTaskIsNone
<1>5. RunningAt[k] = {} /\ t \in WaitingAt[k]
  BY <1>0, <1>1, <1>2, <1>4 DEF RunningAt, WaitingAt
<1>6. WaitingAt' = [WaitingAt EXCEPT ![k] = @ \ {t}]
  <2>1. \A j \in Key : WaitingAt'[j] = IF j = k THEN WaitingAt[k] \ {t} ELSE WaitingAt[j]
    BY <1>0, <1>1, <1>3 DEF WaitingAt
  <2> QED
    BY <2>1 DEF WaitingAt
<1>7. RunningAt' = [RunningAt EXCEPT ![k] = {t}]
  <2>1. {u \in Task : task'[u].phase = "inside" /\ task'[u].key = k} = {t}
    BY <1>0, <1>3, <1>4
  <2>2. ASSUME NEW j \in Key, j # k
        PROVE  {u \in Task : task'[u].phase = "inside" /\ task'[u].key = j} = RunningAt[j]
    BY <1>1, <1>3, <2>2 DEF RunningAt
  <2> QED
    BY <1>2, <2>1, <2>2 DEF RunningAt
<1>8. Promise!Begin(t, k)
  BY <1>5, <1>6, <1>7 DEF Promise!Begin, WaitingAt, RunningAt
<1> QED
  BY <1>8

LEMMA LeaveEnds ==
  ASSUME IInv, NEW t \in Task, Leave(t)
  PROVE  \E k \in Key : Promise!End(t, k)
<1>0. PICK k \in Key : k = task[t].key
  BY DEF IInv, Types, Local
<1>1. task[t].phase = "inside" /\ task' = [task EXCEPT ![t].phase = "outside"]
  BY DEF Leave
<1>2. task[t] \in Local
  BY DEF IInv, Types, Local
<1>3. /\ task'[t].phase = "outside"
      /\ \A u \in Task : u # t => task'[u] = task[u]
  BY <1>0, <1>1, <1>2 DEF IInv, Types, Local
<1>4. t \in RunningAt[k]
  BY <1>0, <1>1 DEF RunningAt
<1>7. RunningAt' = [RunningAt EXCEPT ![k] = @ \ {t}]
  <2>1. \A j \in Key : RunningAt'[j] = IF j = k THEN RunningAt[k] \ {t} ELSE RunningAt[j]
    BY <1>0, <1>1, <1>3 DEF RunningAt
  <2> QED
    BY <2>1 DEF RunningAt
<1>5. WaitingAt' = WaitingAt
  BY <1>0, <1>1, <1>3 DEF WaitingAt
<1>6. Promise!End(t, k)
  BY <1>4, <1>5, <1>7 DEF Promise!End, WaitingAt, RunningAt
<1> QED
  BY <1>6

LEMMA CancelGivesUp ==
  ASSUME IInv, NEW t \in Task, Cancel(t)
  PROVE  \E k \in Key : Promise!GiveUp(t, k)
<1>0. PICK k \in Key : k = task[t].key
  BY DEF IInv, Types, Local
<1>1. task[t].phase = "waiting" /\ task' = [task EXCEPT ![t].phase = "outside"]
  BY DEF Cancel
<1>2. task[t] \in Local
  BY DEF IInv, Types, Local
<1>3. /\ task'[t].phase = "outside"
      /\ \A u \in Task : u # t => task'[u] = task[u]
  BY <1>0, <1>1, <1>2 DEF IInv, Types, Local
<1>4. t \in WaitingAt[k]
  BY <1>0, <1>1 DEF WaitingAt
<1>7. WaitingAt' = [WaitingAt EXCEPT ![k] = @ \ {t}]
  <2>1. \A j \in Key : WaitingAt'[j] = IF j = k THEN WaitingAt[k] \ {t} ELSE WaitingAt[j]
    BY <1>0, <1>1, <1>3 DEF WaitingAt
  <2> QED
    BY <2>1 DEF WaitingAt
<1>5. RunningAt' = RunningAt
  BY <1>0, <1>1, <1>3 DEF RunningAt
<1>6. Promise!GiveUp(t, k)
  BY <1>4, <1>5, <1>7 DEF Promise!GiveUp, WaitingAt, RunningAt
<1> QED
  BY <1>6

LEMMA PromiseStep == IInv /\ [Next]_vars => [Promise!Next]_(Promise!vars)
<1> SUFFICES ASSUME IInv, [Next]_vars PROVE [Promise!Next]_(Promise!vars)
  OBVIOUS
<1>1. ASSUME NEW t \in Task, NEW k \in Key, Register(t, k) PROVE Promise!Next
  BY <1>1, RegisterAsks DEF Promise!Next
<1>2. ASSUME NEW t \in Task, Acquire(t) PROVE Promise!Next
  BY <1>2, AcquireBegins DEF Promise!Next
<1>3. ASSUME NEW t \in Task, Leave(t) PROVE Promise!Next
  BY <1>3, LeaveEnds DEF Promise!Next
<1>4. ASSUME NEW t \in Task, Cancel(t) PROVE Promise!Next
  BY <1>4, CancelGivesUp DEF Promise!Next
<1>5. CASE UNCHANGED vars
  BY <1>5 DEF vars, Promise!vars
<1> QED
  BY <1>1, <1>2, <1>3, <1>4, <1>5 DEF Next

\* The lock table implements its promise: one pass per resource at a time, and
\* none waits for another resource's.
THEOREM KeepsPromise == Spec => Promise!Safely
<1>1. Spec => []IInv
  BY InitIInv, NextIInv, PTL DEF Spec
<1> QED
  BY <1>1, PromiseInit, PromiseStep, PTL DEF Spec, Promise!Safely

-----------------------------------------------------------------------------
(***************************************************************************)
(* 3  The other lock the passes share: PoolRegistry._lock, for any sets of *)
(* passes, databases, credentials and pool objects.                        *)
(*                                                                         *)
(* A pool that leaves the table is at that step put in the hands of the    *)
(* pass that will close it; a pool enters the table where there is none to *)
(* lose.  The second holds because a pass that replaces a pool keeps the   *)
(* lock from the lookup to the registration (Replacing).                   *)
(***************************************************************************)

PoolType == [by : Credential, open : BOOLEAN, warm : BOOLEAN] \cup {Closed}

Counts == 0 .. Connects

PassType == [at : Where, by : Credential \cup {Nobody}, db : Database \cup {Nobody},
             pool : Pool \cup {Nobody}, closing : SUBSET Pool, connects : Counts,
             failed : BOOLEAN]

\* What a pass has in hand, where it is.
InOrder(r) ==
  /\ r.at # "idle" => r.by \in Credential
  /\ r.at \in {"recycling", "opening", "checkout"} => r.connects > 0
  /\ r.at \in {"checkout", "using"} => r.pool \in Pool
  /\ r.at \notin {"recycling", "closing"} => r.closing = {}

\* A pass that replaces a pool holds the lock, and the table has none to lose.
Replacing ==
  \A t \in Pass : pass[t].at \in {"recycling", "opening"} =>
    lock = t /\ pass[t].db \in Database /\ pools[pass[t].db] = Nobody

PoolInv ==
  /\ PoolsTypeOK
  /\ \A t \in Pass : InOrder(pass[t])
  /\ Replacing
  /\ NoPoolLost

LEMMA PoolFields ==
  ASSUME NEW x \in PoolType
  PROVE  /\ x.open \in BOOLEAN
         /\ [x EXCEPT !.warm = FALSE] \in PoolType /\ [x EXCEPT !.warm = FALSE].open = x.open
         /\ [x EXCEPT !.warm = x.open] \in PoolType /\ [x EXCEPT !.warm = x.open].open = x.open
<1>1. CASE x = Closed
  <2>1. x \in [by : {Nobody}, open : {FALSE}, warm : {FALSE}]
    BY <1>1 DEF Closed
  <2>2. [x EXCEPT !.warm = FALSE] = x /\ x.open = FALSE
    BY <2>1
  <2> QED
    BY <2>2
<1>2. CASE x \in [by : Credential, open : BOOLEAN, warm : BOOLEAN]
  BY <1>2 DEF PoolType
<1> QED
  BY <1>1, <1>2 DEF PoolType

LEMMA ClosedPools ==
  ASSUME pool \in [Pool -> PoolType], NEW ps
  PROVE  /\ Close(ps) \in [Pool -> PoolType]
         /\ \A p \in Pool : /\ p \in ps => ~Close(ps)[p].open
                            /\ p \notin ps => Close(ps)[p] = pool[p]
  BY DEF Close, Closed, PoolType

LEMMA PoolInvInit == PoolsInit => PoolInv
<1> SUFFICES ASSUME PoolsInit PROVE PoolInv
  OBVIOUS
<1>1. PoolsTypeOK
  BY NobodyIsNone, SomeCredential, BoundsAreNat DEF PoolsInit, PoolsTypeOK, Where
<1> QED
  BY <1>1, NobodyIsNone DEF PoolsInit, PoolInv, InOrder, Replacing, NoPoolLost, Closed

\* A pass that neither replaces nor closes a pool, before or after.
LEMMA PassMoves ==
  ASSUME PoolInv, NEW t \in Pass, NEW r \in PassType, pass' = [pass EXCEPT ![t] = r],
         UNCHANGED <<secret, server, lock, pools, left>>,
         pool' \in [Pool -> PoolType], \A p \in Pool : pool'[p].open => pool[p].open,
         pass[t].at \notin {"recycling", "opening", "closing"},
         r.at \notin {"recycling", "opening", "closing"}, InOrder(r)
  PROVE  PoolInv'
<1>1. pass \in [Pass -> PassType] /\ pass[t] \in PassType
  BY DEF PoolInv, PoolsTypeOK, PassType, Counts
<1>2. pass' \in [Pass -> PassType] /\ pass'[t] = r /\ \A u \in Pass : u # t => pass'[u] = pass[u]
  BY <1>1
<1>3. PoolsTypeOK'
  BY <1>2 DEF PoolInv, PoolsTypeOK, PassType, Counts, PoolType
<1>4. /\ \A u \in Pass : InOrder(pass'[u])
      /\ Replacing'
  BY <1>2 DEF PoolInv, Replacing
<1>5. pass[t].closing = {}
  BY DEF PoolInv, InOrder
<1>6. NoPoolLost'
  BY <1>2, <1>5 DEF PoolInv, NoPoolLost, Registered
<1> QED
  BY <1>3, <1>4, <1>6 DEF PoolInv, InOrder

LEMMA UsesStep ==
  ASSUME PoolInv, NEW t \in Pass,
         \/ Resolve(t) \/ Checkout(t) \/ Return(t) \/ Finish(t)
         \/ \E d \in Database : Reuse(t, d)
  PROVE  PoolInv'
<1>a. /\ pass \in [Pass -> PassType] /\ pass[t] \in PassType /\ InOrder(pass[t])
      /\ pool \in [Pool -> PoolType] /\ secret \in Credential
  BY DEF PoolInv, PoolsTypeOK, PassType, Counts, PoolType
<1>b. /\ 0 \in Counts /\ Connects \in Counts
      /\ \A n \in Counts : n > 0 => n - 1 \in Counts
  BY BoundsAreNat DEF Counts
<1>1. CASE Resolve(t)
  <2> DEFINE r == [pass[t] EXCEPT !.at = "resolved", !.by = secret, !.connects = Connects,
                                  !.failed = FALSE]
  <2>1. pass' = [pass EXCEPT ![t] = r] /\ pass[t].at = "idle"
        /\ UNCHANGED <<secret, server, lock, pools, pool, left>>
    BY <1>1, <1>a DEF Resolve
  <2>2. r \in PassType /\ InOrder(r) /\ r.at = "resolved"
    BY <1>a, <1>b, <2>1 DEF PassType, InOrder, Where
  <2> HIDE DEF r
  <2> QED
    BY <1>a, <2>1, <2>2, PassMoves
<1>2. CASE Checkout(t)
  <2>1. PICK r \in PassType :
          /\ pass' = [pass EXCEPT ![t] = r] /\ r.at \in {"using", "idle"} /\ InOrder(r)
    <3>1. CASE Served(pass[t].pool)
      <4> DEFINE s == [pass[t] EXCEPT !.at = "using", !.connects = @ - 1]
      <4>1. pass' = [pass EXCEPT ![t] = s] /\ pass[t].at = "checkout"
        BY <1>2, <1>a, <3>1 DEF Checkout
      <4>2. s \in PassType /\ InOrder(s) /\ s.at = "using"
        BY <1>a, <1>b, <4>1 DEF PassType, InOrder, Where
      <4> HIDE DEF s
      <4> QED
        BY <4>1, <4>2
    <3>2. CASE ~Served(pass[t].pool)
      <4> DEFINE s == [pass[t] EXCEPT !.at = "idle", !.by = Nobody, !.pool = Nobody,
                                      !.connects = 0, !.failed = TRUE]
      <4>1. pass' = [pass EXCEPT ![t] = s] /\ pass[t].at = "checkout"
        BY <1>2, <1>a, <3>2 DEF Checkout, Idle
      <4>2. s \in PassType /\ InOrder(s) /\ s.at = "idle"
        BY <1>a, <1>b, <4>1 DEF PassType, InOrder, Where
      <4> HIDE DEF s
      <4> QED
        BY <4>1, <4>2
    <3> QED
      BY <3>1, <3>2
  <2>2. pass[t].at = "checkout" /\ UNCHANGED <<secret, server, lock, pools, pool, left>>
    BY <1>2 DEF Checkout
  <2> QED
    BY <1>a, <2>1, <2>2, PassMoves
<1>3. CASE Return(t)
  <2> DEFINE r == [pass[t] EXCEPT !.at = "resolved", !.pool = Nobody]
  <2>1. pass' = [pass EXCEPT ![t] = r] /\ pass[t].at = "using"
        /\ UNCHANGED <<secret, server, lock, pools, left>>
    BY <1>3, <1>a DEF Return
  <2>2. r \in PassType /\ InOrder(r) /\ r.at = "resolved"
    BY <1>a, <2>1 DEF PassType, InOrder, Where
  <2>3. PICK q \in Pool : pool' = [pool EXCEPT ![q].warm = pool[q].open]
    BY <1>3, <1>a, <2>1 DEF Return, InOrder
  <2>4. [pool[q] EXCEPT !.warm = pool[q].open] \in PoolType
        /\ [pool[q] EXCEPT !.warm = pool[q].open].open = pool[q].open
    BY <1>a, PoolFields
  <2>5. pool' \in [Pool -> PoolType] /\ \A p \in Pool : pool'[p].open => pool[p].open
    BY <1>a, <2>3, <2>4
  <2> HIDE DEF r
  <2> QED
    BY <2>1, <2>2, <2>5, PassMoves
<1>4. CASE Finish(t)
  <2> DEFINE r == [pass[t] EXCEPT !.at = "idle", !.by = Nobody, !.pool = Nobody,
                                  !.connects = 0, !.failed = FALSE]
  <2>1. pass' = [pass EXCEPT ![t] = r] /\ pass[t].at = "resolved"
        /\ UNCHANGED <<secret, server, lock, pools, pool, left>>
    BY <1>4, <1>a DEF Finish, Idle
  <2>2. r \in PassType /\ InOrder(r) /\ r.at = "idle"
    BY <1>a, <1>b, <2>1 DEF PassType, InOrder, Where
  <2> HIDE DEF r
  <2> QED
    BY <1>a, <2>1, <2>2, PassMoves
<1>5. CASE \E d \in Database : Reuse(t, d)
  <2>0. PICK d \in Database : Reuse(t, d)
    BY <1>5
  <2> DEFINE r == [pass[t] EXCEPT !.at = "checkout", !.pool = pools[d]]
  <2>1. pass' = [pass EXCEPT ![t] = r] /\ pass[t].at = "resolved" /\ pass[t].connects > 0
        /\ UNCHANGED <<secret, server, lock, pools, pool, left>> /\ pools[d] # Nobody
    BY <2>0, <1>a DEF Reuse, Reusable
  <2>2. pools[d] \in Pool
    BY <2>1 DEF PoolInv, PoolsTypeOK
  <2>3. r \in PassType /\ InOrder(r) /\ r.at = "checkout"
    BY <1>a, <2>1, <2>2 DEF PassType, InOrder, Where
  <2> HIDE DEF r
  <2> QED
    BY <1>a, <2>1, <2>3, PassMoves
<1> QED
  BY <1>1, <1>2, <1>3, <1>4, <1>5

\* The pool that leaves the table is in the hands of the pass that took it.
LEMMA LookupStep ==
  ASSUME PoolInv, NEW t \in Pass, NEW d \in Database, Lookup(t, d)
  PROVE  PoolInv'
<1> DEFINE old == {pools[d]} \ {Nobody}
           r == [pass[t] EXCEPT !.at = IF pools[d] = Nobody THEN "opening" ELSE "recycling",
                                !.db = d, !.closing = old]
<1>a. /\ pass \in [Pass -> PassType] /\ pass[t] \in PassType /\ InOrder(pass[t])
      /\ pools \in [Database -> Pool \cup {Nobody}]
  BY DEF PoolInv, PoolsTypeOK, PassType, Counts
<1>1. /\ pass[t].at = "resolved" /\ pass[t].connects > 0 /\ lock = Nobody /\ lock' = t
      /\ pools' = [pools EXCEPT ![d] = Nobody] /\ pass' = [pass EXCEPT ![t] = r]
      /\ UNCHANGED <<secret, server, pool, left>>
  BY <1>a DEF Lookup
<1>b. old \in SUBSET Pool /\ (pools[d] = Nobody => old = {})
  BY <1>a
<1> HIDE DEF old
<1>2. /\ r \in PassType /\ InOrder(r) /\ r.db = d /\ r.closing = old
      /\ r.at \in {"opening", "recycling"}
  <2>1. CASE pools[d] = Nobody
    BY <1>a, <1>b, <1>1, <2>1 DEF PassType, InOrder, Where
  <2>2. CASE pools[d] # Nobody
    BY <1>a, <1>b, <1>1, <2>2 DEF PassType, InOrder, Where
  <2> QED
    BY <2>1, <2>2
<1> HIDE DEF r
<1>3. pass' \in [Pass -> PassType] /\ pass'[t] = r /\ \A u \in Pass : u # t => pass'[u] = pass[u]
  BY <1>a, <1>1, <1>2
<1>4. /\ pools' \in [Database -> Pool \cup {Nobody}] /\ pools'[d] = Nobody
      /\ \A e \in Database : e # d => pools'[e] = pools[e]
  BY <1>a, <1>1
<1>5. PoolsTypeOK'
  BY <1>1, <1>3, <1>4 DEF PoolInv, PoolsTypeOK, PassType, Counts
<1>6. \A u \in Pass : InOrder(pass'[u])
  BY <1>2, <1>3 DEF PoolInv
<1>7. Replacing'
  <2>1. \A u \in Pass : u # t => pass[u].at \notin {"recycling", "opening"}
    BY <1>1, NobodyIsNone DEF PoolInv, Replacing
  <2> QED
    BY <1>1, <1>2, <1>3, <1>4, <2>1 DEF Replacing
<1>8. NoPoolLost'
  <2> SUFFICES ASSUME NEW p \in Pool, pool[p].open
               PROVE  \/ p \in Registered'
                      \/ \E u \in Pass : p \in pass'[u].closing
                                         \/ (pass'[u].at = "opening" /\ p = pass'[u].pool)
    BY <1>1 DEF NoPoolLost
  <2>1. CASE p \in Registered
    <3>1. PICK e \in Database : p = pools[e] /\ p # Nobody
      BY <2>1 DEF Registered
    <3> QED
      BY <1>2, <1>3, <1>4, <3>1 DEF Registered, old
  <2>2. CASE \E u \in Pass : p \in pass[u].closing \/ (pass[u].at = "opening" /\ p = pass[u].pool)
    <3>1. pass[t].closing = {} /\ pass[t].at # "opening"
      BY <1>a, <1>1 DEF InOrder
    <3> QED
      BY <1>3, <2>2, <3>1
  <2> QED
    BY <2>1, <2>2 DEF PoolInv, NoPoolLost
<1> QED
  BY <1>5, <1>6, <1>7, <1>8 DEF PoolInv, InOrder

LEMMA RecycleStep ==
  ASSUME PoolInv, NEW t \in Pass, Recycle(t)
  PROVE  PoolInv'
<1> DEFINE r == [pass[t] EXCEPT !.at = "opening", !.closing = {}]
<1>a. /\ pass \in [Pass -> PassType] /\ pass[t] \in PassType /\ InOrder(pass[t])
      /\ pool \in [Pool -> PoolType]
  BY DEF PoolInv, PoolsTypeOK, PassType, Counts, PoolType
<1>1. /\ pass[t].at = "recycling" /\ pool' = Close(pass[t].closing)
      /\ pass' = [pass EXCEPT ![t] = r] /\ UNCHANGED <<secret, server, lock, pools, left>>
  BY <1>a DEF Recycle
<1>2. r \in PassType /\ InOrder(r) /\ r.at = "opening" /\ r.db = pass[t].db
  BY <1>a, <1>1 DEF PassType, InOrder, Where
<1> HIDE DEF r
<1>3. pass' \in [Pass -> PassType] /\ pass'[t] = r /\ \A u \in Pass : u # t => pass'[u] = pass[u]
  BY <1>a, <1>1, <1>2
<1>4. /\ pool' \in [Pool -> PoolType]
      /\ \A p \in Pool : pool'[p].open => pool[p].open /\ p \notin pass[t].closing
  BY <1>a, <1>1, ClosedPools
<1>5. PoolsTypeOK'
  BY <1>1, <1>3, <1>4 DEF PoolInv, PoolsTypeOK, PassType, Counts, PoolType
<1>6. (\A u \in Pass : InOrder(pass'[u])) /\ Replacing'
  BY <1>1, <1>2, <1>3 DEF PoolInv, Replacing
<1>7. NoPoolLost'
  BY <1>1, <1>3, <1>4 DEF PoolInv, NoPoolLost, Registered
<1> QED
  BY <1>5, <1>6, <1>7 DEF PoolInv, InOrder

\* The object of the new pool is nobody's, so that nothing is opened over.
LEMMA OpenStep ==
  ASSUME PoolInv, NEW t \in Pass, Open(t)
  PROVE  PoolInv'
<1>a. /\ pass \in [Pass -> PassType] /\ pass[t] \in PassType /\ InOrder(pass[t])
      /\ pool \in [Pool -> PoolType]
  BY DEF PoolInv, PoolsTypeOK, PassType, Counts, PoolType
<1>0. PICK q \in Pool :
        /\ pool' = [pool EXCEPT ![q] = [by |-> pass[t].by, open |-> TRUE, warm |-> FALSE]]
        /\ pass' = [pass EXCEPT ![t].pool = q]
        /\ pass[t].at = "opening" /\ pass[t].pool = Nobody
        /\ UNCHANGED <<secret, server, lock, pools, left>>
  BY DEF Open, Spare
<1> DEFINE r == [pass[t] EXCEPT !.pool = q]
<1>1. pass' = [pass EXCEPT ![t] = r]
  BY <1>0, <1>a
<1>2. /\ r \in PassType /\ InOrder(r) /\ r.at = "opening" /\ r.db = pass[t].db /\ r.pool = q
      /\ r.closing = pass[t].closing
  BY <1>a, <1>0 DEF PassType, InOrder, Where
<1> HIDE DEF r
<1>3. pass' \in [Pass -> PassType] /\ pass'[t] = r /\ \A u \in Pass : u # t => pass'[u] = pass[u]
  BY <1>a, <1>1, <1>2
<1>4. [by |-> pass[t].by, open |-> TRUE, warm |-> FALSE] \in PoolType
  BY <1>a, <1>0 DEF InOrder, PoolType
<1>5. pool' \in [Pool -> PoolType] /\ \A p \in Pool : p # q => pool'[p] = pool[p]
  BY <1>a, <1>0, <1>4
<1>6. PoolsTypeOK'
  BY <1>0, <1>3, <1>5 DEF PoolInv, PoolsTypeOK, PassType, Counts, PoolType
<1>7. (\A u \in Pass : InOrder(pass'[u])) /\ Replacing'
  BY <1>0, <1>2, <1>3 DEF PoolInv, Replacing
<1>8. NoPoolLost'
  <2> SUFFICES ASSUME NEW p \in Pool, pool'[p].open, p # q
               PROVE  \/ p \in Registered
                      \/ \E u \in Pass : p \in pass'[u].closing
                                         \/ (pass'[u].at = "opening" /\ p = pass'[u].pool)
    BY <1>0, <1>2, <1>3 DEF NoPoolLost, Registered
  <2>1. p # Nobody
    BY NobodyIsNone
  <2> QED
    BY <1>0, <1>2, <1>3, <1>5, <2>1 DEF PoolInv, NoPoolLost
<1> QED
  BY <1>6, <1>7, <1>8 DEF PoolInv, InOrder

\* The table has no other pool of that database to lose: the lock was held.
LEMMA RegisterStep ==
  ASSUME PoolInv, NEW t \in Pass, RegisterPool(t)
  PROVE  PoolInv'
<1> DEFINE r == [pass[t] EXCEPT !.at = "checkout", !.db = Nobody]
           d == pass[t].db
           q == pass[t].pool
<1>a. /\ pass \in [Pass -> PassType] /\ pass[t] \in PassType /\ InOrder(pass[t])
      /\ pools \in [Database -> Pool \cup {Nobody}]
  BY DEF PoolInv, PoolsTypeOK, PassType, Counts
<1>1. /\ pass[t].at = "opening" /\ q # Nobody /\ lock' = Nobody
      /\ pools' = [pools EXCEPT ![d] = q] /\ pass' = [pass EXCEPT ![t] = r]
      /\ UNCHANGED <<secret, server, pool, left>>
  BY <1>a DEF RegisterPool
<1>2. d \in Database /\ q \in Pool /\ pools[d] = Nobody /\ lock = t
  BY <1>a, <1>1 DEF PoolInv, Replacing, PassType
<1>3. /\ r \in PassType /\ InOrder(r) /\ r.at = "checkout" /\ pass[t].closing = {}
  BY <1>a, <1>1, <1>2 DEF PassType, InOrder, Where
<1> HIDE DEF r
<1>4. pass' \in [Pass -> PassType] /\ pass'[t] = r /\ \A u \in Pass : u # t => pass'[u] = pass[u]
  BY <1>a, <1>1, <1>3
<1>5. /\ pools' \in [Database -> Pool \cup {Nobody}] /\ pools'[d] = q
      /\ \A e \in Database : e # d => pools'[e] = pools[e]
  BY <1>a, <1>1, <1>2
<1>6. PoolsTypeOK'
  BY <1>1, <1>4, <1>5 DEF PoolInv, PoolsTypeOK, PassType, Counts
<1>7. (\A u \in Pass : InOrder(pass'[u])) /\ Replacing'
  <2>1. \A u \in Pass : u # t => pass[u].at \notin {"recycling", "opening"}
    BY <1>2 DEF PoolInv, Replacing
  <2> QED
    BY <1>3, <1>4, <2>1 DEF PoolInv, Replacing
<1>8. NoPoolLost'
  <2> SUFFICES ASSUME NEW p \in Pool, pool[p].open
               PROVE  \/ p \in Registered'
                      \/ \E u \in Pass : p \in pass'[u].closing
                                         \/ (pass'[u].at = "opening" /\ p = pass'[u].pool)
    BY <1>1 DEF NoPoolLost
  <2>1. CASE p \in Registered
    <3>1. PICK e \in Database : p = pools[e] /\ p # Nobody
      BY <2>1 DEF Registered
    <3> QED
      BY <1>2, <1>5, <3>1 DEF Registered
  <2>2. CASE p = q
    BY <1>1, <1>2, <1>5, <2>2 DEF Registered
  <2>3. CASE p # q /\ \E u \in Pass : p \in pass[u].closing
                                      \/ (pass[u].at = "opening" /\ p = pass[u].pool)
    BY <1>3, <1>4, <2>3
  <2> QED
    BY <2>1, <2>2, <2>3 DEF PoolInv, NoPoolLost
<1> QED
  BY <1>6, <1>7, <1>8 DEF PoolInv, InOrder

LEMMA CloseStep ==
  ASSUME PoolInv, NEW t \in Pass, NEW ds \in SUBSET Database,
         CloseDatabases(t, ds)
  PROVE  PoolInv'
<1> DEFINE out == {pools[d] : d \in ds} \ {Nobody}
           r == [pass[t] EXCEPT !.at = "closing", !.closing = out]
<1>a. /\ pass \in [Pass -> PassType] /\ pass[t] \in PassType /\ InOrder(pass[t])
      /\ pools \in [Database -> Pool \cup {Nobody}]
  BY DEF PoolInv, PoolsTypeOK, PassType, Counts
<1>1. /\ pass[t].at = "resolved" /\ lock = Nobody /\ left.closes > 0
      /\ pools' = [d \in Database |-> IF d \in ds THEN Nobody ELSE pools[d]]
      /\ pass' = [pass EXCEPT ![t] = r] /\ left' = [left EXCEPT !.closes = @ - 1]
      /\ UNCHANGED <<secret, server, lock, pool>>
  BY <1>a DEF CloseDatabases
<1>2. out \subseteq Pool
  BY <1>a
<1> HIDE DEF out
<1>3. r \in PassType /\ InOrder(r) /\ r.at = "closing" /\ r.closing = out
  BY <1>a, <1>1, <1>2 DEF PassType, InOrder, Where
<1> HIDE DEF r
<1>4. pass' \in [Pass -> PassType] /\ pass'[t] = r /\ \A u \in Pass : u # t => pass'[u] = pass[u]
  BY <1>a, <1>1, <1>3
<1>5. left' \in [changes : 0 .. MaxChanges, closes : 0 .. MaxCloses]
  BY <1>1, BoundsAreNat DEF PoolInv, PoolsTypeOK
<1>6. PoolsTypeOK'
  BY <1>a, <1>1, <1>4, <1>5 DEF PoolInv, PoolsTypeOK, PassType, Counts
<1>7. (\A u \in Pass : InOrder(pass'[u])) /\ Replacing'
  <2>1. \A u \in Pass : pass[u].at \notin {"recycling", "opening"}
    BY <1>1, NobodyIsNone DEF PoolInv, Replacing
  <2> QED
    BY <1>3, <1>4, <2>1 DEF PoolInv, Replacing
<1>8. NoPoolLost'
  <2> SUFFICES ASSUME NEW p \in Pool, pool[p].open
               PROVE  \/ p \in Registered'
                      \/ \E u \in Pass : p \in pass'[u].closing
                                         \/ (pass'[u].at = "opening" /\ p = pass'[u].pool)
    BY <1>1 DEF NoPoolLost
  <2>1. CASE p \in Registered
    <3>1. PICK e \in Database : p = pools[e] /\ p # Nobody
      BY <2>1 DEF Registered
    <3>2. CASE e \in ds
      BY <1>3, <1>4, <3>1, <3>2 DEF out
    <3>3. CASE e \notin ds
      BY <1>1, <3>1, <3>3 DEF Registered
    <3> QED
      BY <3>2, <3>3
  <2>2. CASE \E u \in Pass : p \in pass[u].closing \/ (pass[u].at = "opening" /\ p = pass[u].pool)
    <3>1. pass[t].closing = {} /\ pass[t].at # "opening"
      BY <1>a, <1>1 DEF InOrder
    <3> QED
      BY <1>4, <2>2, <3>1
  <2> QED
    BY <2>1, <2>2 DEF PoolInv, NoPoolLost
<1> QED
  BY <1>6, <1>7, <1>8 DEF PoolInv, InOrder

\* What leaves a pass's hands is closed.
LEMMA CloseNextStep ==
  ASSUME PoolInv, NEW t \in Pass, CloseNext(t)
  PROVE  PoolInv'
<1>a. /\ pass \in [Pass -> PassType] /\ pass[t] \in PassType /\ InOrder(pass[t])
      /\ pool \in [Pool -> PoolType] /\ pass[t].at = "closing"
  BY DEF PoolInv, PoolsTypeOK, PassType, Counts, PoolType, CloseNext
<1>1. PICK r \in PassType :
        /\ pass' = [pass EXCEPT ![t] = r] /\ InOrder(r) /\ r.at \in {"resolved", "closing"}
        /\ pool' \in [Pool -> PoolType]
        /\ \A p \in Pool : pool'[p].open => /\ pool[p].open
                                            /\ p \in pass[t].closing => p \in r.closing
  <2>1. CASE pass[t].closing = {} /\ pass' = [pass EXCEPT ![t].at = "resolved"]
             /\ UNCHANGED pool
    <3> DEFINE s == [pass[t] EXCEPT !.at = "resolved"]
    <3>1. s \in PassType /\ InOrder(s) /\ s.at = "resolved"
      BY <1>a, <2>1 DEF PassType, InOrder, Where
    <3>2. pass' = [pass EXCEPT ![t] = s]
      BY <1>a, <2>1
    <3> HIDE DEF s
    <3> QED
      BY <1>a, <2>1, <3>1, <3>2
  <2>2. ASSUME NEW q \in pass[t].closing, pool' = Close({q}),
               pass' = [pass EXCEPT ![t].closing = @ \ {q}]
        PROVE  \E r \in PassType :
                 /\ pass' = [pass EXCEPT ![t] = r] /\ InOrder(r)
                 /\ r.at \in {"resolved", "closing"}
                 /\ pool' \in [Pool -> PoolType]
                 /\ \A p \in Pool : pool'[p].open => /\ pool[p].open
                                                     /\ p \in pass[t].closing => p \in r.closing
    <3> DEFINE s == [pass[t] EXCEPT !.closing = @ \ {q}]
    <3>1. s \in PassType /\ InOrder(s) /\ s.at = "closing" /\ s.closing = pass[t].closing \ {q}
      BY <1>a DEF PassType, InOrder, Where
    <3>2. pass' = [pass EXCEPT ![t] = s]
      BY <1>a, <2>2
    <3>3. /\ pool' \in [Pool -> PoolType]
          /\ \A p \in Pool : pool'[p].open => pool[p].open /\ p # q
      BY <1>a, <2>2, ClosedPools
    <3> HIDE DEF s
    <3> QED
      BY <3>1, <3>2, <3>3
  <2> QED
    BY <2>1, <2>2, ZenonT(60) DEF CloseNext
<1>2. UNCHANGED <<secret, server, lock, pools, left>>
  BY DEF CloseNext
<1>3. pass' \in [Pass -> PassType] /\ pass'[t] = r /\ \A u \in Pass : u # t => pass'[u] = pass[u]
  BY <1>a, <1>1
<1>4. PoolsTypeOK'
  BY <1>1, <1>2, <1>3 DEF PoolInv, PoolsTypeOK, PassType, Counts, PoolType
<1>5. (\A u \in Pass : InOrder(pass'[u])) /\ Replacing'
  BY <1>1, <1>2, <1>3 DEF PoolInv, Replacing
<1>6. NoPoolLost'
  BY <1>a, <1>1, <1>2, <1>3 DEF PoolInv, NoPoolLost, Registered
<1> QED
  BY <1>4, <1>5, <1>6 DEF PoolInv, InOrder

LEMMA AroundStep ==
  ASSUME PoolInv,
         Change \/ (\E p \in Pool : Cool(p)) \/ UNCHANGED poolVars
  PROVE  PoolInv'
<1>a. pool \in [Pool -> PoolType]
  BY DEF PoolInv, PoolsTypeOK, PoolType
<1>1. UNCHANGED <<lock, pools, pass>>
  BY DEF Change, Cool, poolVars
<1>2. /\ secret' \in Credential /\ server' \in Credential
      /\ left' \in [changes : 0 .. MaxChanges, closes : 0 .. MaxCloses]
  BY BoundsAreNat DEF Change, Cool, poolVars, PoolInv, PoolsTypeOK
<1>3. pool' \in [Pool -> PoolType] /\ \A p \in Pool : pool'[p].open = pool[p].open
  <2>1. ASSUME NEW p \in Pool, Cool(p)
        PROVE  pool' \in [Pool -> PoolType] /\ \A q \in Pool : pool'[q].open = pool[q].open
    <3>1. [pool[p] EXCEPT !.warm = FALSE] \in PoolType
          /\ [pool[p] EXCEPT !.warm = FALSE].open = pool[p].open
      BY <1>a, PoolFields
    <3>2. pool' = [pool EXCEPT ![p] = [pool[p] EXCEPT !.warm = FALSE]]
      BY <1>a, <2>1 DEF Cool
    <3> QED
      BY <1>a, <3>1, <3>2
  <2>2. CASE UNCHANGED pool
    BY <1>a, <2>2
  <2> QED
    BY <2>1, <2>2 DEF Change, poolVars
<1>4. PoolsTypeOK'
  BY <1>1, <1>2, <1>3 DEF PoolInv, PoolsTypeOK, PoolType
<1> QED
  BY <1>1, <1>3, <1>4 DEF PoolInv, InOrder, Replacing, NoPoolLost, Registered

LEMMA PoolsStep == PoolInv /\ [PoolsNext]_poolVars => PoolInv'
<1> SUFFICES ASSUME PoolInv, [PoolsNext]_poolVars PROVE PoolInv'
  OBVIOUS
<1>1. ASSUME NEW t \in Pass, WaitsForLock(t) \/ Works(t)
      PROVE  PoolInv'
  BY <1>1, UsesStep, LookupStep, RecycleStep, OpenStep, RegisterStep, CloseNextStep
     DEF WaitsForLock, Works
<1>2. ASSUME NEW t \in Pass, NEW ds \in {{d} : d \in Database} \cup {Database},
             CloseDatabases(t, ds)
      PROVE  PoolInv'
  <2>1. ds \in SUBSET Database
    OBVIOUS
  <2> QED
    BY <1>2, <2>1, CloseStep
<1> QED
  BY <1>1, <1>2, AroundStep DEF PoolsNext

LEMMA PoolsAlways == PoolsSpec => []PoolInv
<1>1. PoolsInit => PoolInv
  BY PoolInvInit
<1>2. PoolInv /\ [PoolsNext]_poolVars => PoolInv'
  BY PoolsStep
<1> QED
  BY <1>1, <1>2, PTL DEF PoolsSpec

\* The registry and the passes hold what they are declared to.
THEOREM PoolsTypeCorrect == PoolsSpec => []PoolsTypeOK
<1>1. PoolInv => PoolsTypeOK
  BY DEF PoolInv
<1> QED
  BY <1>1, PoolsAlways, PTL

\* No pool is lost open, with its connections, when passes with old and new
\* credentials recycle each other's: it is in the table, or in the hands of the
\* pass that opens or closes it (NoPoolLost of ConnectionPools; PoolRegistry of
\* postgres/connection.py).
THEOREM NoPoolIsLost == PoolsSpec => []NoPoolLost
<1>1. PoolInv => NoPoolLost
  BY DEF PoolInv
<1> QED
  BY <1>1, PoolsAlways, PTL
=============================================================================
