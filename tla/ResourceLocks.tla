---------------------------- MODULE ResourceLocks ----------------------------
(***************************************************************************)
(* The table of per-resource locks that keeps two passes over one resource *)
(* apart (class ResourceLocks of reconcile/context.py).                    *)
(*                                                                         *)
(* Every reconcile pass and every finalizer runs inside hold(key).  The    *)
(* table maps a key to a lock object and the number of tasks using it; the *)
(* entry is made by the first user and deleted by the last.  A task keeps  *)
(* the lock OBJECT it found, so the danger is an entry deleted too early:  *)
(* the next task would then make a second lock for the same resource and   *)
(* walk past the holder of the first.                                      *)
(***************************************************************************)
EXTENDS Naturals, FiniteSets, Sequences

CONSTANTS Task,     \* asyncio tasks: change handlers, timers, finalizers
          Key,      \* (kind, namespace, name) of a resource
          Lock,     \* asyncio.Lock objects
          NoTask,   \* the owner of a lock nobody holds
          NoEntry   \* a key that is not in the table

ASSUME FiniteTasks == IsFiniteSet(Task)
ASSUME NoTaskIsNone == NoTask \notin Task
ASSUME NoEntryIsNone == NoEntry \notin [lock : Lock, holders : Nat]

VARIABLES table,    \* Key -> the entry of _locks, or NoEntry
          owner,    \* Lock -> the task inside its "async with", or NoTask
          waiters,  \* Lock -> the tasks queued on it, oldest first
          task      \* Task -> where it is in hold(), for which key and lock

vars == <<table, owner, waiters, task>>

Phase == {"outside", "waiting", "inside"}
Entry == [lock : Lock, holders : Nat]
Local == [phase : Phase, key : Key, lock : Lock]

TypeOK ==
  /\ table \in [Key -> Entry \cup {NoEntry}]
  /\ owner \in [Lock -> Task \cup {NoTask}]
  /\ waiters \in [Lock -> Seq(Task)]
  /\ task \in [Task -> Local]

\* The tasks between the first line of hold(k) and its finally clause.
Users(k) == {t \in Task : task[t].phase # "outside" /\ task[t].key = k}

InTable(k) == table[k] # NoEntry

\* A lock object no entry and no task refers to, as asyncio.Lock() returns.
Fresh(l) ==
  /\ \A k \in Key : InTable(k) => table[k].lock # l
  /\ \A t \in Task : task[t].phase # "outside" => task[t].lock # l

Init ==
  /\ table = [k \in Key |-> NoEntry]
  /\ owner = [l \in Lock |-> NoTask]
  /\ waiters = [l \in Lock |-> <<>>]
  /\ task \in [Task -> [phase : {"outside"}, key : Key, lock : Lock]]

-----------------------------------------------------------------------------
(***************************************************************************)
(* hold(): no await separates reading the table from writing it, so        *)
(* registering is one step, and so is each way out of the with block.      *)
(***************************************************************************)

Register(t, k) ==
  /\ task[t].phase = "outside"
  /\ \E l \in Lock :
       /\ IF InTable(k) THEN l = table[k].lock ELSE Fresh(l)
       /\ table' = [table EXCEPT ![k] =
                      [lock |-> l, holders |-> IF InTable(k) THEN table[k].holders + 1 ELSE 1]]
       /\ waiters' = [waiters EXCEPT ![l] = Append(@, t)]
       /\ task' = [task EXCEPT ![t] = [phase |-> "waiting", key |-> k, lock |-> l]]
  /\ UNCHANGED owner

\* asyncio.Lock wakes its waiters in order.
Acquire(t) ==
  LET l == task[t].lock IN
  /\ task[t].phase = "waiting"
  /\ owner[l] = NoTask
  /\ waiters[l] # <<>> /\ Head(waiters[l]) = t
  /\ owner' = [owner EXCEPT ![l] = t]
  /\ waiters' = [waiters EXCEPT ![l] = Tail(@)]
  /\ task' = [task EXCEPT ![t].phase = "inside"]
  /\ UNCHANGED table

\* Mutant: the entry is deleted while one more task uses it.
ForgetEarly(k) ==
  table' = [table EXCEPT ![k] =
              IF ~InTable(k) \/ table[k].holders <= 2 THEN NoEntry
              ELSE [table[k] EXCEPT !.holders = @ - 1]]

\* The finally clause: the last user takes the entry out of the table.
Forget(k) ==
  table' = [table EXCEPT ![k] =
              IF table[k].holders <= 1 THEN NoEntry
              ELSE [table[k] EXCEPT !.holders = @ - 1]]

\* The pass returned or raised.
Leave(t) ==
  /\ task[t].phase = "inside"
  /\ owner' = [owner EXCEPT ![task[t].lock] = NoTask]
  /\ Forget(task[t].key)
  /\ task' = [task EXCEPT ![t].phase = "outside"]
  /\ UNCHANGED waiters

\* Mutant: a cancelled task stays in the lock's queue.
CancelQueued(t) ==
  /\ task[t].phase = "waiting"
  /\ Forget(task[t].key)
  /\ task' = [task EXCEPT ![t].phase = "outside"]
  /\ UNCHANGED <<owner, waiters>>

\* The task was cancelled while it queued: asyncio.Lock drops it from the
\* queue, and the finally clause still runs.
Cancel(t) ==
  LET Others(u) == u # t
      l == task[t].lock IN
  /\ task[t].phase = "waiting"
  /\ waiters' = [waiters EXCEPT ![l] = SelectSeq(@, Others)]
  /\ Forget(task[t].key)
  /\ task' = [task EXCEPT ![t].phase = "outside"]
  /\ UNCHANGED owner

Next ==
  \E t \in Task :
    \/ \E k \in Key : Register(t, k)
    \/ Acquire(t)
    \/ Leave(t)
    \/ Cancel(t)

\* A pass is bounded by its statement timeouts, and the event loop runs every
\* task that is ready.
Fairness == \A t \in Task : WF_vars(Acquire(t)) /\ WF_vars(Leave(t))

Spec == Init /\ [][Next]_vars /\ Fairness

-----------------------------------------------------------------------------
(***************************************************************************)
(* Properties                                                              *)
(***************************************************************************)

\* Two tasks are never inside hold() for the same resource, whatever order
\* they registered, queued, were cancelled and left in: a timer's pass never
\* overlaps a change handler's or a finalizer's.
MutualExclusion ==
  \A t, u \in Task :
    (task[t].phase = "inside" /\ task[u].phase = "inside" /\ task[t].key = task[u].key)
      => t = u

\* The count in an entry is the number of tasks using it, so an entry is
\* deleted exactly when its last user leaves and the table holds no resource
\* the operator has finished with.
CountsUsers ==
  \A k \in Key :
    IF InTable(k) THEN Users(k) # {} /\ table[k].holders = Cardinality(Users(k))
    ELSE Users(k) = {}

\* hold() keeps its promise: whatever becomes of entries and lock objects, the
\* tasks see one pass per resource, and whoever waits for one begins - no
\* wake-up is lost when an entry is deleted and made again.
Promise ==
  INSTANCE OnePass WITH
    waiting <- [k \in Key |-> {t \in Task : task[t].phase = "waiting" /\ task[t].key = k}],
    running <- [k \in Key |-> {t \in Task : task[t].phase = "inside" /\ task[t].key = k}]
PromiseKept == Promise!Spec
=============================================================================
