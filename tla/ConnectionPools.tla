---------------------------- MODULE ConnectionPools ----------------------------
(***************************************************************************)
(* The connection pools of one PostgresInstance, one per database, that    *)
(* every pass shares (postgres/connection.py, PoolRegistry).  A pass reads *)
(* the credentials from the Secret once and connects with them several     *)
(* times; the Secret and the server's password change behind its back.     *)
(* The registry's lock is held while a pool is looked up, recycled or      *)
(* opened, and not while connections are taken from it, or while pools     *)
(* taken out of the table are closed.                                      *)
(*                                                                         *)
(* The pool itself is psycopg's, and external: a closed one hands out no   *)
(* connection and leaves those in use alone; an open one hands out an idle *)
(* connection, or makes one if the server accepts its credentials, or      *)
(* times out.  Cancelled tasks are left out: the operator cancels passes   *)
(* only when it stops.                                                     *)
(***************************************************************************)
EXTENDS Naturals

CONSTANTS
  Pass,         \* the passes that run at a time
  Database,     \* the databases of the instance
  Credential,   \* what the Secret may hold and the server accept
  Pool,         \* bound: pool objects; one is used again once nobody refers to it
  Nobody,       \* no pass, no pool
  Connects,     \* bound: connections a pass makes
  MaxChanges,   \* bound: changes of the Secret or the server
  MaxCloses     \* bound: close_database and close_instance

ASSUME NobodyIsNone == Nobody \notin Pass \cup Pool \cup Database \cup Credential
ASSUME SomeCredential == Credential # {}
ASSUME BoundsAreNat == Connects \in Nat \ {0} /\ MaxChanges \in Nat /\ MaxCloses \in Nat

VARIABLES
  secret,   \* the credentials in the Secret
  server,   \* the credentials the server accepts
  lock,     \* who holds PoolRegistry._lock
  pools,    \* PoolRegistry._pools: the pool of each database
  pool,     \* the pool objects
  pass,     \* the passes
  left      \* changes and closes that may still happen

poolVars == <<secret, server, lock, pools, pool, pass, left>>

\* "resolved": the pass has read the Secret.  "recycling" and "opening" hold the lock.
Where == {"idle", "resolved", "recycling", "opening", "checkout", "using", "closing"}

Closed == [by |-> Nobody, open |-> FALSE, warm |-> FALSE]

PoolsTypeOK ==
  /\ secret \in Credential /\ server \in Credential
  /\ lock \in Pass \cup {Nobody}
  /\ pools \in [Database -> Pool \cup {Nobody}]
  /\ pool \in [Pool -> [by : Credential, open : BOOLEAN, warm : BOOLEAN] \cup {Closed}]
  /\ pass \in [Pass -> [at : Where, by : Credential \cup {Nobody}, db : Database \cup {Nobody},
                        pool : Pool \cup {Nobody}, closing : SUBSET Pool,
                        connects : 0 .. Connects, failed : BOOLEAN]]
  /\ left \in [changes : 0 .. MaxChanges, closes : 0 .. MaxCloses]

-----------------------------------------------------------------------------
\* Helpers

Registered == {pools[d] : d \in Database} \ {Nobody}

\* In somebody's hands: to be closed, being opened, or used.
InHand == UNION {pass[t].closing : t \in Pass} \cup {pass[t].pool : t \in Pass}

\* The objects a new pool can be.
Spare == {p \in Pool : ~pool[p].open /\ p \notin InHand}

Close(ps) == [p \in Pool |-> IF p \in ps THEN Closed ELSE pool[p]]

\* The pass ends; what failed is retried.
Idle(t, failed) ==
  pass' = [pass EXCEPT ![t] = [@ EXCEPT !.at = "idle", !.by = Nobody, !.pool = Nobody,
                                        !.connects = 0, !.failed = failed]]

-----------------------------------------------------------------------------
\* A pass

\* build_endpoint: the endpoint of this pass, whatever becomes of the Secret.
Resolve(t) ==
  /\ pass[t].at = "idle"
  /\ pass' = [pass EXCEPT ![t].at = "resolved", ![t].by = secret,
                          ![t].connects = Connects, ![t].failed = FALSE]
  /\ UNCHANGED <<secret, server, lock, pools, pool, left>>

\* Mutant: a pool is found by its key, whatever credentials it was opened with.
ReusableByKey(t, d) == pools[d] # Nobody

\* There is a pool, and its fingerprint is that of this pass's endpoint.
Reusable(t, d) == pools[d] # Nobody /\ pool[pools[d]].by = pass[t].by

\* _pool, the lookup: the pool of this endpoint, without waiting.
Reuse(t, d) ==
  /\ pass[t].at = "resolved" /\ pass[t].connects > 0
  /\ lock = Nobody /\ Reusable(t, d)
  /\ pass' = [pass EXCEPT ![t].at = "checkout", ![t].pool = pools[d]]
  /\ UNCHANGED <<secret, server, lock, pools, pool, left>>

\* Mutant: the table is read without the lock.
LookupUnlocked(t, d) ==
  /\ pass[t].at = "resolved" /\ pass[t].connects > 0 /\ ~Reusable(t, d)
  /\ lock' = t
  /\ pools' = [pools EXCEPT ![d] = Nobody]
  /\ pass' = [pass EXCEPT ![t].at = IF pools[d] = Nobody THEN "opening" ELSE "recycling",
                          ![t].db = d, ![t].closing = {pools[d]} \ {Nobody}]
  /\ UNCHANGED <<secret, server, pool, left>>

\* _pool, the lookup: there is none, or one with other parameters that must go.
Lookup(t, d) ==
  /\ pass[t].at = "resolved" /\ pass[t].connects > 0 /\ ~Reusable(t, d)
  /\ lock = Nobody /\ lock' = t
  /\ pools' = [pools EXCEPT ![d] = Nobody]
  /\ pass' = [pass EXCEPT ![t].at = IF pools[d] = Nobody THEN "opening" ELSE "recycling",
                          ![t].db = d, ![t].closing = {pools[d]} \ {Nobody}]
  /\ UNCHANGED <<secret, server, pool, left>>

\* _pool: the pool with other parameters is closed.
Recycle(t) ==
  /\ pass[t].at = "recycling"
  /\ pool' = Close(pass[t].closing)
  /\ pass' = [pass EXCEPT ![t].at = "opening", ![t].closing = {}]
  /\ UNCHANGED <<secret, server, lock, pools, left>>

\* _pool: a new pool is opened ...
Open(t) ==
  /\ pass[t].at = "opening" /\ pass[t].pool = Nobody
  /\ Spare # {}
  /\ LET p == CHOOSE q \in Spare : TRUE
     IN  /\ pool' = [pool EXCEPT ![p] = [by |-> pass[t].by, open |-> TRUE, warm |-> FALSE]]
         /\ pass' = [pass EXCEPT ![t].pool = p]
  /\ UNCHANGED <<secret, server, lock, pools, left>>

\* ... registered, and the lock released.
RegisterPool(t) ==
  /\ pass[t].at = "opening" /\ pass[t].pool # Nobody
  /\ pools' = [pools EXCEPT ![pass[t].db] = pass[t].pool]
  /\ lock' = Nobody
  /\ pass' = [pass EXCEPT ![t].at = "checkout", ![t].db = Nobody]
  /\ UNCHANGED <<secret, server, pool, left>>

\* connection: what psycopg's pool hands out is idle, or new and accepted.
Served(p) == pool[p].open /\ (pool[p].warm \/ pool[p].by = server)

Checkout(t) ==
  /\ pass[t].at = "checkout"
  /\ IF Served(pass[t].pool)
     THEN pass' = [pass EXCEPT ![t].at = "using", ![t].connects = @ - 1]
     ELSE Idle(t, TRUE)  \* PoolTimeout or PoolClosed: ConnectionFailure, retried
  /\ UNCHANGED <<secret, server, lock, pools, pool, left>>

\* The connection goes back, to be closed if its pool was closed meanwhile.
Return(t) ==
  /\ pass[t].at = "using"
  /\ pool' = [pool EXCEPT ![pass[t].pool].warm = pool[pass[t].pool].open]
  /\ pass' = [pass EXCEPT ![t].at = "resolved", ![t].pool = Nobody]
  /\ UNCHANGED <<secret, server, lock, pools, left>>

Finish(t) ==
  /\ pass[t].at = "resolved" /\ pass[t].connects = 0
  /\ Idle(t, FALSE)
  /\ UNCHANGED <<secret, server, lock, pools, pool, left>>

\* close_database, and close_instance for every database: out of the table under
\* the lock ...
CloseDatabases(t, ds) ==
  /\ pass[t].at = "resolved" /\ left.closes > 0
  /\ lock = Nobody
  /\ pass' = [pass EXCEPT ![t].at = "closing",
                          ![t].closing = {pools[d] : d \in ds} \ {Nobody}]
  /\ pools' = [d \in Database |-> IF d \in ds THEN Nobody ELSE pools[d]]
  /\ left' = [left EXCEPT !.closes = @ - 1]
  /\ UNCHANGED <<secret, server, lock, pool>>

\* ... and closed one after the other without it.
CloseNext(t) ==
  /\ pass[t].at = "closing"
  /\ \/ /\ pass[t].closing = {}
        /\ pass' = [pass EXCEPT ![t].at = "resolved"]
        /\ UNCHANGED pool
     \/ \E p \in pass[t].closing :
          /\ pool' = Close({p})
          /\ pass' = [pass EXCEPT ![t].closing = @ \ {p}]
  /\ UNCHANGED <<secret, server, lock, pools, left>>

-----------------------------------------------------------------------------
\* What is not the operator

\* The password changes, in the Secret or at the server, in either order.
Change ==
  /\ left.changes > 0
  /\ left' = [left EXCEPT !.changes = @ - 1]
  /\ \/ secret' \in Credential \ {secret} /\ UNCHANGED server
     \/ server' \in Credential \ {server} /\ UNCHANGED secret
  /\ UNCHANGED <<lock, pools, pool, pass>>

\* max_idle: idle connections are given up.
Cool(p) ==
  /\ pool[p].warm
  /\ pool' = [pool EXCEPT ![p].warm = FALSE]
  /\ UNCHANGED <<secret, server, lock, pools, pass, left>>

-----------------------------------------------------------------------------
PoolsInit ==
  /\ secret = CHOOSE c \in Credential : TRUE  \* which one it is makes no difference
  /\ server = secret
  /\ lock = Nobody
  /\ pools = [d \in Database |-> Nobody]
  /\ pool = [p \in Pool |-> Closed]
  /\ pass = [t \in Pass |-> [at |-> "idle", by |-> Nobody, db |-> Nobody, pool |-> Nobody,
                             closing |-> {}, connects |-> 0, failed |-> FALSE]]
  /\ left = [changes |-> MaxChanges, closes |-> MaxCloses]

\* The lock is an asyncio.Lock: first come, first served.
WaitsForLock(t) == \E d \in Database : Reuse(t, d) \/ Lookup(t, d)
Works(t) ==
  Resolve(t) \/ Recycle(t) \/ Open(t) \/ RegisterPool(t) \/ Checkout(t) \/ Return(t)
    \/ Finish(t) \/ CloseNext(t)

PoolsNext ==
  \/ \E t \in Pass : \/ WaitsForLock(t) \/ Works(t)
                     \/ \E ds \in {{d} : d \in Database} \cup {Database} :
                          CloseDatabases(t, ds)
  \/ Change
  \/ \E p \in Pool : Cool(p)

\* Passes go on, and the timer starts the next one.
PoolsSpec ==
  /\ PoolsInit /\ [][PoolsNext]_poolVars
  /\ \A t \in Pass : WF_poolVars(Works(t)) /\ SF_poolVars(WaitsForLock(t))

-----------------------------------------------------------------------------
\* Properties

\* Every open pool is in the table, or in the hands of the one that is opening
\* or closing it: none is lost open, with its connections, when passes with old
\* and new credentials recycle each other's (connection.py:113-153, 196-210).
NoPoolLost ==
  \A p \in Pool :
    pool[p].open =>
      \/ p \in Registered
      \/ \E t \in Pass : p \in pass[t].closing \/ (pass[t].at = "opening" /\ p = pass[t].pool)

\* Once Secret and server agree for good, passes are served again and again, and
\* in the end none fails, whatever pools and endpoints were in hand when they
\* changed (the module's docstring, connection.py:3-6).
Recovers ==
  <>[](secret = server) =>
    \A t \in Pass : []<>(pass[t].at = "using") /\ <>[]~pass[t].failed
=============================================================================
