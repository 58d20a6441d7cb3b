--------------------------- MODULE MCResourceLocks ---------------------------
(***************************************************************************)
(* Instance for TLC: three tasks - a timer, a change handler, a finalizer  *)
(* - over two resources.  As many locks as tasks are enough for asyncio's  *)
(* "a new object every time", since a lock nobody refers to is free again. *)
(***************************************************************************)
EXTENDS ResourceLocks, TLC

CONSTANTS timer, change, finalizer, lock1, lock2, lock3, user, database

MCTask == {timer, change, finalizer}
MCLock == {lock1, lock2, lock3}
MCKey == {user, database}
=============================================================================
