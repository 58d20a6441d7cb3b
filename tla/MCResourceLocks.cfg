SPECIFICATION Spec
CONSTANTS
  timer = timer
  change = change
  finalizer = finalizer
  lock1 = lock1
  lock2 = lock2
  lock3 = lock3
  user = user
  database = database
  Task <- MCTask
  Lock <- MCLock
  Key <- MCKey
  NoTask = NoTask
  NoEntry = NoEntry
INVARIANT
  CountsUsers
PROPERTY
  PromiseKept
