\* Three threads with every operation, on a file that two Realms may be open on.
SPECIFICATION Spec
CONSTANTS
  Threads = {t1, t2, t3}
  Realms = {r1, r2}
  Operations = {"get", "drop", "logout", "login", "invalidate"}
  None = None
  MaxSessions = 3
INVARIANTS ManagerInv CirclesNeedLogOut InTurnAllIsWell
\* Threads may deadlock: see SyncManagerDeadlock.cfg.
CHECK_DEADLOCK FALSE
