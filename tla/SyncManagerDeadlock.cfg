\* A thread opens a Realm while another logs the user out.
SPECIFICATION Spec
CONSTANTS
  Threads = {t1, t2}
  Realms = {r1, r2}
  Operations = {"get", "drop", "logout"}
  None = None
  MaxSessions = 2
INVARIANT NoCircularWait
CHECK_DEADLOCK FALSE
