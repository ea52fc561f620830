SPECIFICATION FairSpec
CONSTANTS
  Waiters = {w1}
  StopPolicies = {"Immediately", "LiveIndefinitely", "AfterChangesUploaded"}
  ResyncMode = "Recover"
  ErrorKinds = {"token_expired", "client_reset", "denied", "fatal"}
  MaxSessions = 2
  MaxWaits = 2
  MaxCommits = 1
  MaxResyncs = 1
  MaxRequests = 2
INVARIANTS NothingIsLeftBehind
PROPERTIES DeathUploadsAll NoneForgotten ToldOnce WaitsTellTheTruth WaitsEnd
CHECK_DEADLOCK FALSE
