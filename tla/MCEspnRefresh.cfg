SPECIFICATION FairSpec
CONSTANTS
  Users = {alice}
  Devices = {phone}
  ServerPaths = {"server-direct", "server-session"}
  StaleAfter = 2
  Lifetime = 1
  MaxTime = 2
  MaxRequests = 2
  MaxDelay = 1
  MaxTries = 1
  MaxJobs = 1
INVARIANTS TypeOK NeverRefusedForALiveRequest
PROPERTIES KeepsThePromise EveryRequestSettles
CHECK_DEADLOCK FALSE
