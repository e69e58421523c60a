\* A fair worker; upstream and the clock as fair as each property asks.
CONSTANTS
  Callers = {c1, c2}
  MaxSessions = 2
  NumWorkers = 1
  Keys = {k1}
  Slots = {}
  Ops = {"fork", "advance", "discard"}
  MaxRounds = 1
  Ttl = 1
SPECIFICATION OfflineSpec
INVARIANTS CountFresh
PROPERTIES OthersNotStalled EveryJobAnswered QuietWorkerExpires
