\* A storage slot whose blocking read fails.
CONSTANTS
  Callers = {c1}
  MaxSessions = 1
  NumWorkers = 1
  Keys = {acct, slot}
  Slots = {slot}
  Ops = {"fork", "advance"}
  MaxRounds = 1
  Ttl = 1
SPECIFICATION Spec
INVARIANTS UpstreamErrorSurfaces
