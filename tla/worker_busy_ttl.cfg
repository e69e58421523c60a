\* Another session keeps the worker busy.
CONSTANTS
  Callers = {c1, c2}
  MaxSessions = 2
  NumWorkers = 1
  Keys = {k1}
  Slots = {}
  Ops = {"fork", "touch"}
  MaxRounds = 1
  Ttl = 1
SPECIFICATION TimedSpec
PROPERTIES IdleSessionExpires
