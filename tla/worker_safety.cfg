\* Two workers, branching across them, a storage slot that may fail, a missed
\* round and then a blocking one: parking, retries, expiry, commits.
CONSTANTS
  Callers = {c1, c2}
  MaxSessions = 2
  NumWorkers = 2
  Keys = {acct, slot}
  Slots = {slot}
  Ops = {"fork", "advance", "branch"}
  MaxRounds = 1
  Ttl = 1
SPECIFICATION Spec
SYMMETRY Symmetry
INVARIANTS TypeOK NoLostWakeup JobHeldOnce CommitOnce NoPlaceholderKept AnswersFromUpstream
PROPERTIES TakesEffectInTurn
