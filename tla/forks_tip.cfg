\* A moving chain: two callers, a new block, one pinned block kept warm.
CONSTANTS
  Callers = {c1, c2}
  Start = 1
  MaxBlock = 2
  Cap = 1
  MaxUses = 2
  MaxFailures = 1
SPECIFICATION FairSpec
INVARIANTS PinnedAtItsBlock SettledForkIsWhole SeesLastRefresh
PROPERTIES EveryOpenReturns CatchesUp
