\* Three resolvers, a batchable key, one a worker may read blocking, a block hash.
CONSTANTS
  Threads = {t1, t2, t3}
  Keys = {k1, h1}
  Hashes = {h1}
  Blocking = {k1}
  MaxInFlight = 1
  MaxRetries = 1
  MaxErrors = 1
  NoThread = none
SPECIFICATION FairSpec
INVARIANTS TypeOK FlightsLand AskedOncePerMiss
PROPERTIES KeepsPromise EveryResolveReturns
