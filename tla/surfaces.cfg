SPECIFICATION FairSpec
CONSTANTS
  Handlers = {h1, h2}
  NoHandler = NoHandler
  Nonces = {0, 1}
  Prices = {2}
  MaxSessions = 2
  MaxCalls = 4
  Cost <- CostOf
  Start = 1
  MaxBlock = 2
  BaseFee <- RisingFee
  Funds = 2
  PriorityFee = 1
  MaxFaults = 1
INVARIANTS TypeOK OneAtATime  NeverReportsLower ReceiptsOfSends
INVARIANTS  DiscardCleans
PROPERTY EveryRequestAnswered
CHECK_DEADLOCK FALSE
