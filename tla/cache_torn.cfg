\* One process whose interval flush meets a refresh.
CONSTANTS
  Procs = {p1}
  Savers = {}
  Ids = {}
  Keys = {k1}
  Start = 1
  MaxBlock = 2
  MaxStarts = 2
  MaxWrites = 2
SPECIFICATION Spec
INVARIANTS FileAtOneBlock
