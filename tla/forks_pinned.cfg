\* A quiet chain: two callers, three blocks, two of which stay warm.
CONSTANTS
  Callers = {c1, c2}
  Start = 3
  MaxBlock = 3
  Cap = 2
  MaxUses = 5
  MaxFailures = 1
SPECIFICATION Spec
SYMMETRY Symmetry
INVARIANTS TypeOK LeastRecentlyUsed SharesPinnedBlock
