\* Two processes that share the directories, one of them started again, and
\* two writes, flushes or saves; the chain moves by a block.
CONSTANTS
  Procs = {p1, p2}
  Savers = {s1}
  Ids = {i1}
  Keys = {k1}
  Start = 1
  MaxBlock = 2
  MaxStarts = 3
  MaxWrites = 2
SPECIFICATION Spec
SYMMETRY Symmetry
INVARIANTS TypeOK FilesWhole FilesOfTheirBlock NeverErodes StoredStays
