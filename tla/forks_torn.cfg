\* One caller and one refresh.
CONSTANTS
  Callers = {c1}
  Start = 1
  MaxBlock = 2
  Cap = 1
  MaxUses = 1
  MaxFailures = 0
SPECIFICATION Spec
INVARIANTS SessionAtOneBlock
