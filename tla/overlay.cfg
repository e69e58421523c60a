\* Two sessions on a cold or a warm base of one block, one snapshot file.
CONSTANTS
  Ids = {s1, s2}
  contract = contract
  slot = slot
  upstreamCode = upstreamCode
  Accounts = {contract}
  Slots = {slot}
  Values = {0, 1}
  Zero = 0
  Hashes = {upstreamCode}
  NoCode = NoCode
  Nothing = Nothing
  Chain <- MCChain
  Bases <- MCBases
  MaxFiles = 1
SPECIFICATION Spec
SYMMETRY Symmetry
INVARIANTS TypeOK ReadsItsLineage FilesReproduce
