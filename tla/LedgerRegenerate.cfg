SPECIFICATION SpecRegen
CONSTANTS
  Session = {s1, s2}
  Key = {k1}
  NoKey = NoKey
  Body = {b1}
  MaxBatch = 1
  MaxSeq = 3
SYMMETRY Symmetry
INVARIANTS AloneKeepsChain NoTwinRows
