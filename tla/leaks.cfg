CONSTANTS
  c1 = c1
  c2 = c2
  s1 = s1
  s2 = s2
  k1 = k1
  k2 = k2
  Cells = {c1}
  Slots = {s1}
  Chains = {k1}
  MaxVersion = 2
  MaxFrames = 1
  MaxForgets = 4
  UsizeValues = 4
  None = None
SPECIFICATION Spec
INVARIANTS
  LeakIsSound
