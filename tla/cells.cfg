CONSTANTS
  c1 = c1
  c2 = c2
  s1 = s1
  s2 = s2
  k1 = k1
  k2 = k2
  Cells = {c1, c2}
  Slots = {s1, s2}
  Chains = {k1, k2}
  MaxVersion = 3
  MaxFrames = 2
  MaxForgets = 1
  UsizeValues = 16
  None = None
SPECIFICATION Spec
SYMMETRY Symmetry
INVARIANTS
  TypeOK
  ReferencesLive
  HandleIsSnapshot
  DepthIsExact
  ReloadsAreAlone
  CellSafe
PROPERTIES
  CellsMoveOn
