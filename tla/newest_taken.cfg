CONSTANTS
  t1 = t1
  t2 = t2
  t3 = t3
  h1 = h1
  h2 = h2
  h3 = h3
  h4 = h4
  Threads = {t1, t2}
  Handles = {h1, h2, h3, h4}
  MaxNodes = 2
  UsizeMax = 20
  Calls <- TakeCalls
  Budget <- TakeBudget
  InitLen = 2
  InitHandle <- TakeInit
  Scheduled = {}
SPECIFICATION Spec
INVARIANTS
  IntoInnerIsNewest
