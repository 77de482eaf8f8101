CONSTANTS
  t1 = t1
  t2 = t2
  t3 = t3
  h1 = h1
  h2 = h2
  h3 = h3
  h4 = h4
  Threads = {t1, t2, t3}
  Handles = {h1, h2, h3, h4}
  MaxNodes = 3
  UsizeMax = 20
  Calls <- DropCalls
  Budget <- DropBudget
  InitLen = 3
  InitHandle <- DropInit
  Scheduled = {}
SPECIFICATION Spec
INVARIANTS
  NothingLeaks
  LeakInv
  QuietAtRest
  NoDanglingLinks
  SoleUserIsLast
  SingleDrop
