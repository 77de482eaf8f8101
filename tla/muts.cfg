CONSTANTS
  t1 = t1
  t2 = t2
  t3 = t3
  h1 = h1
  h2 = h2
  h3 = h3
  h4 = h4
  Threads = {t1, t2}
  Handles = {h1, h2, h3, h4}
  MaxNodes = 3
  UsizeMax = 20
  Calls <- MutCalls
  Budget <- MutBudget
  InitLen = 1
  InitHandle <- MutInit
  Scheduled = {t2}
SPECIFICATION FairSpec
INVARIANTS
  SafeInv
  TypeOK
  ExclusiveUnlessUpgraded
PROPERTIES
  CallsReturn
