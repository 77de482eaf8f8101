CONSTANTS
  t1 = t1
  t2 = t2
  t3 = t3
  h1 = h1
  h2 = h2
  h3 = h3
  h4 = h4
  Threads = {t1}
  Handles = {h1, h2, h3, h4}
  MaxNodes = 4
  UsizeMax = 20
  Calls <- UnwindCalls
  Budget <- ReadBudget
  InitLen = 2
  InitHandle <- ReadInit
  Scheduled = {}
  Boom = {1, 3}
SPECIFICATION UnwindSpec
INVARIANTS
  UnwindingKeepsHandles
