CONSTANTS
  t1 = t1
  t2 = t2
  t3 = t3
  h1 = h1
  h2 = h2
  h3 = h3
  h4 = h4
  Threads = {t1, t2, t3}
  Handles = {h1, h2, h3, h4}
  MaxNodes = 3
  UsizeMax = 20
  Calls <- UpgradeCalls
  Budget <- UpgradeBudget
  InitLen = 2
  InitHandle <- UpgradeInit
  Scheduled = {}
SPECIFICATION Spec
INVARIANTS
  AnswersHold
  ClaimedMeansGone
  NewestValueKept
  ValueGoesWithLastShift
PROPERTIES
  ImplementsRegister
  SentinelIsFinal
