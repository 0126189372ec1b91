SPECIFICATION Spec
CONSTANTS
  a = a
  b = b
  t1 = t1
  t2 = t2
  p1 = p1
  p2 = p2
  Payments = {a, b}
  Provider <- MCProvider
  Txns = {t1, t2}
  Born <- MCBorn
  PrepareIds = {1}
  Handlers = {p1, p2}
  PeriodLengths = {1, 2}
  Timeout = 2
  TrialLength = 1
  MaxTime = 3
SYMMETRY Symmetry
INVARIANTS TypeOK PeriodsDisjoint PaidNeverLocked OpenTimeWasBought
PROPERTIES SettledOnce
