CONSTANTS
  Tasks = {t1, t2}
  IrqSide = {t1}
  Slots = 2
  Errors = FALSE
SPECIFICATION FairSpec
PROPERTY EveryAccessReturns
CHECK_DEADLOCK FALSE
