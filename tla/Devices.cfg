CONSTANTS
  Tasks = {t1, t2, t3}
  IrqSide = {t1, t2}
  Slots = 2
  Errors = FALSE
SPECIFICATION MCSpec
INVARIANTS MCTypeOK TransfersAreIdentified
PROPERTIES BlockingAccess AccessesReturn
CHECK_DEADLOCK FALSE
