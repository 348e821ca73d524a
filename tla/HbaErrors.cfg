CONSTANTS
  Tasks = {t1, t2, t3}
  IrqSide = {t1, t2, t3}
  Slots = 2
  Errors = TRUE
SPECIFICATION Spec
PROPERTY IoSpec
