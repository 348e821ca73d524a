CONSTANTS
  Tasks = {t1, t2}
  IrqSide = {t1}
  Slots = 2
  Wrap = 4
  Overlap = FALSE
SPECIFICATION Spec
PROPERTIES IoSpec
CHECK_DEADLOCK FALSE
