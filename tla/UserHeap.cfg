CONSTANTS
  MinIndex = 2
  HeapIndexes = {3, 4, 5}
  Requests = {1, 5, 16, 17}
  User = TRUE
SPECIFICATION Spec
INVARIANT NeverAlreadyAllocated
