SPECIFICATION Spec
CONSTANTS
  Workers = {w1, w2, w3}
  Runs = 2
  Handlers <- WithAct
SYMMETRY Interchangeable
INVARIANT NoneWaitForEachOther
