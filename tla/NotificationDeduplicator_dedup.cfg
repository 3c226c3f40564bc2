\* Calls that do not overlap, and the threads of one process.  No call is made
\* once MaxRecorded ids were recorded, so the model stops.
SPECIFICATION Spec
CONSTANTS
  Ids = {a, b, c, d}
  NoId = NoId
  MaxLen = 2
  Workers = {v, w}
  Modes = {TRUE, FALSE}
  MaxRecorded = 5
SYMMETRY Symmetry
INVARIANTS TypeOK IInv FreshOnce MemoryIsWindow NeverRaises MemoryBounded WindowKept
PROPERTIES NoFalseDuplicate ImplementsWindow
CHECK_DEADLOCK FALSE
