\* Two threads of one worker: the guard against processing a notification
\* twice.  The model stops once MaxRecorded ids were recorded.
SPECIFICATION Spec
CONSTANTS
  Ids = {a, b, c}
  NoId = NoId
  MaxLen = 2
  Workers = {v, w}
  Modes = {FALSE}
  MaxRecorded = 4
SYMMETRY Symmetry
INVARIANTS FreshOncePerWindow
CHECK_DEADLOCK FALSE
