SPECIFICATION Spec
CONSTANTS
  Threads = {t1, t2}
  Handles = {h1, h2}
  Repos = {"core"}
  Errors = {1, 2}
  MaxViews = 2
  MaxRefresh = 0
SYMMETRY Symmetry
INVARIANTS
  TypeOK
  ContextOpen
  OneAtATime
  ErrIsOwn
\* A program may end anywhere, its Handles released.
CHECK_DEADLOCK FALSE
