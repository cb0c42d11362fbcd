SPECIFICATION Spec
CONSTANTS
  Threads = {t1}
  Handles = {h1, h2}
  Repos = {"core"}
  Errors = {1}
  MaxViews = 2
  MaxRefresh = 1
INVARIANTS
  UpdateCodeIsErr
\* A program may end anywhere, its Handles released.
CHECK_DEADLOCK FALSE
