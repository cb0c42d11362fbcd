SPECIFICATION Spec
CONSTANTS
  Threads = {"a", "b", "c"}
  ProcessOf <- MCTwoAndOne
  Names = {m, n}
  NoFileName = {dotdot}
  NoParent = {slash}
  Targets <- MCOwnTarget
  Payloads = {"first", "second"}
  Size <- MCSize
  MaxSize = 2
  ClockReadings = {0}
  Homes = {"durable"}
  Faults = {"mkdir", "create", "write", "fsync", "rename"}
  MaxCalls = 2
  MaxMishaps = 2
INVARIANTS
  VisibleWhole
  Tidy
  AckedDurable
PROPERTIES
  ErrHasCause
  CallReturns
\* A program may stop calling write_atomic; that no call hangs is CallReturns.
CHECK_DEADLOCK FALSE
