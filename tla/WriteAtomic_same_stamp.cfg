SPECIFICATION Spec
CONSTANTS
  Threads = {"a", "b"}
  ProcessOf <- MCOneProcess
  Names = {m}
  NoFileName = {}
  NoParent = {}
  Targets <- MCAnyTarget
  Payloads = {"first", "second"}
  Size <- MCSize
  MaxSize = 2
  ClockReadings = {0}
  Homes = {"durable"}
  Faults = {}
  MaxCalls = 2
  MaxMishaps = 0
INVARIANTS
  VisibleWhole
\* A program may stop calling write_atomic; that no call hangs is CallReturns.
CHECK_DEADLOCK FALSE
