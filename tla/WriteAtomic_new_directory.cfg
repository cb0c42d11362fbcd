SPECIFICATION Spec
CONSTANTS
  Threads = {"a"}
  ProcessOf <- MCOwnProcess
  Names = {m}
  NoFileName = {}
  NoParent = {}
  Targets <- MCAnyTarget
  Payloads = {"first", "second"}
  Size <- MCSize
  MaxSize = 2
  ClockReadings = {0}
  Homes = {"absent"}
  Faults = {}
  MaxCalls = 2
  MaxMishaps = 1
INVARIANTS
  AckedDurable
\* A program may stop calling write_atomic; that no call hangs is CallReturns.
CHECK_DEADLOCK FALSE
