SPECIFICATION Spec
CONSTANTS
  Threads = {"a", "b"}
  ProcessOf <- MCOwnProcess
  Names = {m}
  NoFileName = {}
  NoParent = {}
  Targets <- MCAnyTarget
  Payloads = {"first", "second"}
  Size <- MCSize
  MaxSize = 2
  ClockReadings = {0}
  Homes = {"absent", "bare"}
  Faults = {"mkdir", "create", "write", "fsync", "rename", "syncdir"}
  MaxCalls = 3
  MaxMishaps = 2
INVARIANTS
  TypeOK
  CrashWhole
  ErrNotPublished
PROPERTIES
  PublishedFrozen
  Implements
\* A program may stop calling write_atomic; that no call hangs is CallReturns.
CHECK_DEADLOCK FALSE
