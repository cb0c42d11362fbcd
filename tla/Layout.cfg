SPECIFICATION Spec
CONSTANTS
  Processes = {"a", "b"}
  UmaskOf <- MCUmask
  Above <- MCRoot
  Obstructions <- MCObstructions
  MaxCalls = 3
  MaxFaults = 1
INVARIANTS
  TypeOK
  OkIsComplete
  RaceIsNoError
PROPERTIES
  Idempotent
  RetryFinishes
\* A program may stop calling ensure_layout; that a call ends is RetryFinishes.
CHECK_DEADLOCK FALSE
