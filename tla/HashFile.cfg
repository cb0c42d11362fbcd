SPECIFICATION Spec
CONSTANTS
  Readers = {"r", "s"}
  Names = {m}
  Versions = {"none", "short", "long"}
  Absent = "absent"
  Size <- MCSize
  Buffer = 2
  HashLen = 3
  Blake3 <- MCBlake3
  MaxCalls = 2
  MaxFaults = 1
INVARIANTS
  TypeOK
  HashOfOneVersion
  ShardIsIdentity
PROPERTIES
  HashReturns
\* A program may stop calling hash_file; that no call hangs is HashReturns.
CHECK_DEADLOCK FALSE
