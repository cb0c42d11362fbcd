SPECIFICATION Spec
CONSTANTS
  None = None
  Packages <- MCPackages
  Values <- MCValues
  MaxInput = 2
  MaxResult = 3
INVARIANTS
  TypeOK
  NothingDangles
  NothingLeaks
  BorrowedIntact
  InputRead
  OutIsResult
PROPERTIES
  CallReturns
