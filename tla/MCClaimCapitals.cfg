CONSTANTS
  r1 = r1
  r2 = r2
  Requests = {r1, r2}
  Datas <- SomeDatas
  MaxRequests = 0
  NoParty = "nobody"
  None = None
  InitRows <- SomeRows
  Handlers = {r1, r2}
  Files = {}
  NoFile = NoFile
  MaxPatches = 0
  ReferenceDay = 15
  Names <- SomeNames
  Callers = {r1, r2}
  Ttl = 3
  FailureTtl = 1
  RetryCount = 1
  MaxTime = 0
INIT MCInit
NEXT MCNext
CHECK_DEADLOCK FALSE
INVARIANTS CapitalsAreInflected
