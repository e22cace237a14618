CONSTANTS
  r1 = r1
  r2 = r2
  Requests = {r1, r2}
  Datas <- SomeDatas
  MaxRequests = 3
  NoParty = "nobody"
  None = None
  InitRows <- SomeRows
  Handlers = {r1, r2}
  Files = {f1, f2, f3}
  NoFile = NoFile
  MaxPatches = 2
  ReferenceDay = 15
  Names <- SomeNames
  Callers = {r1, r2}
  Ttl = 3
  FailureTtl = 1
  RetryCount = 1
  MaxTime = 5
INIT MCInit
NEXT MCNext
SYMMETRY SymmetricClaims
CHECK_DEADLOCK FALSE
INVARIANTS ClaimTypeOK Milestones MailsAccounted StateMatchesData HeaderMatchesData RowHasFile NoOrphans MissingIsExact StoredIsNormal DetailsBelong ConcludedMeansSigned PaymentsNotDenied LinesAgree CachedAnswersFresh
PROPERTIES PaidStaysPaid StatusNeverGoesBack PaidWithData
