CONSTANTS
  None = None
  a1 = a1
  a2 = a2
  Callers = {a1, a2}
  Links = {l1}
  Invites = {i1, i2}
  Companies = {c1}
  Orgs = {o1, o2}
  Inns = {"inn"}
  MaxCalls = 5
  Messages = {m1}
  Stamps = {1, 3, 4}
  Deliveries = {a1, a2}
  Ttl = 7
  Skew = 2
  Second = 2
  BodyWait = 1
  MaxTime = 12
  Users = {a1, a2}
  CompanyOf <- OneCompany
  Ips = {"ip1", "ip2"}
  Limit <- TheLimits
  Window = 2
  MaxChats = 4
  MaxClock = 3
  MaxChunks = 3
  Accounts = {a1, a2}
  Chats = {q1, q2}
  MaxDeltas = 1
  Items = {d1, d2}
  MaxRuns = 3
INIT MCInit
NEXT MCNext
SYMMETRY SymmetricPlatform
CHECK_DEADLOCK FALSE
INVARIANTS TokensSpentOnce InviteOrCompany CompaniesAccounted ServedOnce RatesRespected ShownIsStored HistoryIsOwn StreamingIsLive DoneIsEarned
PROPERTIES CompanyKept
