CONSTANTS
  owner = owner
  member = member
  other = other
  Users = {owner, member}
  Role <- OneOwner
  Company = company
  Superadmin = superadmin
  Requests = {r1, r2}
  Amounts <- PlusMinusOne
  Deltas <- PlusMinusOne
  Keys = {k1}
  StartDrift = 1
  StartPool = 1
  StartLimit <- OneEach
SPECIFICATION FairSpec
INVARIANTS PoolFloor
PROPERTIES EveryRequestEnds
CHECK_DEADLOCK FALSE
