CONSTANTS
  owner = owner
  member = member
  other = other
  Users = {owner, member, other}
  Role <- OneOwner
  Company = company
  Superadmin = superadmin
  Requests = {r1, r2, r3}
  Amounts = {1}
  Deltas <- PlusMinusOne
  Keys = {k1}
  StartDrift = 0
  StartPool = 3
  StartLimit <- OneEach
SPECIFICATION SteadySpec
SYMMETRY SymmetricRequests
INVARIANTS AllocationInvariant
CHECK_DEADLOCK FALSE
