CONSTANTS
  owner = owner
  member = member
  other = other
  Users = {owner, member, other}
  Role <- OneOwner
  Company = company
  Superadmin = superadmin
  Requests = {r1, r2, r3}
  Amounts <- PlusMinusOne
  Deltas <- PlusMinusOne
  Keys = {k1}
  StartDrift = 0
  StartPool = 3
  StartLimit <- OneEach
SPECIFICATION Spec
SYMMETRY SymmetricRequests
INVARIANTS TypeOK LocksHeld ReadsStillCurrent LimitsMatchLedger AllocationWithinDrift
PROPERTIES ImplementsAccount
CHECK_DEADLOCK FALSE
