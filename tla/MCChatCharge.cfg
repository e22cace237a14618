CONSTANTS
  me = me
  colleague = colleague
  Users = {me, colleague}
  Me = me
  Requests = {r1, r2}
  ClientIds = {m1, m2}
  StartPool = 2
  StartLimit <- SomeEach
  NoRequest = none
SPECIFICATION Spec
SYMMETRY SymmetricChat
INVARIANTS OneChargePerClientId
CHECK_DEADLOCK FALSE
