CONSTANTS
  me = me
  colleague = colleague
  Users = {me, colleague}
  Me = me
  Requests = {r1, r2, r3}
  ClientIds = {m1, m2}
  StartPool = 2
  StartLimit <- SomeEach
  NoRequest = none
SPECIFICATION Spec
SYMMETRY SymmetricChat
INVARIANTS ChatTypeOK ChargedOncePerMessage FinalIsStored PendingExplained
PROPERTIES AnswerKept
CHECK_DEADLOCK FALSE
