SPECIFICATION Spec
CONSTANTS
  Attempts = {a1, a2}
  Schedulers = {d1, d2}
  Requests = {r1}
  Timeouts = {1}
  MaxClock = 2
  NoAttempt = NoAttempt
  a1 = a1
  a2 = a2
  d1 = d1
  d2 = d2
  r1 = r1
CHECK_DEADLOCK FALSE
INVARIANTS TypeOK
PROPERTIES WriteAuthoritySpec RenewalIsOfItsGrant
SYMMETRY Symmetry
