SPECIFICATION Spec
CONSTANTS
  d1 = d1
  d2 = d2
  a1 = a1
  a2 = a2
  NoUser = NoUser
  Devices = {d1, d2}
  Accounts = {a1, a2}
  MayThrow = TRUE
  MayReject = TRUE
INVARIANTS TypeOK ShownMatchesUser
PROPERTIES ProfileFollowsAccount NoSecondSignUp
SYMMETRY Symmetric
