SPECIFICATION FairSpec
CONSTANTS
  d1 = d1
  d2 = d2
  a1 = a1
  a2 = a2
  NoUser = NoUser
  Devices = {d1}
  Accounts = {a1, a2}
  MayThrow = FALSE
  MayReject = FALSE
INVARIANTS SpinnerAwaited
PROPERTIES SpinnerEnds ProfileStored
