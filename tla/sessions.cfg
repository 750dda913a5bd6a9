SPECIFICATION SessionSpec
CONSTANTS
  c1 = c1
  s1 = s1
  s2 = s2
  f1 = f1
  a1 = a1
  a2 = a2
  nobody = nobody
  Clients = {c1}
  Slots = {s1, s2}
  Forms = {f1}
  Accounts = {a1, a2}
  NoUser = nobody
  PageSize = 1
  MaxSaves = 2
  MaxVisits = 2
  MaxPending = 1
  MayReject = FALSE
INVARIANTS SessionTypeOK SavesAwaitOneQueue SharedCacheCurrent
SYMMETRY Symmetry
