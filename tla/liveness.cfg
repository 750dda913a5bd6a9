SPECIFICATION FairSpec
CONSTANTS
  c1 = c1
  s1 = s1
  s2 = s2
  f1 = f1
  Clients = {c1}
  Slots = {s1}
  Forms = {f1}
  PageSize = 2
  MaxSaves = 2
  MaxVisits = 1
  MaxPending = 1
  MayReject = TRUE
PROPERTIES SavesComplete
