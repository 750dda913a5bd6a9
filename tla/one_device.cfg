SPECIFICATION Spec
CONSTANTS
  c1 = c1
  s1 = s1
  s2 = s2
  f1 = f1
  Clients = {c1}
  Slots = {s1, s2}
  Forms = {f1}
  PageSize = 2
  MaxSaves = 3
  MaxVisits = 1
  MaxPending = 1
  MayReject = FALSE
INVARIANTS TypeOK ViewIsCurrent SavesAwaitTheirWrite
           IdsBounded StampIdentifiesRegistration
SYMMETRY SaveSlots
