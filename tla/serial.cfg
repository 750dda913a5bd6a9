SPECIFICATION SerialSpec
CONSTANTS
  c1 = c1
  s1 = s1
  f1 = f1
  f2 = f2
  Clients = {c1}
  Slots = {s1}
  Forms = {f1}
  PageSize = 3
  MaxSaves = 4
  MaxVisits = 2
  MaxPending = 0
  MayReject = FALSE
INVARIANTS DatesOrderNumbers
PROPERTIES RegistrationKept SavesAreSerial
