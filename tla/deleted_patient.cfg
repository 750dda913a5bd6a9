SPECIFICATION HistorySpec
CONSTANTS
  c1 = c1
  c2 = c2
  s1 = s1
  s2 = s2
  f1 = f1
  Clients = {c1, c2}
  Slots = {s1}
  Forms = {f1}
  PageSize = 3
  MaxSaves = 2
  MaxVisits = 0
  MaxPending = 1
  MayReject = FALSE
INVARIANT DeletedPatientGone
SYMMETRY Devices
ACTION_CONSTRAINT AcknowledgementsArrive
