SPECIFICATION Spec
CONSTANTS
  c1 = c1
  s1 = s1
  l1 = l1
  l2 = l2
  v1 = v1
  v2 = v2
  Clients = {c1}
  Slots = {s1}
  Values = {v1}
  Fields = {"specialization", "education"}
  Loads = {l1, l2}
  PageSize = 3
  MaxSaves = 4
  MaxVisits = 2
  MayReject = FALSE
INVARIANTS TypeOK ListedDoctorsExist
PROPERTIES DatedDoctorsKept
SYMMETRY Visits
