SPECIFICATION Spec
CONSTANTS
  c1 = c1
  s1 = s1
  l1 = l1
  l2 = l2
  v1 = v1
  v2 = v2
  Clients = {c1}
  Slots = {s1}
  Values = {v1, v2}
  Fields = {"specialization", "education", "registration_number", "role"}
  Loads = {l1}
  PageSize = 2
  MaxSaves = 1
  MaxVisits = 0
  MayReject = FALSE
INVARIANT UntypedFieldsKept
