SPECIFICATION Spec
CONSTANTS
  c1 = c1
  f1 = f1
  Clients = {c1}
  Forms = {f1}
  Counts <- TenRegistrations
INVARIANTS TypeOK DatesOrderNumbers
PROPERTIES RegistrationKept ReplacedNumber
CONSTRAINT FewDocuments
