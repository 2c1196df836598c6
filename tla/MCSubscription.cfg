\* One address, two connections, two mails.
SPECIFICATION Spec
CONSTANTS
  Request = {r1, r2}
  Address = {ann}
  Mail = {m1, m2}
  Profile = {white, gold}
  None = None
CHECK_DEADLOCK FALSE
INVARIANTS
  OneOutstanding
PROPERTIES
  OnlyALinkActivates
