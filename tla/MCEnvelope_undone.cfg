SPECIFICATION Spec
CONSTANTS
  ann = ann
  bob = bob
  cho = cho
  dan = dan
  p1 = p1
  p2 = p2
  p3 = p3
  Recipients = {ann}
  Role <- AllSign
  Order <- OneGroup
  Mode = "parallel"
  Handlers = {p1, p2}
  MaxMints = 2
  ReminderMax = 1
  Ops = {"resend"}
SYMMETRY Symmetry
PROPERTIES SignedStaysSigned
CHECK_DEADLOCK FALSE
