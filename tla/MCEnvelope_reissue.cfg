SPECIFICATION Spec
CONSTANTS
  ann = ann
  bob = bob
  cho = cho
  dan = dan
  p1 = p1
  p2 = p2
  p3 = p3
  Recipients = {ann}
  Role <- AllSign
  Order <- OneGroup
  Mode = "parallel"
  Handlers = {p1, p2, p3}
  MaxMints = 3
  ReminderMax = 1
  Ops = {"resend", "void", "nudge", "remind"}
SYMMETRY Symmetry
INVARIANTS InvitedHoldLiveLink LinkSingleUse
CHECK_DEADLOCK FALSE
