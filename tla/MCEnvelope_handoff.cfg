SPECIFICATION FairSpec
CONSTANTS
  ann = ann
  bob = bob
  cho = cho
  dan = dan
  p1 = p1
  p2 = p2
  p3 = p3
  Recipients = {ann, bob, cho, dan}
  Role <- DanCopied
  Order <- BobNext
  Mode = "sequential"
  Handlers = {p1, p2}
  MaxMints = 2
  ReminderMax = 1
  Ops = {"void", "expire"}
INVARIANTS RoutingOrderKept HandOffOwed CompletionOwed
PROPERTIES SignedEnvelopeSettles
CHECK_DEADLOCK FALSE
