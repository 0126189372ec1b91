SPECIFICATION Spec
CONSTANTS
  ann = ann
  bob = bob
  cho = cho
  dan = dan
  p1 = p1
  p2 = p2
  p3 = p3
  Recipients = {ann, bob}
  Role <- AllSign
  Order <- BobNext
  Mode = "sequential"
  Handlers = {p1, p2}
  MaxMints = 2
  ReminderMax = 1
  Ops = {"void", "expire", "crash", "queuefail", "nudge", "mailfail"}
SYMMETRY Symmetry
INVARIANTS TypeOK SealedOnlyWhenAllSigned
PROPERTIES NoSignatureOnceRetired KeepsPromise
CHECK_DEADLOCK FALSE
