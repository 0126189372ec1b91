SPECIFICATION Spec
CONSTANTS
  ann = ann
  bob = bob
  w1 = w1
  w2 = w2
  s1 = s1
  s2 = s2
  N = 1
  People = {ann, bob}
  Workers = {w1, w2}
  Sweeps = {s1, s2}
  Poison = {}
  Attempts = 2
  Limit = 25
  Threshold = 5
  MaxStamps = 14
  MaxFaults = 2
  Ops = {"fail", "queuefail", "stall"}
SYMMETRY Symmetry
INVARIANTS CopiesMatchSeal SealedBytesStored MarkedMeansDelivered
CHECK_DEADLOCK FALSE
