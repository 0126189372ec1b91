SPECIFICATION FairSpec
CONSTANTS
  ann = ann
  bob = bob
  w1 = w1
  w2 = w2
  s1 = s1
  s2 = s2
  N = 2
  People = {ann}
  Workers = {w1}
  Sweeps = {s1}
  Poison = {1}
  Attempts = 2
  Limit = 2
  Threshold = 2
  MaxStamps = 6
  MaxFaults = 1
  Ops = {"fail", "queuefail", "stall", "crash", "alertfail"}
INVARIANTS OneAlarmPerFault
PROPERTIES SignatureDelivered
CHECK_DEADLOCK FALSE
