SPECIFICATION FairSpec
CONSTANTS
  Publishers = {p1, p2}
  Clients = {c1}
  Kinds <- MCKinds
  Wanted <- MCWanted
  Bytes <- MCBytes
  RingCapacity = 2
  RingByteCapacity = 2
  SubscriberCapacity = 2
  MaxSeq = 4
  MaxConnects = 2
  MaxRestarts = 1
INVARIANTS RingContiguous AtMostOnce GaplessResume
PROPERTY NewestGetsThrough
CHECK_DEADLOCK FALSE
