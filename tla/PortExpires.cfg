SPECIFICATION HFairSpec
CONSTANTS
  s1 = s1
  t1 = t1
  None = None
  Boot = Boot
  Threads = {t1}
  Sessions = {s1}
  Places <- OnePlace
  PlaceOf <- OnlyPlace
  Subnets = {"10.99.0.0", "10.99.1.0"}
  Lease <- FirstLease
  Ports = {30000}
  MaxFaults = 0
PROPERTY
  ExpiredForwardCloses
CHECK_DEADLOCK TRUE
