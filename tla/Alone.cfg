SPECIFICATION Spec
CONSTANTS
  s1 = s1  s2 = s2  s3 = s3
  c1 = c1  c2 = c2  c3 = c3
  t1 = t1  t2 = t2
  None = None
  Sessions = {s1, s2}
  Containers = {c1, c2}
  Threads = {t1}
  Places <- RootAndDesk
  Class <- ClassOf
  Owner <- OwnerOf
  Home <- HomeOf
  IdleAction <- Stops
  Busy = {}
  SessionLimit = 1
  Handlers = {"start", "stop", "delete", "rebuild"}
  MaxCrashes = 1
INVARIANT
  TypeOK
  WithinLimit
  RootStateReachable
SYMMETRY Symmetry
CHECK_DEADLOCK TRUE
