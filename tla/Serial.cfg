SPECIFICATION Spec
CONSTANTS
  s1 = s1  s2 = s2  s3 = s3
  c1 = c1  c2 = c2  c3 = c3
  t1 = t1  t2 = t2
  None = None
  Sessions = {s1, s2}
  Containers = {c1, c2}
  Threads = {t1}
  Places <- TwoPlaces
  Class <- ClassOf
  Owner <- OwnerOf
  Home <- HomeOf
  IdleAction <- Deletes
  Busy = {"code"}
  SessionLimit = 2
  Handlers = {"start", "pause", "stop", "delete", "admin", "heartbeat"}
  MaxCrashes = 1
PROPERTY
  HandsHomesOn
SYMMETRY Symmetry
CHECK_DEADLOCK TRUE
