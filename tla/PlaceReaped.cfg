SPECIFICATION HSpec
CONSTANTS
  s1 = s1  s2 = s2  s3 = s3
  c1 = c1  c2 = c2  c3 = c3
  t1 = t1  t2 = t2
  None = None
  Sessions = {s1, s2}
  Containers = {c1, c2}
  Threads = {t1}
  Places <- RootPlace
  Class <- ClassOf
  Owner <- OwnerOf
  Home <- HomeOf
  IdleAction <- Stops
  Busy = {}
  SessionLimit = 2
  Handlers = {"start", "resume", "stop"}
  MaxCrashes = 0
PROPERTY
  PlaceSurvivesPass
SYMMETRY Symmetry
CHECK_DEADLOCK TRUE
