SPECIFICATION HSpec
CONSTANTS
  s1 = s1  s2 = s2  s3 = s3
  c1 = c1  c2 = c2  c3 = c3
  t1 = t1  t2 = t2
  None = None
  Sessions = {s1, s2}
  Containers = {c1, c2}
  Threads = {t1, t2}
  Places <- OneDesk
  Class <- ClassOf
  Owner <- OwnerOf
  Home <- HomeOf
  IdleAction <- Deletes
  Busy = {}
  SessionLimit = 2
  Handlers = {"start", "delete", "unlisted"}
  MaxCrashes = 0
INVARIANT
  OwnContainer
PROPERTY
  ReaperSparesQuiet
SYMMETRY Symmetry
CHECK_DEADLOCK TRUE
