SPECIFICATION LogindSpec
CONSTANTS
  Tasks = {t1, t2}
  Pids = {p1}
  MaxSessions = 1
  MaxInhibitors = 2
  MaxEvents = 1
  Hints = {TRUE}
  MayFail = {"at", "pipe", "emit", "epoll"}
PROPERTIES ReleasedStaysReleased InhibitorsImplementLock
INVARIANTS ObjectsMatchSessions
CHECK_DEADLOCK FALSE
