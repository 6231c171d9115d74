SPECIFICATION Spec
CONSTANTS
  o1 = o1
  o2 = o2
  CmdLines <- MCCmdLines
  DefaultWait = 2
  MaxClock = 5
  MayFail = {"mount", "move", "chdir", "chroot", "exec", "sysfs", "signalfd", "fork", "epoll", "reboot"}
  Orphans <- MCOrphans
  Graces = {0, 2}
  MaxSignals = 2
PROPERTIES GraceNeverRestarts ShutdownEnds ZombiesAreReaped
INVARIANTS RootFoundIfInTime ChildSeesMounts PidNamesOwnChild
CHECK_DEADLOCK FALSE
