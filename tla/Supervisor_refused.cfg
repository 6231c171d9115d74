SPECIFICATION Spec
CONSTANTS
  Units = {0, 1, 2}
  Names <- MCNames
  Reg <- Chain
  StartPlan <- MCStartPlan
  StopPlan <- MCStopPlan
  Service = {1, 2}
  Oneshot = {}
  Remain = {}
  Policy <- Always
  RestartSec <- Ones
  Burst <- Zeros
  Interval <- Ones
  TimeoutStart <- Ones
  TimeoutStop <- Ones
  DefaultGrace = 1
  DefaultTarget = 0
  MultiUser = 9
  Pids = {p1, p2}
  NoPid = NoPid
  IgnoresTerm = {}
  SpawnMayFail = {}
  DiskMayFail = FALSE
  Requests <- NoRequests
  ExternalSignals = {}
  MaxEvents = 2
  MaxBoots = 0
INVARIANT CrashIsRestarted
CHECK_DEADLOCK FALSE
