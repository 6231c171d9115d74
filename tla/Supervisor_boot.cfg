SPECIFICATION Spec
CONSTANTS
  Units = {0, 1, 2, 3}
  Names <- MCNames
  Reg <- BootRegistry
  StartPlan <- MCStartPlan
  StopPlan <- MCStopPlan
  Service = {1, 2, 3}
  Oneshot = {1, 3}
  Remain = {1}
  Policy <- Always
  RestartSec <- Ones
  Burst <- Ones
  Interval <- Ones
  TimeoutStart <- Ones
  TimeoutStop <- Ones
  DefaultGrace = 1
  DefaultTarget = 0
  MultiUser = 9
  Pids = {p1, p2}
  NoPid = NoPid
  IgnoresTerm = {}
  SpawnMayFail = {1, 2, 3}
  DiskMayFail = FALSE
  Requests <- NoRequests
  ExternalSignals = {"TERM", "HUP"}
  MaxEvents = 2
  MaxBoots = 0
INVARIANT BootFailurePropagates
CHECK_DEADLOCK FALSE
