SPECIFICATION Spec
CONSTANTS
  Units = {0, 1}
  Names <- MCNames
  Reg <- Independent
  StartPlan <- MCStartPlan
  StopPlan <- MCStopPlan
  Service = {1}
  Oneshot = {}
  Remain = {}
  Policy <- Always
  RestartSec <- Ones
  Burst <- Ones
  Interval <- Ones
  TimeoutStart <- Ones
  TimeoutStop <- Ones
  DefaultGrace = 1
  DefaultTarget = 0
  MultiUser = 9
  Pids = {p1, p2}
  NoPid = NoPid
  IgnoresTerm = {}
  SpawnMayFail = {}
  DiskMayFail = FALSE
  Requests <- StartFirst
  ExternalSignals = {"TERM"}
  MaxEvents = 2
  MaxBoots = 0
INVARIANT QuietAtExit
CHECK_DEADLOCK FALSE
