SPECIFICATION FairSpec
CONSTANTS
  Units = {0, 1, 2}
  Names <- MCNames
  Reg <- Chain
  StartPlan <- MCStartPlan
  StopPlan <- MCStopPlan
  Service = {1, 2}
  Oneshot = {}
  Remain = {}
  Policy <- Always
  RestartSec <- Ones
  Burst <- Ones
  Interval <- Ones
  TimeoutStart <- Ones
  TimeoutStop <- Ones
  DefaultGrace = 1
  DefaultTarget = 0
  MultiUser = 9
  Pids = {p1, p2}
  NoPid = NoPid
  IgnoresTerm = {1}
  SpawnMayFail = {}
  DiskMayFail = FALSE
  Requests <- StopOrShutdown
  ExternalSignals = {}
  MaxEvents = 2
  MaxBoots = 0
PROPERTIES EveryExitIsReaped StopReturns PendingRestartIsConsumed ShutdownCompletes
CHECK_DEADLOCK FALSE
