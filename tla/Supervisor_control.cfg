SPECIFICATION Spec
CONSTANTS
  Units = {0, 1}
  Names <- MCNames
  Reg <- Independent
  StartPlan <- MCStartPlan
  StopPlan <- MCStopPlan
  Service = {1}
  Oneshot = {}
  Remain = {}
  Policy <- Always
  RestartSec <- Ones
  Burst <- Twos
  Interval <- Ones
  TimeoutStart <- Ones
  TimeoutStop <- Ones
  DefaultGrace = 1
  DefaultTarget = 0
  MultiUser = 0
  Pids = {p1, p2}
  NoPid = NoPid
  IgnoresTerm = {}
  SpawnMayFail = {}
  DiskMayFail = TRUE
  Requests <- ControlRequests
  ExternalSignals = {}
  MaxEvents = 2
  MaxBoots = 1
INVARIANTS ActiveServiceHasProcess RestartRateLimited
PROPERTY EnablePersistsFirst
SYMMETRY Symmetry
CHECK_DEADLOCK FALSE
