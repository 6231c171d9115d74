------------------------------ MODULE UnitLife -------------------------------
(***************************************************************************)
(* What the supervisor promises of one unit, without pids, plans, clocks,  *)
(* signals and clients: when it may be started, what an exit leads to,     *)
(* when a restart may be scheduled, and what a stop and a shutdown leave.  *)
(***************************************************************************)
CONSTANTS
  Kind,      \* "target", "service" or "oneshot"
  Remains,   \* remain-after-exit
  Restarts,  \* the restart policy
  Limited    \* whether restarts are limited

VARIABLES
  life,      \* its state
  waiting,   \* whether a restart of it is scheduled
  stopping,  \* whether stop_unit is at work, on this unit or on others
  closing    \* whether the supervisor is shutting down

vars == <<life, waiting, stopping, closing>>

Settled == {"Inactive", "Active", "Failed"}

Init ==
  /\ life = "Inactive"
  /\ waiting = FALSE
  /\ stopping = FALSE
  /\ closing = FALSE

\* It is started by a plan, a request or the timer, never in the middle of a
\* stop; a service that is Active may be started again.
Start ==
  /\ ~stopping
  /\ life \in Settled
  /\ life' = IF Kind = "oneshot" THEN "Activating" ELSE "Active"
  /\ UNCHANGED <<waiting, stopping, closing>>

\* A dependency has failed, or it cannot be spawned.
StartFails ==
  /\ ~stopping
  /\ life \in Settled
  /\ life' = "Failed"
  /\ UNCHANGED <<waiting, stopping, closing>>

\* Only its own end takes a oneshot out of Activating.
OneshotEnds ==
  /\ Kind = "oneshot"
  /\ life = "Activating"
  /\ life' \in {"Failed", IF Remains THEN "Active" ELSE "Inactive"}
  /\ UNCHANGED <<waiting, stopping, closing>>

\* An exit nobody planned.
Crash(next) ==
  /\ Kind = "service"
  /\ ~stopping /\ ~closing
  /\ life \in Settled
  /\ life' = next
  /\ UNCHANGED <<stopping, closing>>

\* The policy wants it back: a restart is scheduled,
ExitRestarts ==
  /\ Restarts # "no"
  /\ \E next \in {"Inactive", "Failed"} :
       /\ Restarts = "always" \/ next = "Failed"
       /\ Crash(next)
  /\ waiting' = TRUE

\* or there have been too many.
ExitGivesUp ==
  /\ Restarts # "no"
  /\ Limited
  /\ Crash("Failed")
  /\ UNCHANGED waiting

\* The policy does not want it back.
ExitStays ==
  /\ Restarts # "always"
  /\ \E next \in {"Inactive", "Failed"} :
       /\ Restarts = "on-failure" => next = "Inactive"
       /\ Crash(next)
  /\ UNCHANGED waiting

\* An exit during a stop or a shutdown is taken for a planned one: never a
\* failure, never a reason to restart.
ExitPlanned ==
  /\ Kind = "service"
  /\ stopping \/ closing
  /\ life # "Activating"
  /\ life' = "Inactive"
  /\ UNCHANGED <<waiting, stopping, closing>>

\* The timer takes the restart off its list, to start the unit next.
Fire ==
  /\ waiting
  /\ ~stopping /\ ~closing
  /\ life \in Settled
  /\ waiting' = FALSE
  /\ UNCHANGED <<life, stopping, closing>>

\* A stop begins: it drops the scheduled restart of a unit of its plan, which
\* is Inactive at once or once its process is gone, and leaves others alone.
BeginStop ==
  /\ ~stopping
  /\ life \in Settled
  /\ stopping' = TRUE
  /\ \/ /\ life' = "Inactive" \/ (Kind = "service" /\ life' = "Deactivating")
        /\ waiting' = FALSE
     \/ UNCHANGED <<life, waiting>>
  /\ UNCHANGED closing

\* It ends when the unit has come to rest.
EndStop ==
  /\ stopping
  /\ life \in Settled
  /\ stopping' = FALSE
  /\ UNCHANGED <<life, waiting, closing>>

\* No restart outlives the beginning of a shutdown.
Shutdown ==
  /\ ~stopping /\ ~closing
  /\ closing' = TRUE
  /\ waiting' = FALSE
  /\ UNCHANGED <<life, stopping>>

PowerCycle ==
  /\ life' = "Inactive"
  /\ waiting' = FALSE
  /\ stopping' = FALSE
  /\ closing' = FALSE

Next ==
  \/ Start \/ StartFails \/ OneshotEnds
  \/ ExitRestarts \/ ExitGivesUp \/ ExitStays \/ ExitPlanned
  \/ Fire
  \/ BeginStop \/ EndStop
  \/ Shutdown
  \/ PowerCycle

Spec == Init /\ [][Next]_vars

==============================================================================
