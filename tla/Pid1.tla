-------------------------------- MODULE Pid1 ---------------------------------
(***************************************************************************)
(* writeonce-pid1, which the initramfs execs in its own place: it mounts   *)
(* what is missing, blocks its signals, starts one child and serves        *)
(* signals until it reboots the machine (main.rs, mount.rs, signal.rs,     *)
(* exec.rs).  An error ends in a pause for good.                           *)
(*                                                                         *)
(* A pending signal is a flag: the kernel merges the copies of a signal    *)
(* that arrive before the first is read.  Time is counted from the start   *)
(* of the shutdown; the rounding of a timeout to milliseconds and its      *)
(* interruption (EINTR) only repeat the wait.                              *)
(***************************************************************************)
EXTENDS Initramfs

CONSTANTS
  Orphans,     \* processes that lose their parent to PID 1
  Graces,      \* values of shutdown_grace_seconds
  MaxSignals   \* bound: signals sent to PID 1 by others

ASSUME Pid1Assumption == Graces \subseteq Nat /\ MaxSignals \in Nat

VARIABLES
  grace,       \* Config.shutdown_grace_seconds
  blocked,     \* the signal mask is in place
  pendingSigs, \* signals the signalfd would return
  sent,        \* signals sent so far, for the bound
  childPid,    \* child_pid of event_loop: 1 the child, 0 none
  process,     \* the child (1) and the orphans: "none", "runs", "zombie" or "gone"
  shutting,    \* shutting_down is set
  elapsed      \* time since it was

pid1Vars == <<grace, blocked, pendingSigs, sent, childPid, process, shutting, elapsed>>
vars     == <<initramfsVars, pid1Vars>>

Child     == 1
Processes == Orphans \cup {Child}
Sent      == {"TERM", "INT", "HUP"}

Init ==
  /\ InitramfsInit
  /\ grace \in Graces
  /\ blocked = FALSE /\ pendingSigs = {} /\ sent = 0
  /\ childPid = 0
  /\ process = [p \in Processes |-> "none"]
  /\ shutting = FALSE /\ elapsed = 0

\* Mutant: /dev/pts before /dev.
EssentialsSwapped == <<"/proc", "/sys", "/dev/pts", "/dev", "/run", "/sys/fs/cgroup">>

\* MOUNTS
Essentials == <<"/proc", "/sys", "/dev", "/dev/pts", "/run", "/sys/fs/cgroup">>

\* The mount point a path lies on.
Parent(m) == CASE m = "/dev/pts" -> "/dev" [] m = "/sys/fs/cgroup" -> "/sys" [] OTHER -> "/"

------------------------------------------------------------------------------
\* Before the loop

\* mount_essentials: what is already mounted is EBUSY and left alone; any
\* other error is fatal.
Missing == {i \in 1..Len(Essentials) : ~Has(newMounts, Essentials[i])}

MountEssentials ==
  /\ stage = "pid1"
  /\ \/ /\ Missing = {}
        /\ stage' = "install"
        /\ UNCHANGED newMounts
     \/ /\ \E i \in Missing :
             /\ \A j \in Missing : i <= j
             /\ newMounts' = Append(newMounts, Essentials[i])
        /\ UNCHANGED stage
     \/ /\ Missing # {} /\ "mount" \in MayFail
        /\ stage' = "paused"
        /\ UNCHANGED newMounts
  /\ UNCHANGED <<tokens, searchVars, oldMounts, pid1Vars>>

\* install: the mask, then the descriptor.
InstallSignals ==
  /\ stage = "install"
  /\ blocked' = TRUE
  /\ \/ stage' = "spawn"
     \/ "signalfd" \in MayFail /\ stage' = "paused"
  /\ UNCHANGED <<tokens, searchVars, mountVars, grace, pendingSigs, sent, childPid, process,
                 shutting, elapsed>>

\* spawn_placeholder; a child that cannot exec its program exits.
SpawnPlaceholder ==
  /\ stage = "spawn"
  /\ \/ /\ stage' = "loop"
        /\ childPid' = Child
        /\ process' = [process EXCEPT ![Child] = "runs"]
     \/ /\ "fork" \in MayFail
        /\ stage' = "paused"
        /\ UNCHANGED <<childPid, process>>
  /\ UNCHANGED <<tokens, searchVars, mountVars, grace, blocked, pendingSigs, sent, shutting, elapsed>>

------------------------------------------------------------------------------
\* event_loop

\* The top of the loop: once the grace is over, the child is killed and the
\* machine rebooted.  Without that system call PID 1 returns from main.
LoopTop ==
  /\ stage = "loop"
  /\ \/ /\ ~(shutting /\ elapsed >= grace)
        /\ stage' = "wait"
        /\ UNCHANGED process
     \/ /\ shutting /\ elapsed >= grace
        /\ process' = [p \in Processes |-> IF p = childPid /\ process[p] = "runs"
                                             THEN "zombie" ELSE process[p]]
        /\ stage' \in {"rebooted"} \cup (IF "reboot" \in MayFail THEN {"exited"} ELSE {})
  /\ UNCHANGED <<tokens, searchVars, mountVars, grace, blocked, pendingSigs, sent, childPid,
                 shutting, elapsed>>

\* Mutant: the wait has no timeout during the grace.
EpollWaitForever ==
  /\ stage = "wait"
  /\ pendingSigs # {} /\ stage' = "drain"
  /\ UNCHANGED <<tokens, searchVars, mountVars, pid1Vars>>

\* epoll_wait: signals, or the end of the grace.
EpollWait ==
  /\ stage = "wait"
  /\ \/ pendingSigs # {} /\ stage' = "drain"
     \/ shutting /\ elapsed >= grace /\ stage' = "loop"
  /\ UNCHANGED <<tokens, searchVars, mountVars, pid1Vars>>

\* It may also fail, which ends the loop.
EpollFails ==
  /\ stage = "wait" /\ "epoll" \in MayFail
  /\ stage' = "paused"
  /\ UNCHANGED <<tokens, searchVars, mountVars, pid1Vars>>

\* Mutant: one zombie for each SIGCHLD.
ReapOneChild ==
  /\ \E z \in Processes :
       /\ process[z] = "zombie" \/ \A p \in Processes : process[p] # "zombie"
       /\ process' = [process EXCEPT ![z] = IF @ = "zombie" THEN "gone" ELSE @]
  /\ childPid' = IF childPid # 0 /\ process'[childPid] = "gone" THEN 0 ELSE childPid
  /\ UNCHANGED <<shutting, elapsed>>

\* Mutant: the pid of the child is kept after the child is reaped.
ReapChildrenKeepPid ==
  /\ process' = [p \in Processes |-> IF process[p] = "zombie" THEN "gone" ELSE process[p]]
  /\ UNCHANGED <<childPid, shutting, elapsed>>

\* reap_children: every zombie there is.
ReapChildren ==
  /\ process' = [p \in Processes |-> IF process[p] = "zombie" THEN "gone" ELSE process[p]]
  /\ childPid' = IF childPid # 0 /\ process[childPid] = "zombie" THEN 0 ELSE childPid
  /\ UNCHANGED <<shutting, elapsed>>

\* Mutant: every signal starts the grace anew.
BeginShutdownAgain ==
  /\ shutting' = TRUE
  /\ elapsed' = 0
  /\ UNCHANGED <<childPid, process>>

\* The first SIGTERM or SIGINT starts the shutdown and the grace.  What the
\* child does about its SIGTERM is its own affair.
BeginShutdown ==
  /\ shutting' = TRUE
  /\ UNCHANGED <<elapsed, childPid, process>>

\* drain_signalfd: the lowest pending signal is read first.
Order == [HUP |-> 1, INT |-> 2, TERM |-> 3, CHLD |-> 4]

ReadSignal ==
  /\ stage = "drain"
  /\ \E sig \in pendingSigs :
       /\ \A other \in pendingSigs : Order[sig] <= Order[other]
       /\ pendingSigs' = pendingSigs \ {sig}
       /\ CASE sig = "CHLD"            -> ReapChildren
            [] sig \in {"TERM", "INT"} -> BeginShutdown
            [] OTHER                   -> UNCHANGED <<shutting, elapsed, childPid, process>>
  /\ UNCHANGED <<initramfsVars, grace, blocked, sent>>

Drained ==
  /\ stage = "drain" /\ pendingSigs = {}
  /\ stage' = "loop"
  /\ UNCHANGED <<tokens, searchVars, mountVars, pid1Vars>>

Pid1Step ==
  \/ MountEssentials \/ InstallSignals \/ SpawnPlaceholder
  \/ LoopTop \/ EpollWait \/ ReadSignal \/ Drained

------------------------------------------------------------------------------
\* The rest of the system

Served == {"loop", "wait", "drain"}

\* PID 1 has no handlers: before the mask is in place a signal is dropped.
Signal(sig) ==
  /\ stage \in {"pid1", "install", "spawn"} \cup Served
  /\ sent < MaxSignals
  /\ sent' = sent + 1
  /\ pendingSigs' = IF blocked THEN pendingSigs \cup {sig} ELSE pendingSigs
  /\ UNCHANGED <<initramfsVars, grace, blocked, childPid, process, shutting, elapsed>>

OrphanAdopted(o) ==
  /\ stage \in Served /\ process[o] = "none"
  /\ process' = [process EXCEPT ![o] = "runs"]
  /\ UNCHANGED <<initramfsVars, grace, blocked, pendingSigs, sent, childPid, shutting, elapsed>>

ProcessExits(p) ==
  /\ stage \in Served /\ process[p] = "runs"
  /\ process' = [process EXCEPT ![p] = "zombie"]
  /\ pendingSigs' = pendingSigs \cup {"CHLD"}
  /\ UNCHANGED <<initramfsVars, grace, blocked, sent, childPid, shutting, elapsed>>

GracePasses ==
  /\ stage \in Served /\ shutting /\ elapsed < grace
  /\ elapsed' = elapsed + 1
  /\ UNCHANGED <<initramfsVars, grace, blocked, pendingSigs, sent, childPid, process, shutting>>

Environment ==
  \/ \E sig \in Sent : Signal(sig)
  \/ \E o \in Orphans : OrphanAdopted(o)
  \/ \E p \in Processes : ProcessExits(p)
  \/ GracePasses

Next == (InitramfsNext /\ UNCHANGED pid1Vars) \/ Pid1Step \/ EpollFails \/ Environment

\* PID 1 is scheduled and time passes; a system call need not fail.
Spec == Init /\ [][Next]_vars /\ WF_vars(Pid1Step) /\ WF_vars(GracePasses)

------------------------------------------------------------------------------
\* Properties

Stages == {"essentials", "cmdline", "modules", "poll", "missed", "late", "sleep", "mountroot",
           "move", "chdir", "moveroot", "chroot", "exec", "recovery", "paused",
           "pid1", "install", "spawn", "rebooted", "exited"} \cup Served

TypeOK ==
  /\ tokens \in CmdLines /\ stage \in Stages
  /\ driver \in BOOLEAN /\ waitFor \in Nat /\ clock \in 0..MaxClock
  /\ appearedAt \in 0..Never /\ gaveUp \in BOOLEAN
  /\ grace \in Graces /\ blocked \in BOOLEAN
  /\ pendingSigs \subseteq Sent \cup {"CHLD"} /\ sent \in 0..MaxSignals
  /\ childPid \in {0, Child}
  /\ process \in [Processes -> {"none", "runs", "zombie", "gone"}]
  /\ shutting \in BOOLEAN /\ elapsed \in 0..grace

\* A path is seen unless its mount point was mounted over afterwards.
Visible(m) ==
  \E i \in 1..Len(newMounts) :
    /\ newMounts[i] = m
    /\ \A j \in (i + 1)..Len(newMounts) : newMounts[j] \notin {m, Parent(m)}

\* The child finds all six file systems, whichever of them the initramfs
\* managed to move into the new root, and none is mounted twice
\* (switch_root.rs, switch_and_exec; mount.rs, mount_essentials).
ChildSeesMounts ==
  process[Child] # "none" =>
    /\ \A i \in 1..Len(Essentials) : Visible(Essentials[i])
    /\ Len(newMounts) = Len(Essentials)

\* PID 1 signals child_pid only while it names its own child, running or not
\* yet reaped: a pid that was reaped is free for reuse (signal.rs,
\* reap_children and finish_shutdown).
PidNamesOwnChild == childPid # 0 => process[childPid] \in {"runs", "zombie"}

\* A shutdown that has begun is never taken back, and no repeated signal
\* makes its grace longer (signal.rs, drain_signalfd).
GraceNeverRestarts == [][shutting => shutting' /\ elapsed' >= elapsed]_vars

Over == stage \in {"rebooted", "exited", "paused"}

\* Once PID 1 has a SIGTERM or SIGINT pending its work comes to an end, whatever
\* the child does and whatever else arrives: the machine reboots, or, where a
\* system call failed, PID 1 returns from main or pauses for good (signal.rs,
\* event_loop).
ShutdownEnds == (pendingSigs \cap {"TERM", "INT"} # {}) ~> Over

\* Every process that dies as a child of PID 1 is reaped, also one whose
\* SIGCHLD was merged with another's, unless the machine goes down first
\* (signal.rs, reap_children).
ZombiesAreReaped == \A p \in Processes : (process[p] = "zombie") ~> (process[p] = "gone" \/ Over)

==============================================================================
