------------------------------ MODULE Initramfs ------------------------------
(***************************************************************************)
(* writeonce-initramfs, the kernel's first process: it mounts /proc, /sys  *)
(* and /dev, parses the command line, waits for the root device, moves the *)
(* mounts and the root into place and execs PID 1 (main.rs, cmdline.rs,    *)
(* discover.rs, mount.rs, switch_root.rs).  Any error ends in the recovery *)
(* shell, and that in a pause for good.                                    *)
(*                                                                         *)
(* Time is the number of polling intervals since the search began; a poll  *)
(* takes at most one.                                                      *)
(***************************************************************************)
EXTENDS Naturals, Sequences, FiniteSets

CONSTANTS
  CmdLines,     \* command lines, as sequences of tokens; num is the number
                \* a token carries, <<>> when it has none that parses
  DefaultWait,  \* rootwait_secs without a writeonce.rootwait= token
  MaxClock,     \* bound: polling intervals
  MayFail       \* system calls that may fail

ASSUME InitramfsAssumption ==
  /\ \A c \in CmdLines : c \in Seq([key : {"root", "rootwait", "recovery", "other"}, num : Seq(Nat)])
  /\ DefaultWait \in Nat /\ MaxClock \in Nat
  /\ MayFail \subseteq {"mount", "move", "chdir", "chroot", "exec", "sysfs",
                   "signalfd", "fork", "epoll", "reboot"}

VARIABLES
  tokens,      \* /proc/cmdline
  stage,       \* where the first process is
  driver,      \* the root device's driver is in the kernel
  waitFor,     \* rootwait_secs
  clock,       \* polling intervals since the search began
  appearedAt,  \* when the root device appeared, or Never
  gaveUp,      \* history: the search ended without a device
  oldMounts,   \* mount points below the initramfs root, in mount order
  newMounts    \* mount points below the real root, in mount order

searchVars    == <<driver, waitFor, clock, appearedAt, gaveUp>>
mountVars     == <<oldMounts, newMounts>>
initramfsVars == <<tokens, stage, searchVars, mountVars>>

Never == MaxClock + 1

Pseudo == <<"/proc", "/sys", "/dev">>

InitramfsInit ==
  /\ tokens \in CmdLines
  /\ stage = "essentials"
  /\ driver \in BOOLEAN
  /\ waitFor = 0 /\ clock = 0 /\ appearedAt = Never /\ gaveUp = FALSE
  /\ oldMounts = <<>> /\ newMounts = <<>>

------------------------------------------------------------------------------
\* Helpers

Has(seq, e) == \E i \in 1..Len(seq) : seq[i] = e

\* CmdLine::parse: the last token of a kind decides.
TokensOf(key) == {i \in 1..Len(tokens) : tokens[i].key = key}
Given(key) == TokensOf(key) # {}
LastNum(key) == tokens[CHOOSE i \in TokensOf(key) : \A j \in TokensOf(key) : j <= i].num

\* Garbage parses to no wait at all.
RootWait ==
  IF ~Given("rootwait") THEN DefaultWait
  ELSE IF LastNum("rootwait") = <<>> THEN 0
  ELSE LastNum("rootwait")[1]

------------------------------------------------------------------------------
\* mount::essentials: one mount after the other; an error stops it.
MountNext ==
  /\ stage = "essentials"
  /\ \/ /\ oldMounts' = Append(oldMounts, Pseudo[Len(oldMounts) + 1])
        /\ stage' = IF Len(oldMounts') = Len(Pseudo) THEN "cmdline" ELSE stage
     \/ /\ "mount" \in MayFail
        /\ stage' = "recovery"
        /\ UNCHANGED oldMounts
  /\ UNCHANGED <<tokens, searchVars, newMounts>>

\* wo.recovery asks for the recovery shell, before anything is searched for.
ParseCmdline ==
  /\ stage = "cmdline"
  /\ waitFor' = RootWait
  /\ stage' = IF Given("recovery") THEN "recovery" ELSE "modules"
  /\ UNCHANGED <<tokens, driver, clock, appearedAt, gaveUp, mountVars>>

\* load_configured: a module that is missing or does not load is skipped.
\* Then there must be a root= to search for.
LoadModules ==
  /\ stage = "modules"
  /\ driver' \in {driver, TRUE}
  /\ stage' = IF Given("root") THEN "poll" ELSE "recovery"
  /\ UNCHANGED <<tokens, waitFor, clock, appearedAt, gaveUp, mountVars>>

\* The kernel enumerates the device, at any time or never.
DeviceAppears ==
  /\ driver /\ appearedAt = Never
  /\ appearedAt' = clock
  /\ UNCHANGED <<tokens, stage, driver, waitFor, clock, gaveUp, mountVars>>

\* locate_root_once
Poll ==
  /\ stage = "poll"
  /\ \/ stage' = IF appearedAt # Never THEN "mountroot" ELSE "missed"
     \/ "sysfs" \in MayFail /\ stage' = "recovery"
  /\ UNCHANGED <<tokens, searchVars, mountVars>>

\* Mutant: the deadline comes one interval early.
MissedEarly ==
  /\ stage \in {"missed", "late"}
  /\ stage' = IF clock + 1 < waitFor THEN "sleep" ELSE "recovery"
  /\ gaveUp' = (clock + 1 >= waitFor)
  /\ UNCHANGED <<tokens, driver, waitFor, clock, appearedAt, mountVars>>

\* A miss is retried while the deadline is ahead.
Missed ==
  /\ stage \in {"missed", "late"}
  /\ stage' = IF clock < waitFor THEN "sleep" ELSE "recovery"
  /\ gaveUp' = (clock >= waitFor)
  /\ UNCHANGED <<tokens, driver, waitFor, clock, appearedAt, mountVars>>

\* An interval passes: the sleep, or at most one during a poll.
Tick ==
  /\ clock < MaxClock
  /\ \/ stage = "sleep" /\ stage' = "poll"
     \/ stage = "missed" /\ stage' = "late"
  /\ clock' = clock + 1
  /\ UNCHANGED <<tokens, driver, waitFor, appearedAt, gaveUp, mountVars>>

\* A step of switch_and_exec that only succeeds or fails.
SwitchStep(from, what, to) ==
  /\ stage = from
  /\ \/ stage' = to
     \/ what \in MayFail /\ stage' = "recovery"
  /\ UNCHANGED <<tokens, searchVars, mountVars>>

\* The pseudo file systems at some positions, in their order.
PseudoAt(S) ==
  LET Add(seq, i) == IF i \in S THEN Append(seq, Pseudo[i]) ELSE seq
  IN  Add(Add(Add(<<>>, 1), 2), 3)

\* /proc, /sys and /dev are moved into the new root; one that cannot be moved
\* stays behind and the switch goes on.
MoveMounts ==
  /\ stage = "move"
  /\ \E moved \in SUBSET (1..Len(Pseudo)) :
       /\ "move" \in MayFail \/ moved = 1..Len(Pseudo)
       /\ newMounts' = PseudoAt(moved)
       /\ oldMounts' = PseudoAt((1..Len(Pseudo)) \ moved)
  /\ stage' = "chdir"
  /\ UNCHANGED <<tokens, searchVars>>

\* execve: the process goes on as Pid1, without the variables of the search
\* and without a way back to the old root.
ExecPid1 ==
  /\ stage = "exec"
  /\ \/ /\ stage' = "pid1"
        /\ waitFor' = 0 /\ clock' = 0 /\ appearedAt' = 0
        /\ oldMounts' = <<>>
     \/ /\ "exec" \in MayFail
        /\ stage' = "recovery"
        /\ UNCHANGED <<waitFor, clock, appearedAt, oldMounts>>
  /\ UNCHANGED <<tokens, driver, gaveUp, newMounts>>

SwitchRoot ==
  \/ SwitchStep("mountroot", "mount", "move")
  \/ MoveMounts
  \/ SwitchStep("chdir", "chdir", "moveroot")
  \/ SwitchStep("moveroot", "mount", "chroot")
  \/ SwitchStep("chroot", "chroot", "exec")
  \/ ExecPid1

\* The recovery shell ends with exit or the end of its input; PID 1 then
\* pauses for good.
RecoveryShell ==
  /\ stage = "recovery"
  /\ stage' = "paused"
  /\ UNCHANGED <<tokens, searchVars, mountVars>>

InitramfsStep ==
  \/ MountNext \/ ParseCmdline \/ LoadModules \/ Poll \/ Missed \/ Tick \/ SwitchRoot

InitramfsNext == InitramfsStep \/ DeviceAppears \/ RecoveryShell

------------------------------------------------------------------------------
\* Properties

\* The search gives up only on a device that was not there one poll before
\* the deadline: whatever the command line says of the wait, the last poll
\* does not come earlier.  The deadline is the parsed one (waitFor), and a wait
\* of 0 or 1 intervals leaves no moment to be in time (discover.rs, locate_root).
RootFoundIfInTime == gaveUp => appearedAt = Never \/ appearedAt + 1 >= waitFor

==============================================================================
