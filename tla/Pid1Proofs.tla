------------------------------ MODULE Pid1Proofs ------------------------------
(***************************************************************************)
(* For every command line, wait, grace and set of orphans, whatever fails  *)
(* and however many signals arrive: what Initramfs and Pid1 keep true from *)
(* the kernel's first process to the reboot.                               *)
(***************************************************************************)
EXTENDS Pid1, FiniteSetTheorems, WellFoundedInduction, TLAPS

\* A device seen after a miss appeared since the poll that missed it; the
\* search gives up only at its deadline, and for good.
SearchInv ==
  /\ stage = "missed" => appearedAt = Never \/ appearedAt >= clock
  /\ stage = "late" => appearedAt = Never \/ appearedAt + 1 >= clock
  /\ gaveUp => stage \in {"recovery", "paused"} /\ clock >= waitFor

EssentialSet == {Essentials[i] : i \in 1..Len(Essentials)}

\* File systems mounted once each, and below a mount point only after it.
Ordered(seq) ==
  /\ seq \in Seq(EssentialSet)
  /\ \A i, j \in 1..Len(seq) : seq[i] = seq[j] => i = j
  /\ \A i \in 1..Len(seq) :
       Parent(seq[i]) = "/" \/ \E j \in 1..Len(seq) : j < i /\ seq[j] = Parent(seq[i])

\* Those of the new root are.
MountsInv == Ordered(newMounts)

\* Past mount_essentials nothing is missing, and the child is not started
\* before.
ChildInv ==
  /\ stage \in {"install", "spawn"} \cup Served \/ process[Child] # "none" => Missing = {}
  /\ process[Child] # "none" => stage \in Served \cup {"paused", "rebooted", "exited"}

\* The inductive invariant.
IInv ==
  /\ TypeOK
  /\ SearchInv
  /\ RootFoundIfInTime
  /\ MountsInv
  /\ ChildInv
  /\ PidNamesOwnChild

------------------------------------------------------------------------------
\* A non-empty set of numbers has a least member,
LEMMA Least ==
  ASSUME NEW T \in SUBSET Nat, T # {}
  PROVE  \E i \in T : \A j \in T : i <= j
<1> DEFINE R == OpToRel(<, Nat)
<1>1. PICK i \in T : \A j \in T : ~(<<j, i>> \in R)
  BY NatLessThanWellFounded, WFMin
<1>2. \A m, n \in Nat : <<m, n>> \in R <=> m < n
  BY DEF OpToRel
<1> HIDE DEF R
<1>3. \A j \in T : j \in Nat /\ i \in Nat /\ ~(j < i)
  BY <1>1, <1>2
<1>4. QED BY <1>3

\* and a bounded one a greatest.
LEMMA Greatest ==
  ASSUME NEW n \in Nat, NEW T \in SUBSET (1..n), T # {}
  PROVE  \E i \in T : \A j \in T : j <= i
<1> DEFINE U == {m \in Nat : n - m \in T}
<1>1. PICK t \in T : TRUE
  OBVIOUS
<1>2. n - t \in U
  BY <1>1
<1>3. PICK u \in U : \A m \in U : u <= m
  <2>1. U \in SUBSET Nat /\ U # {}
    BY <1>2
  <2> HIDE DEF U
  <2>2. QED BY <2>1, Least
<1>4. \A j \in T : n - j \in U /\ j \in Nat
  OBVIOUS
<1>5. \A j \in T : j <= n - u
  <2> TAKE j \in T
  <2>1. u <= n - j /\ j \in Nat /\ u \in Nat
    BY <1>3, <1>4
  <2>2. QED BY <2>1
<1>6. QED BY <1>3, <1>5

\* The wait is a number, whatever the command line holds.
LEMMA WaitIsNumber ==
  ASSUME tokens \in CmdLines
  PROVE  RootWait \in Nat
<1> DEFINE T == TokensOf("rootwait")
           i == CHOOSE i \in T : \A j \in T : j <= i
<1>1. /\ tokens \in Seq([key : {"root", "rootwait", "recovery", "other"}, num : Seq(Nat)])
      /\ DefaultWait \in Nat
  BY InitramfsAssumption
<1>2. CASE T = {}
  BY <1>1, <1>2 DEF RootWait, Given
<1>3. CASE T # {}
  <2>1. T \in SUBSET (1..Len(tokens)) /\ Len(tokens) \in Nat
    BY <1>1 DEF TokensOf
  <2>2. \E m \in T : \A j \in T : j <= m
    <3> HIDE DEF T
    <3>1. QED BY <1>3, <2>1, Greatest
  <2>3. i \in T
    BY <2>2
  <2>4. LastNum("rootwait") = tokens[i].num
    BY DEF LastNum
  <2> HIDE DEF i, T
  <2>5. LastNum("rootwait") \in Seq(Nat)
    <3> DEFINE R == [key : {"root", "rootwait", "recovery", "other"}, num : Seq(Nat)]
    <3>1. \A k \in 1..Len(tokens) : tokens[k] \in R
      <4>1. tokens \in Seq(R)
        BY <1>1
      <4> HIDE DEF R
      <4>2. QED BY <4>1
    <3>2. tokens[i] \in R
      BY <2>1, <2>3, <3>1
    <3>3. QED BY <2>4, <3>2
  <2>6. CASE LastNum("rootwait") = <<>>
    <3>1. RootWait = 0
      BY <1>3, <2>6 DEF RootWait, Given, T
    <3>2. QED BY <3>1
  <2>7. CASE LastNum("rootwait") # <<>>
    <3>1. RootWait = LastNum("rootwait")[1]
      BY <1>3, <2>7 DEF RootWait, Given, T
    <3>2. LastNum("rootwait")[1] \in Nat
      BY <2>5, <2>7
    <3>3. QED BY <3>1, <3>2
  <2>8. QED BY <2>6, <2>7
<1>4. QED BY <1>2, <1>3

------------------------------------------------------------------------------
\* Init
LEMMA InitInv == Init => IInv
<1> SUFFICES ASSUME Init PROVE IInv
  OBVIOUS
<1> USE InitramfsAssumption, Pid1Assumption DEF Init, InitramfsInit
<1>1. TypeOK
  <2>1. tokens \in CmdLines /\ stage \in Stages /\ driver \in BOOLEAN /\ gaveUp \in BOOLEAN
    BY DEF Stages
  <2>2. waitFor \in Nat /\ clock \in 0..MaxClock /\ appearedAt \in 0..Never
    BY DEF Never
  <2>3. grace \in Graces /\ elapsed \in 0..grace /\ sent \in 0..MaxSignals
    OBVIOUS
  <2>4. process \in [Processes -> {"none", "runs", "zombie", "gone"}] /\ childPid \in {0, Child}
    OBVIOUS
  <2>5. QED BY <2>1, <2>2, <2>3, <2>4 DEF TypeOK
<1>2. SearchInv /\ RootFoundIfInTime
  BY DEF SearchInv, RootFoundIfInTime
<1>3. MountsInv
  BY DEF MountsInv, Ordered
<1>4. ChildInv /\ PidNamesOwnChild
  BY DEF ChildInv, PidNamesOwnChild, Served, Processes, Child
<1>5. QED BY <1>1, <1>2, <1>3, <1>4 DEF IInv

\* The initramfs up to the switch: nothing below the new root, no child.
LEMMA SearchStep ==
  ASSUME IInv, UNCHANGED <<newMounts, pid1Vars>>,
         \/ MountNext \/ ParseCmdline \/ LoadModules \/ DeviceAppears \/ Poll \/ Missed
         \/ Tick \/ RecoveryShell
  PROVE  IInv'
<1> USE InitramfsAssumption DEF searchVars, mountVars, pid1Vars
<1>1. TypeOK'
  <2> USE DEF IInv, TypeOK, Stages, Served
  <2>1. CASE MountNext
    BY <2>1 DEF MountNext
  <2>2. CASE ParseCmdline
    BY <2>2, WaitIsNumber DEF ParseCmdline
  <2>3. CASE LoadModules
    BY <2>3 DEF LoadModules
  <2>4. CASE DeviceAppears
    BY <2>4 DEF DeviceAppears, Never
  <2>5. CASE Poll
    BY <2>5 DEF Poll
  <2>6. CASE Missed
    <3>1. gaveUp' \in BOOLEAN
      BY <2>6 DEF Missed
    <3>2. QED BY <2>6, <3>1 DEF Missed
  <2>7. CASE RecoveryShell
    BY <2>7 DEF RecoveryShell
  <2>8. CASE Tick
    BY <2>8 DEF Tick
  <2>9. QED BY <2>1, <2>2, <2>3, <2>4, <2>5, <2>6, <2>7, <2>8
<1>2. SearchInv' /\ RootFoundIfInTime'
  <2> USE DEF IInv, TypeOK, SearchInv, RootFoundIfInTime, Never
  <2>1. CASE MountNext
    BY <2>1 DEF MountNext
  <2>2. CASE LoadModules
    BY <2>2 DEF LoadModules
  <2>3. CASE Poll
    BY <2>3 DEF Poll
  <2>4. CASE RecoveryShell
    BY <2>4 DEF RecoveryShell
  <2>5. CASE ParseCmdline
    BY <2>5, WaitIsNumber DEF ParseCmdline
  <2>6. CASE DeviceAppears
    BY <2>6 DEF DeviceAppears
  <2>7. CASE Missed
    BY <2>7 DEF Missed
  <2>8. CASE Tick
    BY <2>8 DEF Tick
  <2>9. QED BY <2>1, <2>2, <2>3, <2>4, <2>5, <2>6, <2>7, <2>8
<1>3. MountsInv' /\ PidNamesOwnChild'
  BY DEF IInv, MountsInv, PidNamesOwnChild
<1>4. ChildInv'
  BY DEF IInv, ChildInv, Missing, Has, Served, MountNext, ParseCmdline, LoadModules,
     DeviceAppears, Poll, Missed, Tick, RecoveryShell
<1>5. QED BY <1>1, <1>2, <1>3, <1>4 DEF IInv

\* Another file system may follow, once its mount point is there.
LEMMA Grow ==
  ASSUME NEW s, Ordered(s), NEW m \in EssentialSet, ~Has(s, m),
         Parent(m) = "/" \/ Has(s, Parent(m))
  PROVE  Ordered(Append(s, m))
<1> DEFINE n == Len(s)
           t == Append(s, m)
<1>1. s \in Seq(EssentialSet) /\ n \in Nat
  BY DEF Ordered
<1>2. /\ t \in Seq(EssentialSet) /\ Len(t) = n + 1
      /\ \A k \in 1..n : t[k] = s[k]
      /\ t[n + 1] = m
  BY <1>1
<1>3. \A k \in 1..n : s[k] # m
  BY DEF Has
<1> HIDE DEF t
<1>4. \A k, l \in 1..n + 1 : t[k] = t[l] => k = l
  BY <1>1, <1>2, <1>3 DEF Ordered
<1>5. \A k \in 1..n + 1 : \/ Parent(t[k]) = "/"
                          \/ \E l \in 1..n + 1 : l < k /\ t[l] = Parent(t[k])
  <2> TAKE k \in 1..n + 1
  <2>1. CASE k \in 1..n
    BY <1>1, <1>2, <2>1 DEF Ordered
  <2>2. CASE k = n + 1
    BY <1>1, <1>2, <2>2 DEF Has
  <2>3. QED BY <1>1, <2>1, <2>2
<1>6. QED BY <1>2, <1>4, <1>5 DEF Ordered, t

\* Whichever of /proc, /sys and /dev are moved, they arrive in this order.
LEMMA MovedInOrder == \A S \in SUBSET (1..Len(Pseudo)) : Ordered(PseudoAt(S))
<1> TAKE S \in SUBSET (1..Len(Pseudo))
<1> DEFINE a == IF 1 \in S THEN Append(<<>>, "/proc") ELSE <<>>
           b == IF 2 \in S THEN Append(a, "/sys") ELSE a
           c == IF 3 \in S THEN Append(b, "/dev") ELSE b
           Only(s, X) == \A i \in 1..Len(s) : s[i] \in X
<1>1. PseudoAt(S) = c
  BY DEF PseudoAt, Pseudo
<1>2. {"/proc", "/sys", "/dev"} \subseteq EssentialSet
  <2>1. /\ Len(Essentials) = 6 /\ Essentials[1] = "/proc" /\ Essentials[2] = "/sys"
        /\ Essentials[3] = "/dev"
    BY DEF Essentials
  <2>2. QED BY <2>1 DEF EssentialSet
<1>3. Parent("/proc") = "/" /\ Parent("/sys") = "/" /\ Parent("/dev") = "/"
  BY DEF Parent
<1>4. Ordered(<<>>) /\ ~Has(<<>>, "/proc")
  BY DEF Ordered, Has
<1>5. ASSUME NEW s, Ordered(s), NEW X, Only(s, X), NEW m \in {"/proc", "/sys", "/dev"}, m \notin X
      PROVE  Ordered(Append(s, m)) /\ Only(Append(s, m), X \cup {m})
  <2>1. s \in Seq(EssentialSet)
    BY <1>5 DEF Ordered
  <2>2. Only(Append(s, m), X \cup {m})
    BY <1>5, <2>1
  <2>3. ~Has(s, m) /\ m \in EssentialSet /\ Parent(m) = "/"
    BY <1>2, <1>3, <1>5 DEF Has
  <2>4. QED BY <1>5, <2>2, <2>3, Grow
<1> HIDE DEF Only
<1>6. Only(<<>>, {})
  BY DEF Only
<1>7. \A s, X, Y : Only(s, X) /\ X \subseteq Y => Only(s, Y)
  BY DEF Only
<1>8. Ordered(a) /\ Only(a, {"/proc"})
  <2>1. Ordered(Append(<<>>, "/proc")) /\ Only(Append(<<>>, "/proc"), {} \cup {"/proc"})
    BY <1>4, <1>5, <1>6
  <2>2. QED BY <1>4, <1>6, <1>7, <2>1
<1> HIDE DEF a
<1>9. Ordered(b) /\ Only(b, {"/proc", "/sys"})
  <2>1. Ordered(Append(a, "/sys")) /\ Only(Append(a, "/sys"), {"/proc"} \cup {"/sys"})
    BY <1>5, <1>8
  <2>2. QED BY <1>7, <1>8, <2>1
<1> HIDE DEF b
<1>10. Ordered(c)
  <2>1. "/dev" \notin {"/proc", "/sys"}
    OBVIOUS
  <2>2. Ordered(Append(b, "/dev"))
    BY <1>5, <1>9, <2>1
  <2>3. QED BY <1>9, <2>2
<1>11. QED BY <1>1, <1>10

\* The switch of the root; still no child.
LEMMA SwitchRootStep ==
  ASSUME IInv, UNCHANGED pid1Vars, SwitchRoot
  PROVE  IInv'
<1> USE InitramfsAssumption DEF searchVars, mountVars, pid1Vars
<1>1. TypeOK'
  <2> USE DEF IInv, TypeOK, Stages, Served
  <2>1. CASE MoveMounts
    BY <2>1 DEF MoveMounts
  <2>2. CASE ExecPid1
    BY <2>2 DEF ExecPid1, Never
  <2>3. ASSUME NEW from, NEW what, NEW to \in {"move", "moveroot", "chroot", "exec"},
               SwitchStep(from, what, to)
        PROVE  TypeOK'
    BY <2>3 DEF SwitchStep
  <2>4. QED BY <2>1, <2>2, <2>3 DEF SwitchRoot
<1>2. SearchInv' /\ RootFoundIfInTime'
  BY DEF IInv, TypeOK, SearchInv, RootFoundIfInTime, SwitchRoot, SwitchStep, MoveMounts, ExecPid1
<1>3. MountsInv'
  <2>1. CASE MoveMounts
    <3>1. PICK S \in SUBSET (1..Len(Pseudo)) : newMounts' = PseudoAt(S)
      BY <2>1 DEF MoveMounts
    <3>2. QED BY <3>1, MovedInOrder DEF MountsInv
  <2>2. CASE UNCHANGED newMounts
    BY <2>2 DEF IInv, MountsInv
  <2>3. QED BY <2>1, <2>2 DEF SwitchRoot, SwitchStep, ExecPid1
<1>4. ChildInv' /\ PidNamesOwnChild'
  BY DEF IInv, ChildInv, PidNamesOwnChild, Served, SwitchRoot, SwitchStep, MoveMounts, ExecPid1
<1>5. QED BY <1>1, <1>2, <1>3, <1>4 DEF IInv

------------------------------------------------------------------------------
\* The search is over once Pid1 runs.
LEMMA SearchOver ==
  ASSUME IInv, UNCHANGED searchVars,
         stage \notin {"missed", "late", "recovery", "paused"},
         stage' \notin {"missed", "late"}
  PROVE  SearchInv' /\ RootFoundIfInTime'
BY DEF IInv, SearchInv, RootFoundIfInTime, searchVars

\* What is first missing is mounted after what it lies on.
LEMMA MountNextInOrder ==
  ASSUME MountsInv, NEW i \in Missing, \A j \in Missing : i <= j
  PROVE  Ordered(Append(newMounts, Essentials[i]))
<1> DEFINE m == Essentials[i]
<1>1. i \in 1..Len(Essentials) /\ m \in EssentialSet /\ ~Has(newMounts, m)
  BY DEF Missing, EssentialSet
<1>2. \A j \in 1..Len(Essentials) : j < i => Has(newMounts, Essentials[j])
  <2>1. i \in Int /\ Len(Essentials) = 6
    BY <1>1 DEF Essentials
  <2>2. QED BY <2>1 DEF Missing
<1>3. /\ i \in {1, 2, 3, 4, 5, 6} /\ Len(Essentials) = 6
      /\ Essentials[2] = "/sys" /\ Essentials[3] = "/dev"
      /\ i \in {1, 2, 3, 5} => m \in {"/proc", "/sys", "/dev", "/run"}
      /\ i = 4 => m = "/dev/pts"
      /\ i = 6 => m = "/sys/fs/cgroup"
  BY <1>1 DEF Essentials
<1> HIDE DEF m
<1>4. Parent(m) = "/" \/ Has(newMounts, Parent(m))
  <2>1. CASE i \in {1, 2, 3, 5}
    BY <1>3, <2>1 DEF Parent
  <2>2. CASE i = 4
    <3>1. Parent(m) = "/dev"
      BY <1>3, <2>2 DEF Parent
    <3>2. Has(newMounts, Essentials[3])
      BY <1>2, <1>3, <2>2
    <3>3. QED BY <1>3, <3>1, <3>2
  <2>3. CASE i = 6
    <3>1. Parent(m) = "/sys"
      BY <1>3, <2>3 DEF Parent
    <3>2. Has(newMounts, Essentials[2])
      BY <1>2, <1>3, <2>3
    <3>3. QED BY <1>3, <3>1, <3>2
  <2>4. QED BY <1>3, <2>1, <2>2, <2>3
<1>5. QED BY <1>1, <1>4, Grow DEF MountsInv, m

\* mount_essentials
LEMMA MountEssentialsStep == ASSUME IInv, MountEssentials PROVE IInv'
<1> USE DEF searchVars, mountVars, pid1Vars, MountEssentials
<1>1. TypeOK'
  BY DEF IInv, TypeOK, Stages, Served
<1>2. SearchInv' /\ RootFoundIfInTime'
  BY SearchOver
<1>3. MountsInv'
  <2>1. CASE UNCHANGED newMounts
    BY <2>1 DEF IInv, MountsInv
  <2>2. CASE \E i \in Missing : /\ \A j \in Missing : i <= j
                                /\ newMounts' = Append(newMounts, Essentials[i])
    BY <2>2, MountNextInOrder DEF IInv, MountsInv
  <2>3. QED BY <2>1, <2>2
<1>4. ChildInv' /\ PidNamesOwnChild'
  <2>1. process[Child] = "none" /\ process' = process /\ childPid' = childPid
    BY DEF IInv, ChildInv, Served
  <2>2. CASE stage' = "install" /\ Missing = {} /\ UNCHANGED newMounts
    BY <2>1, <2>2 DEF IInv, ChildInv, PidNamesOwnChild, Missing
  <2>3. CASE stage' \in {"pid1", "paused"}
    BY <2>1, <2>3 DEF IInv, ChildInv, PidNamesOwnChild, Served
  <2>4. QED BY <2>2, <2>3
<1>5. QED BY <1>1, <1>2, <1>3, <1>4 DEF IInv

\* Nothing Pid1 does later touches the mounts.
LEMMA MountsKept ==
  ASSUME IInv, UNCHANGED newMounts
  PROVE  MountsInv' /\ Missing' = Missing
BY DEF IInv, MountsInv, Missing

\* install and spawn_placeholder
LEMMA StartStep == ASSUME IInv, InstallSignals \/ SpawnPlaceholder PROVE IInv'
<1> USE DEF searchVars, mountVars, InstallSignals, SpawnPlaceholder
<1>1. TypeOK'
  <2> USE DEF IInv, TypeOK, Stages, Served
  <2>1. CASE InstallSignals
    BY <2>1
  <2>2. CASE SpawnPlaceholder
    BY <2>2 DEF Processes, Child
  <2>3. QED BY <2>1, <2>2
<1>2. SearchInv' /\ RootFoundIfInTime'
  BY SearchOver
<1>3. MountsInv' /\ Missing' = Missing
  BY MountsKept
<1>4. ChildInv' /\ PidNamesOwnChild'
  <2>1. Missing = {} /\ process[Child] = "none"
    BY DEF IInv, ChildInv, Served
  <2>2. CASE InstallSignals
    BY <1>3, <2>1, <2>2 DEF IInv, ChildInv, PidNamesOwnChild, Served
  <2>3. CASE SpawnPlaceholder
    BY <1>3, <2>1, <2>3 DEF IInv, TypeOK, ChildInv, PidNamesOwnChild, Served, Processes, Child
  <2>4. QED BY <2>2, <2>3
<1>5. QED BY <1>1, <1>2, <1>3, <1>4 DEF IInv

\* A step that keeps the child's life and does not leave the loop except for
\* good keeps what was said of the child.
LEMMA ChildKept ==
  ASSUME IInv, stage \in Served, UNCHANGED newMounts,
         stage' \in Served \cup {"paused", "rebooted", "exited"},
         process'[Child] = "none" => process[Child] = "none"
  PROVE  ChildInv'
BY MountsKept DEF IInv, ChildInv, Served

\* The loop of PID 1.
LEMMA LoopStep ==
  ASSUME IInv, LoopTop \/ EpollWait \/ EpollFails \/ ReadSignal \/ Drained
  PROVE  IInv'
<1> USE DEF searchVars, mountVars, initramfsVars, pid1Vars
<1> USE DEF LoopTop, EpollWait, EpollFails, ReadSignal, Drained
<1>1. /\ stage \in Served
      /\ stage' \in Served \cup {"paused", "rebooted", "exited"}
      /\ UNCHANGED newMounts /\ UNCHANGED searchVars
  BY DEF Served
<1>2. /\ process' \in [Processes -> {"none", "runs", "zombie", "gone"}]
      /\ process'[Child] = "none" => process[Child] = "none"
      /\ childPid' \in {0, Child}
      /\ PidNamesOwnChild'
  <2> USE DEF IInv, TypeOK, PidNamesOwnChild, Processes, Child
  <2>1. CASE UNCHANGED <<process, childPid>>
    BY <2>1
  <2>2. CASE LoopTop
    BY <2>2
  <2>3. CASE ReapChildren
    BY <2>3 DEF ReapChildren
  <2>4. QED BY <2>1, <2>2, <2>3 DEF BeginShutdown
<1>3. TypeOK'
  <2>1. /\ pendingSigs' \subseteq pendingSigs /\ sent' = sent /\ grace' = grace
        /\ blocked' = blocked /\ elapsed' = elapsed /\ shutting' \in {shutting, TRUE}
        /\ tokens' = tokens
    BY DEF ReapChildren, BeginShutdown
  <2>2. QED BY <1>1, <1>2, <2>1 DEF IInv, TypeOK, Stages, Served
<1>4. SearchInv' /\ RootFoundIfInTime'
  BY <1>1, SearchOver DEF Served
<1>5. MountsInv' /\ ChildInv'
  BY <1>1, <1>2, MountsKept, ChildKept
<1>6. QED BY <1>2, <1>3, <1>4, <1>5 DEF IInv

\* Signals, processes and time.
LEMMA EnvironmentStep == ASSUME IInv, Environment PROVE IInv'
<1> USE DEF initramfsVars, searchVars, mountVars
<1>1. CASE \E sig \in Sent : Signal(sig)
  <2> PICK sig \in Sent : Signal(sig)
    BY <1>1
  <2> USE DEF Signal
  <2>1. TypeOK'
    BY Pid1Assumption DEF IInv, TypeOK
  <2>2. QED
    BY <2>1, MountsKept DEF IInv, SearchInv, RootFoundIfInTime, ChildInv, PidNamesOwnChild
<1>2. CASE GracePasses
  <2> USE <1>2 DEF GracePasses
  <2>1. TypeOK'
    BY Pid1Assumption DEF IInv, TypeOK
  <2>2. QED
    BY <2>1, MountsKept DEF IInv, SearchInv, RootFoundIfInTime, ChildInv, PidNamesOwnChild
<1>3. CASE \/ \E o \in Orphans : OrphanAdopted(o)
           \/ \E p \in Processes : ProcessExits(p)
  <2>1. PICK p \in Processes : OrphanAdopted(p) \/ ProcessExits(p)
    BY <1>3 DEF Processes
  <2> USE DEF OrphanAdopted, ProcessExits
  <2>2. \E after \in {"runs", "zombie"} : process' = [process EXCEPT ![p] = after]
    <3>1. CASE OrphanAdopted(p)
      BY <3>1
    <3>2. CASE ProcessExits(p)
      BY <3>2
    <3>3. QED BY <2>1, <3>1, <3>2
  <2>3. TypeOK'
    <3>1. process' \in [Processes -> {"none", "runs", "zombie", "gone"}]
      BY <2>2 DEF IInv, TypeOK
    <3>2. QED BY <2>1, <3>1 DEF IInv, TypeOK
  <2>4. PidNamesOwnChild' /\ (process'[Child] = "none" => process[Child] = "none")
    <3>1. childPid' = childPid /\ childPid \in {0, Child} /\ Child \in Processes
      BY <2>1 DEF IInv, TypeOK, Processes
    <3>2. QED BY <2>2, <3>1 DEF IInv, TypeOK, PidNamesOwnChild
  <2>5. ChildInv'
    BY <2>1, <2>4, ChildKept
  <2>6. QED BY <2>1, <2>3, <2>4, <2>5, MountsKept DEF IInv, SearchInv, RootFoundIfInTime
<1>4. QED BY <1>1, <1>2, <1>3 DEF Environment

\* Every step.
LEMMA StepInv == IInv /\ [Next]_vars => IInv'
<1> SUFFICES ASSUME IInv, [Next]_vars PROVE IInv'
  OBVIOUS
<1>1. CASE InitramfsNext /\ UNCHANGED pid1Vars
  <2>1. CASE SwitchRoot
    BY <1>1, <2>1, SwitchRootStep
  <2>2. CASE \/ MountNext \/ ParseCmdline \/ LoadModules \/ DeviceAppears \/ Poll \/ Missed
             \/ Tick \/ RecoveryShell
    <3>1. UNCHANGED newMounts
      BY <2>2 DEF MountNext, ParseCmdline, LoadModules, DeviceAppears, Poll, Missed, Tick,
         RecoveryShell, mountVars
    <3>2. QED BY <1>1, <2>2, <3>1, SearchStep
  <2>3. QED BY <1>1, <2>1, <2>2 DEF InitramfsNext, InitramfsStep
<1>2. CASE Pid1Step \/ EpollFails
  BY <1>2, MountEssentialsStep, StartStep, LoopStep DEF Pid1Step
<1>3. CASE Environment
  BY <1>3, EnvironmentStep
<1>4. CASE UNCHANGED vars
  BY <1>4 DEF vars, initramfsVars, searchVars, mountVars, pid1Vars, IInv, TypeOK, SearchInv,
     RootFoundIfInTime, MountsInv, ChildInv, Missing, PidNamesOwnChild
<1>5. QED BY <1>1, <1>2, <1>3, <1>4 DEF Next

\* The invariant.
THEOREM Invariance == Spec => []IInv
BY InitInv, StepInv, PTL DEF Spec

\* Every variable keeps its type.
THEOREM TypeCorrect == Spec => []TypeOK
<1>1. IInv => TypeOK
  BY DEF IInv
<1>2. QED BY Invariance, <1>1, PTL

\* locate_root gives up only on a device that was not there one poll before
\* the deadline, whatever the command line says of the wait.
THEOREM SearchCorrect == Spec => []RootFoundIfInTime
<1>1. IInv => RootFoundIfInTime
  BY DEF IInv
<1>2. QED BY Invariance, <1>1, PTL

\* finish_shutdown never signals a pid that was reaped.
THEOREM PidCorrect == Spec => []PidNamesOwnChild
<1>1. IInv => PidNamesOwnChild
  BY DEF IInv
<1>2. QED BY Invariance, <1>1, PTL

\* A list that holds every essential file system, in order, holds six.
LEMMA AllMounted ==
  ASSUME MountsInv, Missing = {}
  PROVE  Len(newMounts) = Len(Essentials)
<1> DEFINE n == Len(newMounts)
<1>1. newMounts \in [1..n -> EssentialSet] /\ n \in Nat
  BY DEF MountsInv, Ordered
<1>2. newMounts \in Bijection(1..n, EssentialSet)
  <2>1. \A e \in EssentialSet : \E i \in 1..n : newMounts[i] = e
    BY DEF Missing, EssentialSet, Has
  <2>2. QED BY <1>1, <2>1 DEF MountsInv, Ordered, Bijection, Injection, Surjection, IsInjective
<1>3. Essentials \in Bijection(1..6, EssentialSet) /\ Len(Essentials) = 6
  <2>1. /\ Len(Essentials) = 6
        /\ Essentials[1] = "/proc" /\ Essentials[2] = "/sys" /\ Essentials[3] = "/dev"
        /\ Essentials[4] = "/dev/pts" /\ Essentials[5] = "/run"
        /\ Essentials[6] = "/sys/fs/cgroup"
    BY DEF Essentials
  <2>2. \A i, j \in 1..6 : Essentials[i] = Essentials[j] => i = j
    BY <2>1
  <2>3. Essentials \in [1..6 -> EssentialSet]
    <3>1. Essentials \in Seq({"/proc", "/sys", "/dev", "/dev/pts", "/run", "/sys/fs/cgroup"})
      BY DEF Essentials
    <3>2. QED BY <2>1, <3>1 DEF EssentialSet
  <2>4. QED BY <2>1, <2>2, <2>3 DEF EssentialSet, Bijection, Injection, Surjection, IsInjective
<1>4. Cardinality(EssentialSet) = n
  BY <1>1, <1>2, FS_CountingElements DEF ExistsBijection
<1>5. Cardinality(EssentialSet) = 6
  BY <1>3, FS_CountingElements DEF ExistsBijection
<1>6. QED BY <1>3, <1>4, <1>5

\* The child finds all six file systems, whichever the initramfs could move,
\* and none is mounted twice or hidden below another.
THEOREM MountsCorrect == Spec => []ChildSeesMounts
<1>1. ASSUME MountsInv, NEW m \in EssentialSet, Has(newMounts, m) PROVE Visible(m)
  <2>1. PICK i \in 1..Len(newMounts) : newMounts[i] = m
    BY <1>1 DEF Has
  <2>2. newMounts \in Seq(EssentialSet) /\ Len(newMounts) \in Nat
    BY <1>1 DEF MountsInv, Ordered
  <2>3. ASSUME NEW j \in (i + 1)..Len(newMounts), newMounts[j] \in {m, Parent(m)} PROVE FALSE
    <3>1. j \in 1..Len(newMounts) /\ j > i
      BY <2>1, <2>2, <2>3
    <3>2. newMounts[j] = Parent(m)
      BY <1>1, <2>1, <2>3, <3>1 DEF MountsInv, Ordered
    <3>3. Parent(m) # "/"
      <4>1. "/" \notin EssentialSet
        <5>1. \A k \in 1..Len(Essentials) : Essentials[k] # "/"
          BY DEF Essentials
        <5>2. QED BY <5>1 DEF EssentialSet
      <4>2. QED BY <2>2, <3>1, <3>2, <4>1
    <3>4. PICK k \in 1..Len(newMounts) : k < i /\ newMounts[k] = Parent(m)
      BY <1>1, <2>1, <3>3 DEF MountsInv, Ordered
    <3>5. k = j
      BY <1>1, <3>1, <3>2, <3>4 DEF MountsInv, Ordered
    <3>6. QED BY <2>1, <2>2, <3>1, <3>4, <3>5
  <2>4. QED BY <2>1, <2>3 DEF Visible
<1>2. IInv => ChildSeesMounts
  <2> SUFFICES ASSUME IInv, process[Child] # "none"
               PROVE  /\ \A i \in 1..Len(Essentials) : Visible(Essentials[i])
                      /\ Len(newMounts) = Len(Essentials)
    BY DEF ChildSeesMounts
  <2>1. MountsInv /\ Missing = {}
    BY DEF IInv, ChildInv
  <2>2. \A i \in 1..Len(Essentials) :
          Essentials[i] \in EssentialSet /\ Has(newMounts, Essentials[i])
    BY <2>1 DEF Missing, EssentialSet
  <2>3. QED BY <1>1, <2>1, <2>2, AllMounted
<1>3. QED BY Invariance, <1>2, PTL

\* No step takes a shutdown back or its time.
LEMMA ShutdownStep ==
  ASSUME TypeOK, [Next]_vars, shutting
  PROVE  shutting' /\ elapsed' >= elapsed
<1>1. elapsed \in Nat
  BY Pid1Assumption DEF TypeOK
<1>2. CASE UNCHANGED <<shutting, elapsed>>
  BY <1>1, <1>2
<1>3. CASE ReadSignal
  <2>1. \/ UNCHANGED <<shutting, elapsed>>
        \/ shutting' = TRUE /\ UNCHANGED elapsed
    BY <1>3 DEF ReadSignal, ReapChildren, BeginShutdown
  <2>2. shutting'
    BY <2>1
  <2>3. elapsed' = elapsed
    BY <2>1
  <2>4. QED BY <1>1, <2>2, <2>3
<1>4. CASE GracePasses
  BY <1>1, <1>4 DEF GracePasses
<1>5. CASE (InitramfsNext /\ UNCHANGED pid1Vars) \/ UNCHANGED vars
  BY <1>2, <1>5 DEF pid1Vars, vars
<1>6. CASE Pid1Step \/ EpollFails
  BY <1>2, <1>3, <1>6 DEF Pid1Step, MountEssentials, InstallSignals, SpawnPlaceholder, LoopTop,
     EpollWait, EpollFails, Drained, pid1Vars
<1>7. CASE Environment
  BY <1>2, <1>4, <1>7 DEF Environment, Signal, OrphanAdopted, ProcessExits
<1>8. QED BY <1>5, <1>6, <1>7 DEF Next

\* A shutdown is never taken back, and no repeated signal makes its grace
\* longer.
THEOREM GraceCorrect == Spec => GraceNeverRestarts
<1>1. TypeOK /\ [Next]_vars => [shutting => shutting' /\ elapsed' >= elapsed]_vars
  BY ShutdownStep
<1>2. QED BY TypeCorrect, <1>1, PTL DEF Spec, GraceNeverRestarts

==============================================================================
