--------------------------- MODULE InstallerProofs ----------------------------
(***************************************************************************)
(* For every set of devices, sizes, inputs and failing commands: a         *)
(* confirmed form is valid, only a consented removable disk is wiped, the  *)
(* mounts are undone in order, and success means a bootable stick.         *)
(***************************************************************************)
EXTENDS Installer, SequenceTheorems, FiniteSetTheorems, TLAPS

Screens == {"device", "partition", "user", "keyboard", "summary"}

FormRec == [screen : Screens, device : Devices \cup {0}, esp : Seq(Nat), root : Seq(Nat),
            name : Names \cup {""}, password : Passwords \cup {""},
            confirm : Passwords \cup {""}, layout : Layouts \cup {"us"}]

\* Every screen after one with a check has that check behind it; the form is
\* fresh whenever it is not on display.
FormInv ==
  /\ form \in FormRec
  /\ outcome \in {"none", "confirmed", "cancelled"}
  /\ form.screen \in {"user", "keyboard", "summary"} => PartitionValid(form)
  /\ form.screen \in {"keyboard", "summary"} => UserValid(form)
  /\ form.screen = "summary" => ValidKeymap(form.layout)
  /\ outcome = "confirmed" => form.screen = "summary"
  /\ pc # "form" => form.screen = "device" /\ outcome = "none"

\* The steps before the disk is touched.
Choosing == {"manifest", "spec", "select", "check", "gather", "list", "form", "confirm"}

Cleared(d) == d \in Devices /\ d \in Removable /\ d \in cleared

PlanHolds == ~plan.typed /\ plan.root # 0 => Fits

\* What is known of the operator's choices at each step.
ChoiceInv ==
  /\ pc \in {"select", "check", "gather"} => CliPath
  /\ pc = "check" => device \in Devices
  /\ pc = "gather" => Cleared(device)
  /\ pc = "form" => form.device \in listed /\ \A d \in listed : Cleared(d)
  /\ pc = "confirm" => Cleared(device) /\ PlanHolds /\ (CliPath \/ consent # None)
  /\ pc \in {"zap", "gpt"} =>
       Cleared(device) /\ PlanHolds /\ consent # None /\ ~opts.dryRun

DiskInv ==
  /\ opts.spec \in Specs
  /\ opts.target \in Devices \cup {None}
  /\ disk \in [Devices -> {"old", "zapped", "gpt"}]
  /\ pc \in Choosing \cup {"zap"} => \A d \in Devices : disk[d] = "old"
  /\ WipedOnlyWithConsent

Points     == {"root", "esp", "verify"}
RootGuard  == <<"root">>
BothGuards == <<"root", "esp">>

Guarded(m) ==
  \/ guards = RootGuard /\ m = "root"
  \/ guards = BothGuards /\ m \in {"root", "esp"}

\* The guards and the mount points at each step.
MountInv ==
  /\ pc \in Choosing \cup {"zap", "gpt", "mkfs", "mountroot", "remount"} =>
       guards = <<>> /\ mounts = {}
  /\ pc \in {"extract", "customize", "mountesp", "umountroot"} =>
       guards = RootGuard /\ mounts = {"root"}
  /\ pc \in {"populate", "sync", "umountesp"} =>
       guards = BothGuards /\ mounts = {"root", "esp"}
  /\ pc \in {"reread", "umountverify"} => guards = <<>> /\ mounts = {"verify"}
  /\ pc \in {"unwind", "over"} =>
       /\ guards \in {<<>>, RootGuard, BothGuards}
       /\ \A m \in mounts : Guarded(m) \/ m \in stuck \/ Busy(m)
  /\ pc = "over" => guards = <<>> /\ emptied = mounts

\* What a success rests on.
ResultInv ==
  /\ result \in {None, "ok", "failed"}
  /\ pc = "umountverify" /\ result = None /\ "esp" \notin lingering => Hashed \subseteq stored
  /\ result = "ok" =>
       /\ pc \in {"unwind", "over"}
       /\ opts.dryRun \/ /\ guards = <<>>
                         /\ \A m \in mounts : m = "verify" /\ m \in stuck
                         /\ "esp" \notin lingering => Hashed \subseteq stored

Places == Choosing \cup
  {"zap", "gpt", "mkfs", "mountroot", "extract", "customize", "mountesp", "populate", "sync",
   "umountesp", "umountroot", "remount", "reread", "umountverify", "unwind", "over"}

\* The inductive invariant.
IInv == pc \in Places /\ FormInv /\ ChoiceInv /\ DiskInv /\ MountInv /\ ResultInv

------------------------------------------------------------------------------
\* The form

\* The form as install() starts it.
LEMMA NewFormType ==
  ASSUME NEW spec \in Specs
  PROVE  NewForm(spec) \in FormRec /\ NewForm(spec).screen = "device"
<1>1. spec.esp \in Seq(Nat) /\ spec.root \in Seq(Nat)
  BY InstallerAssumption
<1>2. QED BY <1>1 DEF NewForm, FormRec, Screens

\* The checks only look at their own fields.
LEMMA ChecksAgree ==
  ASSUME NEW f, NEW g, f.device = g.device, f.esp = g.esp, f.root = g.root
  PROVE  /\ PartitionValid(f) => PartitionValid(g)
         /\ f.name = g.name /\ f.password = g.password /\ f.confirm = g.confirm
              /\ UserValid(f) => UserValid(g)
<1>1. PartitionValid(f) => PartitionValid(g)
  BY DEF PartitionValid
<1>2. ASSUME f.name = g.name, f.password = g.password, f.confirm = g.confirm, UserValid(f)
      PROVE  UserValid(g)
  BY <1>2 DEF UserValid
<1>3. QED BY <1>1, <1>2

\* Off the display, or with no key pressed, the form keeps its invariant.
LEMMA FormFrame ==
  ASSUME FormInv, UNCHANGED formVars, pc # "form" \/ pc' = pc
  PROVE  FormInv'
<1>1. form' = form /\ outcome' = outcome
  BY DEF formVars
<1>2. QED BY <1>1 DEF FormInv

\* The device screen promises nothing of the other fields.
LEMMA DeviceScreen ==
  ASSUME form' \in FormRec, form'.screen = "device", outcome' \in {"none", "cancelled"},
         pc' # "form" => outcome' = "none"
  PROVE  FormInv'
  BY DEF FormInv

\* Another screen is shown, forward only past its checks.
LEMMA ShowInv ==
  ASSUME FormInv, pc = "form", pc' = "form", outcome = "none",
         NEW from \in Screens, NEW to \in Screens, Show(from, to),
         from = "partition" /\ to = "user" => PartitionValid(form),
         from = "user" /\ to = "keyboard" => UserValid(form),
         from = "keyboard" /\ to = "summary" => ValidKeymap(form.layout),
         <<from, to>> \in {<<"device", "partition">>, <<"partition", "user">>,
                           <<"partition", "device">>, <<"user", "keyboard">>,
                           <<"user", "partition">>, <<"keyboard", "summary">>,
                           <<"keyboard", "user">>, <<"summary", "keyboard">>}
  PROVE  FormInv' /\ form'.device = form.device
<1>1. form \in FormRec /\ form.screen = from /\ outcome' = "none"
  BY DEF FormInv, Show
<1>2. /\ form' \in FormRec /\ form'.screen = to /\ form'.device = form.device
      /\ form'.esp = form.esp /\ form'.root = form.root /\ form'.name = form.name
      /\ form'.password = form.password /\ form'.confirm = form.confirm
      /\ form'.layout = form.layout
  BY <1>1 DEF Show, FormRec
<1>3. /\ PartitionValid(form) => PartitionValid(form')
      /\ UserValid(form) => UserValid(form')
  BY <1>2, ChecksAgree
<1>4. /\ to \in {"user", "keyboard", "summary"} => PartitionValid(form)
      /\ to \in {"keyboard", "summary"} => UserValid(form)
      /\ to = "summary" => ValidKeymap(form.layout)
  BY <1>1 DEF FormInv
<1>5. /\ form'.screen \in {"user", "keyboard", "summary"} => PartitionValid(form')
      /\ form'.screen \in {"keyboard", "summary"} => UserValid(form')
      /\ form'.screen = "summary" => ValidKeymap(form'.layout)
  BY <1>2, <1>3, <1>4
<1>6. QED BY <1>1, <1>2, <1>5 DEF FormInv

\* Every key keeps the checks behind the screens.
LEMMA HandleKeyInv ==
  ASSUME FormInv, pc = "form", pc' = "form", form.device \in listed, listed \subseteq Devices,
         HandleKey(listed)
  PROVE  FormInv' /\ form'.device \in listed
<1>1. form \in FormRec /\ outcome = "none"
  BY DEF FormInv, HandleKey
<1> USE DEF Screens
<1>2. CASE HandleEsc
  BY <1>2 DEF HandleEsc, FormInv
<1>3. CASE HandleDevices(listed)
  <2>1. ASSUME NEW d \in listed, form.screen = "device", form' = [form EXCEPT !.device = d],
               outcome' = outcome
        PROVE  FormInv' /\ form'.device \in listed
    <3>1. form' \in FormRec /\ form'.screen = "device" /\ form'.device = d
      BY <1>1, <2>1 DEF FormRec
    <3>2. QED BY <1>1, <2>1, <3>1, DeviceScreen
  <2>2. CASE Show("device", "partition")
    BY <1>1, <2>2, ShowInv
  <2>3. QED BY <1>3, <2>1, <2>2 DEF HandleDevices
<1>4. CASE HandlePartition
  <2>1. ASSUME NEW e \in EspInputs, NEW r \in RootInputs, form.screen = "partition",
               form' = [form EXCEPT !.esp = e, !.root = r], outcome' = outcome
        PROVE  FormInv' /\ form'.device \in listed
    <3>1. e \in Seq(Nat) /\ r \in Seq(Nat)
      BY FormAssumption
    <3>2. form' \in FormRec /\ form'.screen = "partition" /\ form'.device = form.device
      BY <1>1, <2>1, <3>1 DEF FormRec
    <3>3. QED BY <1>1, <2>1, <3>2 DEF FormInv
  <2>2. CASE PartitionValid(form) /\ Show("partition", "user")
    BY <1>1, <2>2, ShowInv
  <2>3. CASE Show("partition", "device")
    BY <1>1, <2>3, ShowInv
  <2>4. QED BY <1>4, <2>1, <2>2, <2>3 DEF HandlePartition
<1>5. CASE HandleUser
  <2>1. ASSUME NEW n \in Names, NEW p \in Passwords, NEW c \in Passwords, form.screen = "user",
               form' = [form EXCEPT !.name = n, !.password = p, !.confirm = c],
               outcome' = outcome
        PROVE  FormInv' /\ form'.device \in listed
    <3>1. /\ form' \in FormRec /\ form'.screen = "user" /\ form'.device = form.device
          /\ form'.esp = form.esp /\ form'.root = form.root
      BY <1>1, <2>1 DEF FormRec
    <3>2. PartitionValid(form')
      <4>1. PartitionValid(form)
        BY <2>1 DEF FormInv
      <4>2. QED BY <3>1, <4>1, ChecksAgree
    <3>3. outcome' = "none"
      BY <1>1, <2>1
    <3>4. QED BY <3>1, <3>2, <3>3 DEF FormInv
  <2>2. CASE UserValid(form) /\ Show("user", "keyboard")
    BY <1>1, <2>2, ShowInv
  <2>3. CASE Show("user", "partition")
    BY <1>1, <2>3, ShowInv
  <2>4. QED BY <1>5, <2>1, <2>2, <2>3 DEF HandleUser
<1>6. CASE HandleKeyboard
  <2>1. ASSUME NEW l \in Layouts, form.screen = "keyboard",
               form' = [form EXCEPT !.layout = l], outcome' = outcome
        PROVE  FormInv' /\ form'.device \in listed
    <3>1. /\ form' \in FormRec /\ form'.screen = "keyboard" /\ form'.device = form.device
          /\ form'.esp = form.esp /\ form'.root = form.root /\ form'.name = form.name
          /\ form'.password = form.password /\ form'.confirm = form.confirm
      BY <1>1, <2>1 DEF FormRec
    <3>2. PartitionValid(form') /\ UserValid(form')
      <4>1. PartitionValid(form) /\ UserValid(form)
        BY <2>1 DEF FormInv
      <4>2. QED BY <3>1, <4>1, ChecksAgree
    <3>3. outcome' = "none"
      BY <1>1, <2>1
    <3>4. QED BY <3>1, <3>2, <3>3 DEF FormInv
  <2>2. CASE ValidKeymap(form.layout) /\ Show("keyboard", "summary")
    BY <1>1, <2>2, ShowInv
  <2>3. CASE Show("keyboard", "user")
    BY <1>1, <2>3, ShowInv
  <2>4. QED BY <1>6, <2>1, <2>2, <2>3 DEF HandleKeyboard
<1>7. CASE HandleSummary
  <2>1. CASE form.screen = "summary" /\ outcome' = "confirmed" /\ UNCHANGED form
    BY <1>1, <2>1 DEF FormInv
  <2>2. CASE Show("summary", "keyboard")
    BY <1>1, <2>2, ShowInv
  <2>3. QED BY <1>7, <2>1, <2>2 DEF HandleSummary
<1>8. QED BY <1>2, <1>3, <1>4, <1>5, <1>6, <1>7 DEF HandleKey

------------------------------------------------------------------------------
\* The plan

\* A root the form accepts is the rest of the disk or fits on it.
LEMMA MaxRootFits ==
  ASSUME NEW d \in Devices, NEW e \in Nat, NEW r \in Nat, r <= MaxRootGib(d, e)
  PROVE  r = 0 \/ e + 8 + 1024 * r <= Size[d]
<1>1. Size[d] \in Nat
  BY FormAssumption
<1>2. CASE Size[d] <= e + 8
  BY <1>1, <1>2 DEF MaxRootGib
<1>3. CASE ~(Size[d] <= e + 8)
  <2>1. PICK n \in Nat : n = Size[d] - (e + 8)
    BY <1>1, <1>3
  <2>2. r <= n \div 1024
    BY <1>3, <2>1 DEF MaxRootGib
  <2>3. 1024 * r <= n
    BY <2>2
  <2>4. QED BY <1>1, <2>1, <2>3
<1>4. QED BY <1>2, <1>3

\* So do the sizes of the spec file; a size typed at the prompt may not.
LEMMA GatherHolds ==
  ASSUME NEW spec \in Specs, NEW d \in Devices, NEW p \in GatherPlan(spec, d)
  PROVE  p.typed \/ p.root = 0 \/ p.esp + 8 + 1024 * p.root <= Size[d]
<1> DEFINE asked == ~spec.rootGiven \/ spec.root = <<0>>
           Parsed(typed) == {field[1] : field \in typed \ {<<>>}}
<1>1. PICK q \in GatherPartition(spec, d) :
        p.esp = q.esp /\ p.root = q.root /\ p.typed = q.typed
  BY DEF GatherPlan
<1>2. PICK e \in Parsed(IF spec.espGiven THEN {spec.esp} ELSE EspInputs),
           r \in Parsed(IF asked THEN RootInputs ELSE {spec.root}) :
        /\ asked \/ r <= MaxRootGib(d, e)
        /\ q = [esp |-> e, root |-> IF asked /\ r = MaxRootGib(d, e) THEN 0 ELSE r,
                typed |-> asked]
  BY DEF GatherPartition
<1>3. CASE asked
  <2>1. q.typed = asked
    BY <1>2
  <2> HIDE DEF asked
  <2>2. p.typed
    BY <1>1, <1>3, <2>1
  <2>3. QED BY <2>2
<1>4. CASE ~asked
  <2>1. spec.esp \in Seq(Nat) /\ spec.root \in Seq(Nat)
    BY InstallerAssumption
  <2>2. ASSUME NEW S, S \subseteq Seq(Nat), NEW x \in Parsed(S)
        PROVE  x \in Nat
    <3>1. PICK field \in S \ {<<>>} : x = field[1]
      BY <2>2
    <3>2. field \in Seq(Nat) /\ field # <<>>
      BY <2>2, <3>1
    <3>3. QED BY <3>1, <3>2
  <2>3. e \in Nat
    BY <2>1, <2>2, <1>2, FormAssumption
  <2>4. r \in Nat
    BY <2>1, <2>2, <1>2, <1>4
  <2>5. q.esp = e /\ q.root = r
    BY <1>2, <1>4
  <2>6. QED BY <1>1, <1>2, <1>4, <2>3, <2>4, <2>5, MaxRootFits
<1>5. QED BY <1>3, <1>4

------------------------------------------------------------------------------
\* What kinds of step keep

\* The stack of guards as it grows and shrinks.
LEMMA GuardStack ==
  /\ RootGuard # <<>> /\ BothGuards # <<>> /\ RootGuard # BothGuards
  /\ Append(<<>>, "root") = RootGuard /\ Append(RootGuard, "esp") = BothGuards
  /\ SubSeq(RootGuard, 1, Len(RootGuard) - 1) = <<>>
  /\ SubSeq(BothGuards, 1, Len(BothGuards) - 1) = RootGuard
  /\ RootGuard[Len(RootGuard)] = "root" /\ BothGuards[Len(BothGuards)] = "esp"
<1>1. RootGuard # <<>> /\ BothGuards # <<>> /\ RootGuard # BothGuards
  BY DEF RootGuard, BothGuards
<1>2. Append(<<>>, "root") = RootGuard
  BY DEF RootGuard
<1>3. /\ RootGuard \in Seq(Points) /\ Len(RootGuard) = 1 /\ RootGuard[1] = "root"
      /\ BothGuards \in Seq(Points) /\ Len(BothGuards) = 2
      /\ BothGuards[1] = "root" /\ BothGuards[2] = "esp"
  BY DEF RootGuard, BothGuards, Points
<1>4. Append(RootGuard, "esp") = BothGuards
  <2>1. PICK s, r, x : s = RootGuard /\ r = BothGuards /\ x = "esp"
    OBVIOUS
  <2>2. s \in Seq(Points) /\ Len(s) = 1 /\ s[1] = "root"
    BY <1>3, <2>1
  <2>3. r \in Seq(Points) /\ Len(r) = 2 /\ r[1] = "root" /\ r[2] = x /\ x \in Points
    BY <1>3, <2>1 DEF Points
  <2>4. s \in Seq(Points) /\ x \in Points
    BY <2>2, <2>3
  <2>5. /\ Append(s, x) \in Seq(Points) /\ Len(Append(s, x)) = 2
        /\ Append(s, x)[1] = s[1] /\ Append(s, x)[2] = x
    <3> DEFINE t == Append(s, x)
    <3>2. /\ t \in Seq(Points) /\ Len(t) = Len(s) + 1
          /\ \A i \in 1..Len(s) : t[i] = s[i]
          /\ t[Len(s) + 1] = x
      BY <2>4, AppendProperties
    <3> HIDE DEF t
    <3>3. Len(s) + 1 = 2 /\ 1 \in 1..Len(s)
      BY <2>2
    <3>4. Len(t) = 2 /\ t[1] = s[1] /\ t[2] = x
      BY <3>2, <3>3, Zenon
    <3>5. QED BY <3>2, <3>4 DEF t
  <2>6. \A i \in 1..Len(r) : Append(s, x)[i] = r[i]
    <3>1. Append(s, x)[1] = r[1] /\ Append(s, x)[2] = r[2]
      BY <2>2, <2>3, <2>5, Zenon
    <3>2. ASSUME NEW i \in 1..Len(r) PROVE i = 1 \/ i = 2
      BY <2>3
    <3>3. QED BY <3>1, <3>2, Zenon
  <2>7. Append(s, x) = r
    BY <2>3, <2>5, <2>6, SeqEqual
  <2>8. QED BY <2>1, <2>7
<1>5. SubSeq(RootGuard, 1, Len(RootGuard) - 1) = <<>>
  BY DEF RootGuard
<1>6. SubSeq(BothGuards, 1, Len(BothGuards) - 1) = RootGuard
  <2>1. PICK s, r : s = RootGuard /\ r = BothGuards
    OBVIOUS
  <2>2. s \in Seq(Points) /\ Len(s) = 1 /\ s[1] = "root"
    BY <1>3, <2>1
  <2>3. r \in Seq(Points) /\ Len(r) = 2 /\ r[1] = "root"
    BY <1>3, <2>1
  <2>4. /\ SubSeq(r, 1, 1) \in Seq(Points) /\ Len(SubSeq(r, 1, 1)) = 1
        /\ SubSeq(r, 1, 1)[1] = "root"
    BY <2>3
  <2>5. \A i \in 1..Len(s) : SubSeq(r, 1, 1)[i] = s[i]
    BY <2>2, <2>4
  <2>6. SubSeq(r, 1, 1) = s
    BY <2>2, <2>4, <2>5, SeqEqual
  <2>7. QED BY <2>1, <2>3, <2>6
<1>7. RootGuard[Len(RootGuard)] = "root" /\ BothGuards[Len(BothGuards)] = "esp"
  BY DEF RootGuard, BothGuards
<1>8. QED BY <1>1, <1>2, <1>4, <1>5, <1>6, <1>7

\* Before the disk is touched nothing is mounted and nothing is wiped.
LEMMA ChoiceStep ==
  ASSUME IInv, pc \in Choosing, pc' \in Choosing \cup {"zap", "unwind"},
         UNCHANGED <<opts, targetVars, mountVars>>,
         \/ result' = result
         \/ pc' = "unwind" /\ (result' = "failed" \/ (result' = "ok" /\ opts.dryRun))
  PROVE  pc' \in Places /\ DiskInv' /\ MountInv' /\ ResultInv'
<1>1. disk' = disk /\ guards' = guards /\ mounts' = mounts
  BY DEF targetVars, mountVars
<1>2. pc' \in Places
  BY DEF Places
<1>3. DiskInv'
  <2>1. \A d \in Devices : disk'[d] = "old"
    BY <1>1 DEF IInv, DiskInv
  <2>2. WipedOnlyWithConsent'
    BY <2>1 DEF WipedOnlyWithConsent
  <2>3. QED BY <1>1, <2>1, <2>2 DEF IInv, DiskInv
<1>4. guards' = <<>> /\ mounts' = {}
  BY <1>1 DEF IInv, MountInv
<1>5. MountInv'
  BY <1>4 DEF MountInv, Choosing
<1>6. result # "ok"
  BY DEF IInv, ResultInv, Choosing
<1>7. ResultInv'
  <2>1. CASE result' = result
    BY <1>6, <2>1 DEF IInv, ResultInv, Choosing
  <2>2. CASE pc' = "unwind" /\ (result' = "failed" \/ (result' = "ok" /\ opts.dryRun))
    BY <2>2 DEF ResultInv
  <2>3. QED BY <2>1, <2>2
<1>8. QED BY <1>2, <1>3, <1>5, <1>7

\* The choices are final once the disk is touched.
LEMMA WorkStep ==
  ASSUME IInv, pc \notin Choosing, pc' \notin Choosing,
         UNCHANGED <<opts, choiceVars, formVars>>,
         pc' \in {"zap", "gpt"} => pc \in {"zap", "gpt"}
  PROVE  FormInv' /\ ChoiceInv'
<1>1. opts' = opts /\ device' = device /\ plan' = plan /\ cleared' = cleared /\ consent' = consent
  BY DEF choiceVars
<1>2. FormInv'
  <2>1. pc # "form"
    BY DEF Choosing
  <2>2. QED BY <2>1, FormFrame DEF IInv
<1>3. (Cleared(device) => Cleared(device)') /\ (PlanHolds => PlanHolds')
  BY <1>1 DEF Cleared, PlanHolds, Fits
<1>4. ChoiceInv'
  <2>1. pc' \notin {"select", "check", "gather", "form", "confirm"}
    BY DEF Choosing
  <2>2. pc' \in {"zap", "gpt"} =>
          Cleared(device) /\ PlanHolds /\ consent # None /\ ~opts.dryRun
    BY DEF IInv, ChoiceInv
  <2>3. QED BY <1>1, <1>3, <2>1, <2>2 DEF ChoiceInv
<1>5. QED BY <1>2, <1>4

\* A step that writes no partition table.
LEMMA DiskFrame ==
  ASSUME IInv, UNCHANGED <<opts, choiceVars, disk>>,
         pc' \in Choosing \cup {"zap"} => pc \in Choosing \cup {"zap"}
  PROVE  DiskInv'
<1>1. /\ device' = device /\ plan' = plan /\ cleared' = cleared /\ consent' = consent
      /\ opts' = opts /\ disk' = disk
  BY DEF choiceVars
<1>2. WipedOnlyWithConsent'
  BY <1>1 DEF WipedOnlyWithConsent, IInv, DiskInv, Fits
<1>3. QED BY <1>1, <1>2 DEF IInv, DiskInv

\* An error returns with the guards as they are.
LEMMA FailStep ==
  ASSUME IInv, pc \in Places \ (Choosing \cup {"reread", "umountverify", "over"}),
         pc' = "unwind", result' = "failed", mounts' = mounts, guards' = guards,
         stuck \subseteq stuck', UNCHANGED <<opts, choiceVars, disk, formVars>>
  PROVE  IInv'
<1>1. pc' \in Places /\ pc' \notin Choosing
  BY DEF Places, Choosing
<1>2. FormInv' /\ ChoiceInv'
  BY <1>1, WorkStep
<1>3. DiskInv'
  BY <1>1, DiskFrame
<1>4. MountInv'
  <2>1. guards \in {<<>>, RootGuard, BothGuards}
    BY DEF IInv, MountInv, Places
  <2>2. \A m \in mounts : Guarded(m) \/ m \in stuck \/ Busy(m)
    BY DEF IInv, MountInv, Places, Guarded
  <2>3. \A m \in mounts' : Guarded(m)' \/ m \in stuck' \/ Busy(m)'
    BY <2>2 DEF Guarded, Busy
  <2>4. QED BY <2>1, <2>3, <1>1 DEF MountInv
<1>5. ResultInv'
  BY DEF ResultInv
<1>6. QED BY <1>1, <1>2, <1>3, <1>4, <1>5 DEF IInv

\* What other programs do disturbs none of it.
LEMMA WorldStep ==
  ASSUME IInv, UNCHANGED <<opts, pc, result, choiceVars, targetVars, mountVars, formVars>>
  PROVE  IInv'
<1>1. /\ opts' = opts /\ pc' = pc /\ result' = result
      /\ device' = device /\ plan' = plan /\ listed' = listed
      /\ cleared' = cleared /\ consent' = consent
  BY DEF choiceVars
<1>2. /\ disk' = disk /\ stored' = stored /\ mounts' = mounts /\ guards' = guards
      /\ lingering' = lingering /\ stuck' = stuck /\ emptied' = emptied
      /\ form' = form /\ outcome' = outcome
  BY DEF targetVars, mountVars, formVars
<1>3. FormInv'
  BY <1>1, FormFrame DEF IInv
<1>4. ChoiceInv'
  BY <1>1, <1>2 DEF IInv, ChoiceInv, CliPath, Cleared, PlanHolds, Fits
<1>5. DiskInv'
  BY <1>1, <1>2, DiskFrame DEF IInv
<1>6. MountInv'
  BY <1>1, <1>2 DEF IInv, MountInv, Guarded, Busy
<1>7. ResultInv'
  BY <1>1, <1>2 DEF IInv, ResultInv
<1>8. QED BY <1>1, <1>3, <1>4, <1>5, <1>6, <1>7 DEF IInv

------------------------------------------------------------------------------
\* Before the disk is touched

\* A step that promises nothing about the choices.
LEMMA VerifyManifestStep ==
  ASSUME IInv, VerifyManifest \/ LoadSpec
  PROVE  IInv'
<1>1. /\ pc \in {"manifest", "spec"} /\ pc' \in {"spec", "select", "list", "unwind"}
      /\ pc' = "select" => CliPath
      /\ result' = result \/ (pc' = "unwind" /\ result' = "failed")
  BY DEF VerifyManifest, LoadSpec, Step, Error, Return
<1>2. UNCHANGED <<opts, choiceVars, targetVars, mountVars, formVars>>
  BY DEF VerifyManifest, LoadSpec
<1>3. pc' \in Places /\ DiskInv' /\ MountInv' /\ ResultInv'
  BY <1>1, <1>2, ChoiceStep DEF Choosing
<1>4. FormInv'
  BY <1>1, <1>2, FormFrame DEF IInv
<1>5. ChoiceInv'
  BY <1>1, <1>2 DEF ChoiceInv, CliPath
<1>6. QED BY <1>3, <1>4, <1>5 DEF IInv

\* The command line chooses the device.
LEMMA SelectTargetStep ==
  ASSUME IInv, SelectTarget
  PROVE  IInv'
<1>1. /\ pc = "select" /\ pc' \in {"check", "unwind"}
      /\ result' = result \/ (pc' = "unwind" /\ result' = "failed")
  BY DEF SelectTarget, Step, Return
<1>2. UNCHANGED <<opts, targetVars, mountVars, formVars>>
  BY DEF SelectTarget
<1>3. pc' \in Places /\ DiskInv' /\ MountInv' /\ ResultInv'
  BY <1>1, <1>2, ChoiceStep DEF Choosing
<1>4. FormInv'
  BY <1>1, <1>2, FormFrame DEF IInv
<1>5. pc' = "check" => device' \in Devices
  <2>1. opts.target # None => opts.target \in Devices
    BY DEF IInv, DiskInv
  <2>2. pc' = "check" => device' \in (IF opts.target = None THEN ListRemovable
                                      ELSE {d \in {opts.target} : d \in Removable \/ opts.force})
    BY DEF SelectTarget, Return
  <2>3. QED BY <2>1, <2>2, InstallerAssumption DEF ListRemovable
<1>6. CliPath /\ CliPath' = CliPath
  BY <1>1, <1>2 DEF IInv, ChoiceInv, CliPath
<1>7. ChoiceInv'
  BY <1>1, <1>5, <1>6 DEF ChoiceInv
<1>8. QED BY <1>3, <1>4, <1>7 DEF IInv

\* Only a device that passes safety_check goes on.
LEMMA SafetyCheckStep ==
  ASSUME IInv, SafetyCheck
  PROVE  IInv'
<1>1. /\ pc = "check" /\ pc' \in {"gather", "unwind"}
      /\ result' = result \/ (pc' = "unwind" /\ result' = "failed")
  BY DEF SafetyCheck, Step, Return
<1>2. UNCHANGED <<opts, device, targetVars, mountVars, formVars>>
  BY DEF SafetyCheck
<1>3. pc' \in Places /\ DiskInv' /\ MountInv' /\ ResultInv'
  BY <1>1, <1>2, ChoiceStep DEF Choosing
<1>4. FormInv'
  BY <1>1, <1>2, FormFrame DEF IInv
<1>5. device \in Devices
  BY <1>1 DEF IInv, ChoiceInv
<1>6. pc' = "gather" => device \in Removable /\ device \in cleared'
  BY DEF SafetyCheck, Safe, Step, Return
<1>7. CliPath /\ CliPath' = CliPath
  BY <1>1, <1>2 DEF IInv, ChoiceInv, CliPath
<1>8. ChoiceInv'
  BY <1>1, <1>2, <1>5, <1>6, <1>7 DEF ChoiceInv, Cleared
<1>9. QED BY <1>3, <1>4, <1>8 DEF IInv

\* The prompts make a plan that holds, or one with a typed size.
LEMMA GatherStep ==
  ASSUME IInv, Gather
  PROVE  IInv'
<1>1. /\ pc = "gather" /\ pc' \in {"confirm", "unwind"}
      /\ result' = result \/ (pc' = "unwind" /\ result' = "failed")
  BY DEF Gather, Step, Return
<1>2. UNCHANGED <<opts, device, cleared, consent, targetVars, mountVars, formVars>>
  BY DEF Gather
<1>3. pc' \in Places /\ DiskInv' /\ MountInv' /\ ResultInv'
  BY <1>1, <1>2, ChoiceStep DEF Choosing
<1>4. FormInv'
  BY <1>1, <1>2, FormFrame DEF IInv
<1>5. Cleared(device) /\ CliPath
  BY <1>1 DEF IInv, ChoiceInv
<1>6. Cleared(device)' /\ CliPath'
  BY <1>2, <1>5 DEF Cleared, CliPath
<1>7. pc' = "confirm" => PlanHolds'
  <2>1. SUFFICES ASSUME pc' = "confirm" PROVE PlanHolds'
    OBVIOUS
  <2>2. plan' \in GatherPlan(opts.spec, device)
    BY <2>1 DEF Gather, Return, Step
  <2>3. opts.spec \in Specs /\ device \in Devices
    BY <1>5 DEF IInv, DiskInv, Cleared
  <2>4. plan'.typed \/ plan'.root = 0 \/ plan'.esp + 8 + 1024 * plan'.root <= Size[device]
    BY <2>2, <2>3, GatherHolds
  <2>5. QED BY <1>2, <2>4 DEF PlanHolds, Fits
<1>8. ChoiceInv'
  BY <1>1, <1>6, <1>7 DEF ChoiceInv
<1>9. QED BY <1>3, <1>4, <1>8 DEF IInv

\* The text interface offers only devices that passed safety_check.
LEMMA ListSafeStep ==
  ASSUME IInv, ListSafe
  PROVE  IInv'
<1>1. /\ pc = "list" /\ pc' \in {"form", "unwind"}
      /\ result' = result \/ (pc' = "unwind" /\ result' = "failed")
  BY DEF ListSafe, Step, Error, Return
<1>2. UNCHANGED <<opts, outcome, targetVars, mountVars>>
  BY DEF ListSafe
<1>3. pc' \in Places /\ DiskInv' /\ MountInv' /\ ResultInv'
  BY <1>1, <1>2, ChoiceStep DEF Choosing
<1>4. \A d \in listed' : d \in Devices /\ d \in Removable /\ d \in cleared'
  BY InstallerAssumption DEF ListSafe, ListRemovable
<1>5. form \in FormRec /\ form.screen = "device" /\ outcome = "none"
  BY <1>1 DEF IInv, FormInv
<1>6. CASE form' = form
  <2>1. FormInv'
    BY <1>2, <1>5, <1>6, DeviceScreen
  <2>2. pc' = "unwind" \/ pc' = "form"
    BY <1>1
  <2>3. CASE pc' = "unwind"
    <3>1. ChoiceInv'
      BY <2>3 DEF ChoiceInv
    <3>2. QED BY <1>3, <2>1, <3>1 DEF IInv
  <2>4. CASE pc' = "form"
    <3>1. PICK d \in listed' : form' = [form EXCEPT !.device = d]
      BY <2>4 DEF ListSafe, Error, Return
    <3>2. form'.device = d
      BY <1>5, <3>1 DEF FormRec
    <3>3. ChoiceInv'
      BY <1>4, <2>4, <3>2 DEF ChoiceInv, Cleared
    <3>4. QED BY <1>3, <2>1, <3>3 DEF IInv
  <2>5. QED BY <2>2, <2>3, <2>4
<1>7. CASE form' # form
  <2>1. PICK d \in listed' : form' = [form EXCEPT !.device = d] /\ pc' = "form"
    BY <1>7 DEF ListSafe, Step
  <2>2. form' \in FormRec /\ form'.screen = "device" /\ form'.device = d
    BY <1>4, <1>5, <2>1 DEF FormRec
  <2>3. FormInv'
    BY <1>2, <1>5, <2>2, DeviceScreen
  <2>4. ChoiceInv'
    BY <1>4, <2>1, <2>2 DEF ChoiceInv, Cleared
  <2>5. QED BY <1>3, <2>3, <2>4 DEF IInv
<1>8. QED BY <1>6, <1>7

\* A key changes the form, and never past a failed check.
LEMMA PressKeyStep ==
  ASSUME IInv, PressKey
  PROVE  IInv'
<1>1. pc = "form" /\ pc' = "form" /\ result' = result
  BY DEF PressKey
<1>2. UNCHANGED <<opts, listed, cleared, targetVars, mountVars>>
  BY DEF PressKey, choiceVars
<1>3. pc' \in Places /\ DiskInv' /\ MountInv' /\ ResultInv'
  BY <1>1, <1>2, ChoiceStep DEF Choosing
<1>4. form.device \in listed /\ \A d \in listed : Cleared(d)
  BY <1>1 DEF IInv, ChoiceInv
<1>5. FormInv' /\ form'.device \in listed
  <2>1. listed \subseteq Devices
    BY <1>4 DEF Cleared
  <2>2. HandleKey(listed)
    BY DEF PressKey
  <2>3. QED BY <1>1, <1>4, <2>1, <2>2, HandleKeyInv DEF IInv
<1>6. \A d \in listed' : Cleared(d)'
  BY <1>2, <1>4 DEF Cleared
<1>7. ChoiceInv'
  BY <1>1, <1>2, <1>5, <1>6 DEF ChoiceInv
<1>8. QED BY <1>3, <1>5, <1>7 DEF IInv

\* A confirmed form is the consent.
LEMMA FormEndsStep ==
  ASSUME IInv, FormEnds
  PROVE  IInv'
<1>1. /\ pc = "form" /\ pc' \in {"confirm", "unwind"}
      /\ result' = result \/ (pc' = "unwind" /\ result' = "failed")
  BY DEF FormEnds, Step, Return
<1>2. UNCHANGED <<opts, cleared, targetVars, mountVars>>
  BY DEF FormEnds
<1>3. pc' \in Places /\ DiskInv' /\ MountInv' /\ ResultInv'
  BY <1>1, <1>2, ChoiceStep DEF Choosing
<1>4. FormInv'
  <2>1. form' = NewForm(opts.spec) /\ outcome' = "none" /\ opts.spec \in Specs
    BY DEF FormEnds, IInv, DiskInv
  <2>2. QED BY <2>1, NewFormType, DeviceScreen
<1>5. CASE pc' = "unwind"
  <2>1. ChoiceInv'
    BY <1>5 DEF ChoiceInv
  <2>2. QED BY <1>3, <1>4, <2>1 DEF IInv
<1>6. CASE pc' = "confirm"
  <2>1. /\ outcome = "confirmed" /\ device' = form.device /\ plan' = BuildPlan
        /\ consent' = "form"
    BY <1>6 DEF FormEnds, Return
  <2>2. Cleared(form.device)
    BY <1>1 DEF IInv, ChoiceInv
  <2>3. Cleared(device)'
    BY <1>2, <2>1, <2>2 DEF Cleared
  <2>4. PartitionValid(form) /\ form \in FormRec
    BY <2>1 DEF IInv, FormInv
  <2>5. PICK e, r, d : e = form.esp /\ r = form.root /\ d = form.device
    OBVIOUS
  <2>6. e \in Seq(Nat) /\ r \in Seq(Nat) /\ e # <<>> /\ r # <<>> /\ d \in Devices
    BY <2>2, <2>4, <2>5 DEF FormRec, PartitionValid, Cleared
  <2>7. e[1] \in Nat /\ r[1] \in Nat
    BY <2>6
  <2>8. r[1] <= MaxRootGib(d, e[1])
    BY <2>4, <2>5 DEF PartitionValid
  <2>9. r[1] = 0 \/ e[1] + 8 + 1024 * r[1] <= Size[d]
    BY <2>6, <2>7, <2>8, MaxRootFits
  <2>10. plan'.esp = e[1] /\ plan'.root = r[1] /\ device' = d
    BY <2>1, <2>5 DEF BuildPlan
  <2>11. PlanHolds'
    BY <2>9, <2>10 DEF PlanHolds, Fits
  <2>12. consent' # None
    BY <2>1 DEF None
  <2>13. ChoiceInv'
    BY <1>6, <2>3, <2>11, <2>12 DEF ChoiceInv
  <2>14. QED BY <1>3, <1>4, <2>13 DEF IInv
<1>7. QED BY <1>1, <1>5, <1>6

\* Without a form the operator consents by a flag or by typing.
LEMMA ConfirmStep ==
  ASSUME IInv, Confirm
  PROVE  IInv'
<1>1. /\ pc = "confirm" /\ pc' \in {"zap", "unwind"}
      /\ \/ result' = result
         \/ pc' = "unwind" /\ (result' = "failed" \/ (result' = "ok" /\ opts.dryRun))
  BY DEF Confirm, Step, Return
<1>2. UNCHANGED <<opts, device, plan, cleared, targetVars, mountVars, formVars>>
  BY DEF Confirm
<1>3. pc' \in Places /\ DiskInv' /\ MountInv' /\ ResultInv'
  BY <1>1, <1>2, ChoiceStep DEF Choosing
<1>4. FormInv'
  BY <1>1, <1>2, FormFrame DEF IInv
<1>5. CASE pc' = "unwind"
  <2>1. ChoiceInv'
    BY <1>5 DEF ChoiceInv
  <2>2. QED BY <1>3, <1>4, <2>1 DEF IInv
<1>6. CASE pc' = "zap"
  <2>1. Cleared(device) /\ PlanHolds /\ (CliPath \/ consent # None)
    BY <1>1 DEF IInv, ChoiceInv
  <2>2. Cleared(device)' /\ PlanHolds'
    BY <1>2, <2>1 DEF Cleared, PlanHolds, Fits
  <2>3. /\ ~opts.dryRun
        /\ consent' = IF opts.yes THEN "flag" ELSE IF CliPath THEN "typed" ELSE consent
    BY <1>6 DEF Confirm, Return
  <2>4. consent' # None
    BY <2>1, <2>3 DEF None
  <2>5. ChoiceInv'
    BY <1>2, <1>6, <2>2, <2>3, <2>4 DEF ChoiceInv
  <2>6. QED BY <1>3, <1>4, <2>5 DEF IInv
<1>7. QED BY <1>1, <1>5, <1>6

------------------------------------------------------------------------------
\* The disk

\* A step that leads on promises no result yet.
LEMMA ForwardResult ==
  ASSUME IInv, pc \notin {"unwind", "over"}, result' = result,
         pc' \notin {"umountverify", "unwind", "over"}
  PROVE  ResultInv'
  BY DEF IInv, ResultInv

\* The steps that write a partition table.
LEMMA TableStep ==
  ASSUME IInv, ZapDisk \/ NewPartitions
  PROVE  IInv'
<1>1. /\ pc \in {"zap", "gpt"} /\ pc' \in {"gpt", "mkfs", "unwind"}
      /\ UNCHANGED <<opts, choiceVars, mountVars, formVars>>
  BY DEF ZapDisk, NewPartitions, Step, Error, Return
<1>2. pc \notin Choosing /\ pc' \notin Choosing /\ pc' \in Places /\ pc \in Places
  BY <1>1 DEF Choosing, Places
<1>3. /\ mounts' = mounts /\ guards' = guards /\ stuck' = stuck
      /\ device' = device /\ plan' = plan /\ cleared' = cleared /\ consent' = consent
      /\ opts' = opts
  BY <1>1 DEF mountVars, choiceVars
<1>4. CASE pc' = "unwind"
  <2>1. result' = "failed" /\ disk' = disk
    BY <1>4 DEF ZapDisk, NewPartitions, Step, Error, Return
  <2>2. QED BY <1>1, <1>2, <1>3, <1>4, <2>1, FailStep
<1>5. CASE pc' \in {"gpt", "mkfs"}
  <2>1. PICK t \in {"zapped", "gpt"} : disk' = [disk EXCEPT ![device] = t] /\ result' = result
    BY <1>5 DEF ZapDisk, NewPartitions, Step, Error, Return
  <2>2. FormInv' /\ ChoiceInv'
    BY <1>1, <1>2, WorkStep
  <2>3. Cleared(device) /\ PlanHolds /\ consent # None /\ ~opts.dryRun
    BY <1>1 DEF IInv, ChoiceInv
  <2>4. DiskInv'
    <3>1. disk' \in [Devices -> {"old", "zapped", "gpt"}]
      BY <2>1 DEF IInv, DiskInv
    <3>2. \A d \in Devices : disk'[d] # "old" => d = device
      BY <2>1 DEF IInv, DiskInv, WipedOnlyWithConsent
    <3>3. (~plan.typed /\ plan.root # 0 => Fits)'
      BY <1>3, <2>3 DEF PlanHolds, Fits
    <3>4. WipedOnlyWithConsent'
      BY <1>3, <2>3, <3>2, <3>3 DEF WipedOnlyWithConsent, Cleared
    <3>5. pc' \notin Choosing \cup {"zap"}
      BY <1>5, <1>2
    <3>6. QED BY <1>3, <3>1, <3>4, <3>5 DEF IInv, DiskInv
  <2>5. MountInv'
    <3>1. guards' = <<>> /\ mounts' = {}
      BY <1>1, <1>3 DEF IInv, MountInv
    <3>2. QED BY <1>5, <3>1 DEF MountInv
  <2>6. ResultInv'
    BY <1>1, <1>5, <2>1, ForwardResult
  <2>7. QED BY <1>2, <2>2, <2>4, <2>5, <2>6 DEF IInv
<1>6. QED BY <1>1, <1>4, <1>5

\* The steps that fill the file systems.
LEMMA FillStep ==
  ASSUME IInv, Format \/ Extract \/ CustomizeRoot \/ PopulateEsp \/ SyncAll
  PROVE  IInv'
<1>1. /\ \/ pc = "mkfs" /\ pc' = "mountroot"
         \/ pc = "extract" /\ pc' = "customize"
         \/ pc = "customize" /\ pc' = "mountesp"
         \/ pc = "populate" /\ pc' = "sync"
         \/ pc = "sync" /\ pc' = "umountesp"
         \/ /\ pc \in {"mkfs", "extract", "customize", "populate"}
            /\ pc' = "unwind" /\ result' = "failed"
      /\ pc' # "unwind" => result' = result
  BY DEF Format, Extract, CustomizeRoot, PopulateEsp, SyncAll, Step, Error, Return
<1>2. UNCHANGED <<opts, choiceVars, disk, mountVars, formVars>>
  BY DEF Format, Extract, CustomizeRoot, PopulateEsp, SyncAll, targetVars
<1>3. pc \notin Choosing /\ pc' \notin Choosing /\ pc' \in Places /\ pc \in Places
  BY <1>1 DEF Choosing, Places
<1>4. mounts' = mounts /\ guards' = guards /\ stuck' = stuck
  BY <1>2 DEF mountVars
<1>5. CASE pc' = "unwind"
  BY <1>1, <1>2, <1>3, <1>4, <1>5, FailStep
<1>6. CASE pc' # "unwind"
  <2>1. FormInv' /\ ChoiceInv'
    BY <1>1, <1>2, <1>3, WorkStep
  <2>2. DiskInv'
    BY <1>1, <1>2, <1>3, DiskFrame
  <2>3. MountInv'
    BY <1>1, <1>4, <1>6 DEF IInv, MountInv, Choosing
  <2>4. ResultInv'
    BY <1>1, <1>6, ForwardResult
  <2>5. QED BY <1>3, <2>1, <2>2, <2>3, <2>4 DEF IInv
<1>7. QED BY <1>5, <1>6

\* The three mounts.
LEMMA MountStep ==
  ASSUME IInv, \/ Mount("mountroot", "extract", "root", TRUE)
               \/ Mount("mountesp", "populate", "esp", TRUE)
               \/ Mount("remount", "reread", "verify", FALSE)
  PROVE  IInv'
<1>1. /\ pc \in {"mountroot", "mountesp", "remount"}
      /\ pc' \in {"extract", "populate", "reread", "unwind"}
      /\ UNCHANGED <<opts, choiceVars, disk, stuck, formVars>>
  BY DEF Mount, Step, Error, Return, targetVars
<1>2. pc \notin Choosing /\ pc' \notin Choosing /\ pc' \in Places /\ pc \in Places
  BY <1>1 DEF Choosing, Places
<1>3. CASE pc' = "unwind"
  <2>1. result' = "failed" /\ mounts' = mounts /\ guards' = guards
    BY <1>3 DEF Mount, Step, Error, Return
  <2>2. QED BY <1>1, <1>2, <1>3, <2>1, FailStep
<1>4. CASE pc' # "unwind"
  <2>1. FormInv' /\ ChoiceInv'
    BY <1>1, <1>2, WorkStep
  <2>2. DiskInv'
    BY <1>1, <1>2, DiskFrame
  <2>3. /\ result' = result
        /\ \/ /\ pc = "mountroot" /\ pc' = "extract"
              /\ mounts' = mounts \cup {"root"} /\ guards' = Append(guards, "root")
           \/ /\ pc = "mountesp" /\ pc' = "populate"
              /\ mounts' = mounts \cup {"esp"} /\ guards' = Append(guards, "esp")
           \/ /\ pc = "remount" /\ pc' = "reread"
              /\ mounts' = mounts \cup {"verify"} /\ guards' = guards
    BY <1>4 DEF Mount, Step, Error, Return
  <2>4. \/ pc' = "extract" /\ mounts' = {"root"} /\ guards' = RootGuard
        \/ pc' = "populate" /\ mounts' = {"root", "esp"} /\ guards' = BothGuards
        \/ pc' = "reread" /\ mounts' = {"verify"} /\ guards' = <<>>
    BY <2>3, GuardStack DEF IInv, MountInv
  <2>5. MountInv'
    BY <2>4 DEF MountInv, Choosing
  <2>6. ResultInv'
    BY <1>1, <1>4, <2>3, ForwardResult
  <2>7. QED BY <1>2, <2>1, <2>2, <2>5, <2>6 DEF IInv
<1>5. QED BY <1>3, <1>4

\* Unmounting the ESP and then the root, guards included.
LEMMA UmountTargetStep ==
  ASSUME IInv, UmountTarget
  PROVE  IInv'
<1>1. /\ pc \in {"umountesp", "umountroot"}
      /\ pc' \in {"umountroot", "remount", "unwind"}
      /\ UNCHANGED <<opts, choiceVars, disk, formVars>>
  BY DEF UmountTarget, Umount, Forget, Keep, Step, Return, targetVars
<1>2. pc \notin Choosing /\ pc' \notin Choosing /\ pc' \in Places /\ pc \in Places
  BY <1>1 DEF Choosing, Places
<1>3. CASE pc' = "unwind"
  <2>1. /\ result' = "failed" /\ mounts' = mounts /\ guards' = guards
        /\ stuck \subseteq stuck'
    BY <1>3 DEF UmountTarget, Umount, Forget, Keep, Step, Return
  <2>2. QED BY <1>1, <1>2, <1>3, <2>1, FailStep
<1>4. CASE pc' # "unwind"
  <2>1. FormInv' /\ ChoiceInv'
    BY <1>1, <1>2, WorkStep
  <2>2. DiskInv'
    BY <1>1, <1>2, DiskFrame
  <2>3. /\ result' = result /\ guards' = SubSeq(guards, 1, Len(guards) - 1)
        /\ \/ pc = "umountesp" /\ pc' = "umountroot" /\ mounts' = mounts \ {"esp"}
           \/ /\ pc = "umountroot" /\ pc' = "remount"
              /\ mounts' = mounts \ {"root"} \/ mounts' = mounts \ {"root", "esp"}
    BY <1>4 DEF UmountTarget, Umount, Forget, Keep, Step, Return
  <2>4. \/ pc' = "umountroot" /\ mounts' = {"root"} /\ guards' = RootGuard
        \/ pc' = "remount" /\ mounts' = {} /\ guards' = <<>>
    <3>1. CASE pc = "umountesp"
      <4>1. guards = BothGuards /\ mounts = {"root", "esp"}
        BY <3>1 DEF IInv, MountInv
      <4>2. guards' = RootGuard
        BY <2>3, <4>1, GuardStack
      <4>3. QED BY <2>3, <3>1, <4>1, <4>2
    <3>2. CASE pc = "umountroot"
      <4>1. guards = RootGuard /\ mounts = {"root"}
        BY <3>2 DEF IInv, MountInv
      <4>2. guards' = <<>>
        BY <2>3, <4>1, GuardStack
      <4>3. QED BY <2>3, <3>2, <4>1, <4>2
    <3>3. QED BY <1>1, <3>1, <3>2
  <2>5. MountInv'
    BY <2>4 DEF MountInv, Choosing
  <2>6. ResultInv'
    BY <1>1, <1>4, <2>3, ForwardResult
  <2>7. QED BY <1>2, <2>1, <2>2, <2>5, <2>6 DEF IInv
<1>5. QED BY <1>3, <1>4

\* The comparison that a success rests on.
LEMMA RereadStep ==
  ASSUME IInv, Reread
  PROVE  IInv'
<1>1. /\ pc = "reread" /\ pc' = "umountverify"
      /\ UNCHANGED <<opts, choiceVars, targetVars, mountVars, formVars>>
  BY DEF Reread
<1>2. /\ pc \notin Choosing /\ pc' \notin Choosing /\ pc' \in Places
      /\ disk' = disk /\ stored' = stored /\ mounts' = mounts /\ guards' = guards
      /\ lingering' = lingering
  BY <1>1 DEF Choosing, Places, targetVars, mountVars
<1>3. FormInv' /\ ChoiceInv'
  BY <1>1, <1>2, WorkStep
<1>4. DiskInv'
  BY <1>1, <1>2, DiskFrame
<1>5. MountInv'
  BY <1>1, <1>2 DEF IInv, MountInv, Choosing
<1>6. ResultInv'
  <2>1. PICK seen \in {stored} \cup {w \in {written} : "esp" \in lingering} :
          result' = IF Hashed \subseteq seen THEN None ELSE "failed"
    BY DEF Reread
  <2>2. result' \in {None, "failed"} /\ result' # "ok"
    BY <2>1 DEF None
  <2>3. result' = None /\ "esp" \notin lingering => Hashed \subseteq stored
    BY <2>1 DEF None
  <2>4. QED BY <1>1, <1>2, <2>2, <2>3 DEF ResultInv
<1>7. QED BY <1>2, <1>3, <1>4, <1>5, <1>6 DEF IInv

\* The last umount decides what is returned.
LEMMA UmountVerifyStep ==
  ASSUME IInv, UmountVerify
  PROVE  IInv'
<1>1. /\ pc = "umountverify" /\ pc' = "unwind"
      /\ result' = IF result = None THEN "ok" ELSE result
      /\ UNCHANGED <<opts, choiceVars, targetVars, guards, formVars>>
  BY DEF UmountVerify, Umount
<1>2. /\ pc \notin Choosing /\ pc' \notin Choosing /\ pc' \in Places
      /\ disk' = disk /\ stored' = stored /\ guards' = guards
  BY <1>1 DEF Choosing, Places, targetVars
<1>3. FormInv' /\ ChoiceInv'
  BY <1>1, <1>2, WorkStep
<1>4. DiskInv'
  BY <1>1, <1>2, DiskFrame
<1>5. guards = <<>> /\ mounts = {"verify"}
  BY <1>1 DEF IInv, MountInv
<1>6. \A m \in mounts' : m = "verify" /\ m \in stuck'
  BY <1>5 DEF UmountVerify, Umount
<1>7. MountInv'
  BY <1>1, <1>2, <1>5, <1>6 DEF MountInv, Choosing
<1>8. ResultInv'
  <2>1. "esp" \in lingering => "esp" \in lingering'
    BY DEF UmountVerify, Umount
  <2>2. result = None /\ "esp" \notin lingering => Hashed \subseteq stored
    BY <1>1 DEF IInv, ResultInv
  <2>3. result \in {None, "failed"} /\ None # "ok"
    BY <1>1 DEF IInv, ResultInv, None
  <2>4. QED BY <1>1, <1>2, <1>5, <1>6, <2>1, <2>2, <2>3 DEF ResultInv
<1>9. QED BY <1>2, <1>3, <1>4, <1>7, <1>8 DEF IInv

------------------------------------------------------------------------------
\* Returning

\* The guards unmount in the reverse of the order they were made.
LEMMA DropGuardStep ==
  ASSUME IInv, DropGuard
  PROVE  IInv'
<1>1. /\ pc = "unwind" /\ pc' = "unwind" /\ result' = result /\ guards # <<>>
      /\ PlainUmount(guards[Len(guards)])
      /\ guards' = SubSeq(guards, 1, Len(guards) - 1)
      /\ UNCHANGED <<opts, choiceVars, targetVars, lingering, formVars>>
  BY DEF DropGuard
<1>2. /\ pc \notin Choosing /\ pc' \notin Choosing /\ pc' \in Places
      /\ disk' = disk /\ stored' = stored
  BY <1>1 DEF Choosing, Places, targetVars
<1>3. FormInv' /\ ChoiceInv'
  BY <1>1, <1>2, WorkStep
<1>4. DiskInv'
  BY <1>1, <1>2, DiskFrame
<1>5. MountInv'
  <2>1. /\ guards \in {RootGuard, BothGuards}
        /\ \A m \in mounts : Guarded(m) \/ m \in stuck \/ Busy(m)
    BY <1>1 DEF IInv, MountInv
  <2>2. CASE guards = BothGuards
    <3>1. guards' = RootGuard /\ PlainUmount("esp")
      BY <1>1, <2>2, GuardStack
    <3>2. \A m \in mounts' : Guarded(m)' \/ m \in stuck' \/ Busy(m)'
      <4>1. SUFFICES ASSUME NEW m \in mounts', m # "root"
                     PROVE  m \in stuck'
        BY <3>1 DEF Guarded
      <4>2. m \in mounts /\ stuck \subseteq stuck'
        BY <3>1 DEF PlainUmount
      <4>3. CASE m = "esp"
        BY <3>1, <4>3 DEF PlainUmount, Busy
      <4>4. CASE m # "esp"
        BY <2>1, <2>2, <4>1, <4>2, <4>4, GuardStack DEF Guarded, Busy
      <4>5. QED BY <4>3, <4>4
    <3>3. QED BY <1>1, <3>1, <3>2 DEF MountInv, Choosing
  <2>3. CASE guards = RootGuard
    <3>1. guards' = <<>> /\ PlainUmount("root")
      BY <1>1, <2>3, GuardStack
    <3>2. \A m \in mounts' : m \in stuck' \/ Busy(m)'
      <4>1. SUFFICES ASSUME NEW m \in mounts'
                     PROVE  m \in stuck' \/ Busy(m)'
        OBVIOUS
      <4>2. m \in mounts /\ stuck \subseteq stuck'
        BY <3>1 DEF PlainUmount
      <4>3. CASE m = "root"
        BY <3>1, <4>3 DEF PlainUmount, Busy
      <4>4. CASE m # "root"
        BY <2>1, <2>3, <4>2, <4>4, GuardStack DEF Guarded, Busy
      <4>5. QED BY <4>3, <4>4
    <3>3. QED BY <1>1, <3>1, <3>2 DEF MountInv, Choosing
  <2>4. QED BY <2>1, <2>2, <2>3
<1>6. ResultInv'
  <2>1. result = "ok" => opts.dryRun
    BY <1>1 DEF IInv, ResultInv
  <2>2. QED BY <1>1, <2>1 DEF IInv, ResultInv
<1>7. QED BY <1>2, <1>3, <1>4, <1>5, <1>6 DEF IInv

\* The work directory goes when no guard is left.
LEMMA RemoveWorkdirStep ==
  ASSUME IInv, RemoveWorkdir
  PROVE  IInv'
<1>1. /\ pc = "unwind" /\ pc' = "over" /\ result' = result /\ guards = <<>>
      /\ emptied' = mounts /\ UNCHANGED <<mounts, guards, lingering, stuck>>
      /\ UNCHANGED <<opts, choiceVars, targetVars, formVars>>
  BY DEF RemoveWorkdir
<1>2. /\ pc \notin Choosing /\ pc' \notin Choosing /\ pc' \in Places
      /\ disk' = disk /\ stored' = stored
  BY <1>1 DEF Choosing, Places, targetVars
<1>3. FormInv' /\ ChoiceInv'
  BY <1>1, <1>2, WorkStep
<1>4. DiskInv'
  BY <1>1, <1>2, DiskFrame
<1>5. MountInv'
  <2>1. \A m \in mounts : m \in stuck \/ Busy(m)
    BY <1>1, GuardStack DEF IInv, MountInv, Guarded
  <2>2. \A m \in mounts' : m \in stuck' \/ Busy(m)'
    BY <1>1, <2>1 DEF Busy
  <2>3. QED BY <1>1, <2>2 DEF MountInv, Choosing
<1>6. ResultInv'
  BY <1>1, <1>2 DEF IInv, ResultInv
<1>7. QED BY <1>2, <1>3, <1>4, <1>5, <1>6 DEF IInv

------------------------------------------------------------------------------
\* The theorems

\* The installer starts with nothing chosen, mounted or written.
LEMMA InitInv == Init => IInv
<1> SUFFICES ASSUME Init PROVE IInv
  OBVIOUS
<1>1. /\ pc = "manifest" /\ result = None /\ guards = <<>> /\ mounts = {}
      /\ disk = [d \in Devices |-> "old"] /\ form = NewForm(opts.spec) /\ outcome = "none"
  BY DEF Init
<1>2. opts.spec \in Specs /\ opts.target \in Devices \cup {None}
  BY DEF Init
<1>3. FormInv
  BY <1>1, <1>2, NewFormType DEF FormInv
<1>4. ChoiceInv
  BY <1>1 DEF ChoiceInv
<1>5. DiskInv
  BY <1>1, <1>2 DEF DiskInv, WipedOnlyWithConsent
<1>6. MountInv
  BY <1>1 DEF MountInv
<1>7. ResultInv
  BY <1>1 DEF ResultInv, None
<1>8. pc \in Places
  BY <1>1 DEF Places, Choosing
<1>9. QED BY <1>3, <1>4, <1>5, <1>6, <1>7, <1>8 DEF IInv

\* Every step of install(), of the operator and of others keeps the invariant.
LEMMA NextInv == IInv /\ [Next]_vars => IInv'
<1> SUFFICES ASSUME IInv, [Next]_vars PROVE IInv'
  OBVIOUS
<1>1. CASE VerifyManifest \/ LoadSpec
  BY <1>1, VerifyManifestStep
<1>2. CASE SelectTarget
  BY <1>2, SelectTargetStep
<1>3. CASE SafetyCheck
  BY <1>3, SafetyCheckStep
<1>4. CASE Gather
  BY <1>4, GatherStep
<1>5. CASE ListSafe
  BY <1>5, ListSafeStep
<1>6. CASE PressKey
  BY <1>6, PressKeyStep
<1>7. CASE FormEnds
  BY <1>7, FormEndsStep
<1>8. CASE Confirm
  BY <1>8, ConfirmStep
<1>9. CASE ZapDisk \/ NewPartitions
  BY <1>9, TableStep
<1>10. CASE Format \/ Extract \/ CustomizeRoot \/ PopulateEsp \/ SyncAll
  BY <1>10, FillStep
<1>11. CASE \/ Mount("mountroot", "extract", "root", TRUE)
            \/ Mount("mountesp", "populate", "esp", TRUE)
            \/ Mount("remount", "reread", "verify", FALSE)
  BY <1>11, MountStep
<1>12. CASE UmountTarget
  BY <1>12, UmountTargetStep
<1>13. CASE Reread
  BY <1>13, RereadStep
<1>14. CASE UmountVerify
  BY <1>14, UmountVerifyStep
<1>15. CASE DropGuard
  BY <1>15, DropGuardStep
<1>16. CASE RemoveWorkdir
  BY <1>16, RemoveWorkdirStep
<1>17. CASE \E d \in Removable, part \in Parts : OthersMount(d, part)
  BY <1>17, WorldStep DEF OthersMount
<1>18. CASE \E a \in Changing : ArtifactChanges(a)
  BY <1>18, WorldStep DEF ArtifactChanges
<1>19. CASE UNCHANGED vars
  BY <1>19, WorldStep DEF vars
<1>20. QED
  BY <1>1, <1>2, <1>3, <1>4, <1>5, <1>6, <1>7, <1>8, <1>9, <1>10, <1>11, <1>12, <1>13,
     <1>14, <1>15, <1>16, <1>17, <1>18, <1>19 DEF Next

\* The inductive invariant holds whatever devices there are and whatever fails.
THEOREM Invariance == Spec => []IInv
  BY InitInv, NextInv, PTL DEF Spec

\* A confirmed form has passed every check for the device it names now
\* (tui.rs, handle_key).
THEOREM FormCorrect == Spec => []ConfirmedFormIsValid
<1>1. IInv => ConfirmedFormIsValid
  BY DEF IInv, FormInv, ConfirmedFormIsValid
<1>2. QED BY Invariance, <1>1, PTL

\* Only the chosen disk, removable, past the safety check and with the
\* operator's consent, loses its partition table; a root size from the spec file
\* or the form then fits on it, one typed at the prompt and "the rest of the
\* disk" need not (main.rs, install).
THEOREM ConsentCorrect == Spec => []WipedOnlyWithConsent
<1>1. IInv => WipedOnlyWithConsent
  BY DEF IInv, DiskInv
<1>2. QED BY Invariance, <1>1, PTL

\* A mount point outlives install() only if umount(8) could not free it
\* (mount_.rs, MountGuard).
THEOREM UnwindCorrect == Spec => []UnwoundInOrder
<1>1. IInv => UnwoundInOrder
  BY GuardStack DEF IInv, MountInv, Guarded, UnwoundInOrder
<1>2. QED BY Invariance, <1>1, PTL

\* "Install complete" means that the three hashed files on the stick match the
\* manifest and survived the cleaning up, unless the ESP stayed in use while it
\* was unmounted or the last umount failed; cmdline.txt and the root are not
\* read again (verify.rs, verify_post_write).
THEOREM SuccessCorrect == Spec => []SuccessIsVerified
<1>1. IInv => SuccessIsVerified
  BY DEF IInv, MountInv, ResultInv, SuccessIsVerified
<1>2. QED BY Invariance, <1>1, PTL

------------------------------------------------------------------------------
\* The account

\* What is at one place is there once.
LEMMA CountOne ==
  ASSUME NEW seq, NEW e, NEW k \in 1..Len(seq), seq[k] = e,
         \A i \in 1..Len(seq) : seq[i] = e => i = k
  PROVE  Count(seq, e) = 1
<1>1. {i \in 1..Len(seq) : seq[i] = e} = {k}
  OBVIOUS
<1>2. QED BY <1>1, FS_Singleton DEF Count

\* The list with one more line.
LEMMA AddedLine ==
  ASSUME NEW S, NEW s \in Seq(S), NEW x
  PROVE  /\ Len(Append(s, x)) = Len(s) + 1 /\ Len(s) \in Nat
         /\ Append(s, x)[Len(s) + 1] = x
         /\ \A i \in 1..Len(s) : Append(s, x)[i] = s[i]
<1>1. PICK T : T = S \cup {x}
  OBVIOUS
<1>2. s \in Seq(T) /\ x \in T
  BY <1>1
<1>3. QED BY <1>2

\* rewrite_passwd and rewrite_shadow: the user's line is there once, and the
\* placeholder's is not.
LEMMA LinesRewritten ==
  ASSUME NEW file \in Seq(STRING), NEW user,
         \A i, j \in 1..Len(file) : file[i] = Skeleton /\ file[j] = Skeleton => i = j,
         user = Skeleton \/ ~Has(file, user)
  PROVE  /\ Count(RewriteLines(file, user), user) = 1
         /\ user # Skeleton => ~Has(RewriteLines(file, user), Skeleton)
<1>1. Len(file) \in Nat
  OBVIOUS
<1>2. CASE Has(file, Skeleton)
  <2>1. PICK k \in 1..Len(file) : file[k] = Skeleton
    BY <1>2 DEF Has
  <2>2. PICK new : new = [i \in 1..Len(file) |-> IF file[i] = Skeleton THEN user ELSE file[i]]
    OBVIOUS
  <2>3. Len(new) = Len(file) /\ \A i \in 1..Len(file) : new[i] = IF file[i] = Skeleton THEN user ELSE file[i]
    BY <1>1, <2>2
  <2>4. RewriteLines(file, user) = new
    BY <1>2, <2>2 DEF RewriteLines
  <2>5. new[k] = user /\ \A i \in 1..Len(new) : new[i] = user => i = k
    BY <2>1, <2>3 DEF Has
  <2>6. user # Skeleton => ~Has(new, Skeleton)
    BY <2>3 DEF Has
  <2>7. Count(new, user) = 1
    BY <2>1, <2>3, <2>5, CountOne
  <2>8. QED BY <2>4, <2>6, <2>7
<1>3. CASE ~Has(file, Skeleton)
  <2>1. PICK new : new = Append(file, user)
    OBVIOUS
  <2>2. RewriteLines(file, user) = new
    BY <1>3, <2>1 DEF RewriteLines
  <2>3. /\ Len(new) = Len(file) + 1 /\ new[Len(file) + 1] = user
        /\ \A i \in 1..Len(file) : new[i] = file[i]
    BY <2>1, AddedLine
  <2>4. \A i \in 1..Len(new) : i = Len(file) + 1 \/ (i \in 1..Len(file) /\ new[i] = file[i])
    BY <1>1, <2>3
  <2>5. \A i \in 1..Len(new) : new[i] = user => i = Len(file) + 1
    BY <1>3, <2>4 DEF Has
  <2>6. Len(file) + 1 \in 1..Len(new)
    BY <1>1, <2>3
  <2>7. user # Skeleton => ~Has(new, Skeleton)
    BY <1>3, <2>3, <2>4 DEF Has
  <2>8. Count(new, user) = 1
    BY <2>3, <2>5, <2>6, CountOne
  <2>9. QED BY <2>2, <2>7, <2>8
<1>4. QED BY <1>2, <1>3

GroupLine == [name : STRING, members : SUBSET STRING]

\* A line of the user's own group, or the line that was there without the
\* placeholder and, in the groups asked for, with the user.
LEMMA GroupLineRewritten ==
  ASSUME NEW line \in GroupLine, NEW user, NEW new, new = RewriteGroupLine(line, user, Groups)
  PROVE  /\ line.name = Skeleton => new.name = user /\ new.members = {}
         /\ line.name # Skeleton =>
              /\ new.name = line.name
              /\ line.name \in Groups => user \in new.members
              /\ user # Skeleton => Skeleton \notin new.members
BY DEF GroupLine, RewriteGroupLine

\* What rewrite_group makes of the user's lines.
GroupWhole(file, user) ==
  /\ Cardinality({i \in 1..Len(file) : file[i].name = user}) = 1
  /\ \A i \in 1..Len(file) :
       /\ file[i].name \in Groups \ {user} => user \in file[i].members
       /\ user # Skeleton => file[i].name # Skeleton /\ Skeleton \notin file[i].members

\* rewrite_group: the user has one group of its own and is in those asked for.
LEMMA GroupRewritten ==
  ASSUME NEW file \in Seq(GroupLine), NEW user,
         \A i, j \in 1..Len(file) : file[i].name = Skeleton /\ file[j].name = Skeleton => i = j,
         user = Skeleton \/ \A i \in 1..Len(file) : file[i].name # user
  PROVE  GroupWhole(RewriteGroup(file, user, Groups), user)
<1>1. Len(file) \in Nat /\ \A i \in 1..Len(file) : file[i] \in GroupLine
  OBVIOUS
<1>2. PICK lines : lines = [i \in 1..Len(file) |-> RewriteGroupLine(file[i], user, Groups)]
  OBVIOUS
<1>3. /\ Len(lines) = Len(file) /\ lines \in Seq({lines[i] : i \in 1..Len(file)})
      /\ \A i \in 1..Len(file) : lines[i] = RewriteGroupLine(file[i], user, Groups)
  BY <1>1, <1>2
<1>4. \A i \in 1..Len(file) :
        /\ file[i].name = Skeleton => lines[i].name = user /\ lines[i].members = {}
        /\ file[i].name # Skeleton =>
             /\ lines[i].name = file[i].name
             /\ file[i].name \in Groups => user \in lines[i].members
             /\ user # Skeleton => Skeleton \notin lines[i].members
  BY <1>1, <1>3, GroupLineRewritten
<1>5. \A i \in 1..Len(file) :
        /\ lines[i].name = user <=> file[i].name = Skeleton
        /\ lines[i].name \in Groups \ {user} => user \in lines[i].members
        /\ user # Skeleton => lines[i].name # Skeleton /\ Skeleton \notin lines[i].members
  BY <1>4
<1>6. CASE \E k \in 1..Len(file) : file[k].name = Skeleton
  <2>1. PICK k \in 1..Len(file) : file[k].name = Skeleton
    BY <1>6
  <2>2. RewriteGroup(file, user, Groups) = lines
    BY <1>2, <1>6 DEF RewriteGroup
  <2>3. {i \in 1..Len(lines) : lines[i].name = user} = {k}
    BY <1>3, <1>5, <2>1
  <2>4. Cardinality({k}) = 1
    BY FS_Singleton
  <2>5. QED BY <1>3, <1>5, <2>2, <2>3, <2>4 DEF GroupWhole
<1>7. CASE ~\E k \in 1..Len(file) : file[k].name = Skeleton
  <2>1. PICK new : new = Append(lines, [name |-> user, members |-> {}])
    OBVIOUS
  <2>2. RewriteGroup(file, user, Groups) = new
    BY <1>2, <1>7, <2>1 DEF RewriteGroup
  <2>3. /\ Len(new) = Len(file) + 1 /\ new[Len(file) + 1] = [name |-> user, members |-> {}]
        /\ \A i \in 1..Len(file) : new[i] = lines[i]
    BY <1>3, <2>1, AddedLine
  <2>4. new[Len(file) + 1].name = user /\ new[Len(file) + 1].members = {}
    BY <2>3
  <2>5. \A i \in 1..Len(new) : i = Len(file) + 1 \/ (i \in 1..Len(file) /\ new[i] = lines[i])
    BY <1>1, <2>3
  <2>6. Len(file) + 1 \in 1..Len(new)
    BY <1>1, <2>3
  <2>7. {i \in 1..Len(new) : new[i].name = user} = {Len(file) + 1}
    BY <1>5, <1>7, <2>4, <2>5, <2>6
  <2>8. Cardinality({Len(file) + 1}) = 1
    BY FS_Singleton
  <2>9. \A i \in 1..Len(new) :
          /\ new[i].name \in Groups \ {user} => user \in new[i].members
          /\ user # Skeleton => new[i].name # Skeleton /\ Skeleton \notin new[i].members
    BY <1>5, <2>4, <2>5
  <2>10. QED BY <2>2, <2>7, <2>8, <2>9 DEF GroupWhole
<1>8. QED BY <1>6, <1>7

RootRec == [passwd : Seq(STRING), shadow : Seq(STRING), group : Seq(GroupLine),
            homes : SUBSET STRING, enabled : SUBSET STRING, target : STRING]

\* apply() edits each file by its own function.
LEMMA ApplyFields ==
  ASSUME NEW r \in RootRec, NEW user, NEW atBoot, NEW new, new = Apply(r, user, Groups, atBoot)
  PROVE  /\ new.passwd = RewriteLines(r.passwd, user) /\ new.shadow = RewriteLines(r.shadow, user)
         /\ new.group = RewriteGroup(r.group, user, Groups)
         /\ new.homes = RenameHome(r.homes, user)
<1>1. PICK p, s, g, h : /\ p = RewriteLines(r.passwd, user) /\ s = RewriteLines(r.shadow, user)
                        /\ g = RewriteGroup(r.group, user, Groups) /\ h = RenameHome(r.homes, user)
  OBVIOUS
<1>2. PICK m : m = [r EXCEPT !.passwd = p, !.shadow = s, !.group = g, !.homes = h]
  OBVIOUS
<1>3. m = [passwd |-> p, shadow |-> s, group |-> g, homes |-> h,
           enabled |-> r.enabled, target |-> r.target]
  BY <1>2 DEF RootRec
<1>4. new = ApplyNetwork(m, atBoot)
  BY <1>1, <1>2 DEF Apply
<1>5. new.passwd = p /\ new.shadow = s /\ new.group = g /\ new.homes = h
  BY <1>3, <1>4 DEF ApplyNetwork
<1>6. QED BY <1>1, <1>5

\* The account files are whole, for this user.
Whole(r, user) ==
  /\ Count(r.passwd, user) = 1 /\ Count(r.shadow, user) = 1
  /\ GroupWhole(r.group, user)
  /\ user \in r.homes
  /\ user # Skeleton =>
       ~Has(r.passwd, Skeleton) /\ ~Has(r.shadow, Skeleton) /\ Skeleton \notin r.homes

\* apply() makes the account whole.
LEMMA ApplyWhole ==
  ASSUME NEW r \in Roots, NEW user, ~Taken(r, user), NEW atBoot
  PROVE  Whole(Apply(r, user, Groups, atBoot), user)
<1>1. r \in RootRec /\ PlaceholderOnce(r)
  BY InstallerAssumption DEF RootRec, GroupLine
<1>2. PICK new : new = Apply(r, user, Groups, atBoot)
  OBVIOUS
<1>3. /\ new.passwd = RewriteLines(r.passwd, user) /\ new.shadow = RewriteLines(r.shadow, user)
      /\ new.group = RewriteGroup(r.group, user, Groups)
      /\ new.homes = RenameHome(r.homes, user)
  BY <1>1, <1>2, ApplyFields
<1>4. r.passwd \in Seq(STRING) /\ r.shadow \in Seq(STRING) /\ r.group \in Seq(GroupLine)
  BY <1>1 DEF RootRec
<1>5. /\ Count(new.passwd, user) = 1 /\ Count(new.shadow, user) = 1
      /\ user # Skeleton => ~Has(new.passwd, Skeleton) /\ ~Has(new.shadow, Skeleton)
  BY <1>1, <1>3, <1>4, LinesRewritten DEF PlaceholderOnce, Taken
<1>6. GroupWhole(new.group, user)
  BY <1>1, <1>3, <1>4, GroupRewritten DEF PlaceholderOnce, Taken
<1>7. user \in new.homes /\ (user # Skeleton => Skeleton \notin new.homes)
  BY <1>3 DEF RenameHome
<1>8. QED BY <1>2, <1>5, <1>6, <1>7 DEF Whole

\* The sysroot is as it was shipped until customize, and whole from then on.
AccountInv ==
  /\ pc = "customize" => root \in Roots
  /\ pc \in {"mountesp", "populate", "sync"} /\ (\A before \in Roots : ~Taken(before, plan.name)) =>
       Whole(root, plan.name)

\* No step but customize touches the account files after their extraction.
LEMMA AccountStep == AccountInv /\ [Next]_vars => AccountInv'
<1>1. SUFFICES ASSUME AccountInv, [Next]_vars PROVE AccountInv'
  OBVIOUS
<1>2. ASSUME pc' \notin {"customize", "mountesp", "populate", "sync"} PROVE AccountInv'
  BY <1>2 DEF AccountInv
<1>3. ASSUME UNCHANGED <<root, plan>>, pc' = pc \/ (pc = "mountesp" /\ pc' = "populate")
                                       \/ (pc = "populate" /\ pc' = "sync")
      PROVE  AccountInv'
  BY <1>1, <1>3 DEF AccountInv
<1>4. CASE Extract
  <2>1. (pc' = "customize" /\ root' \in Roots) \/ pc' = "unwind"
    BY <1>4 DEF Extract, Step, Error, Return
  <2>2. QED BY <2>1 DEF AccountInv
<1>5. CASE CustomizeRoot
  <2>1. CASE pc' = "unwind"
    BY <1>2, <2>1
  <2>2. CASE pc' # "unwind"
    <3>1. /\ pc = "customize" /\ pc' = "mountesp" /\ plan' = plan
          /\ root' = Apply(root, plan.name, Groups, plan.network)
      BY <1>5, <2>2 DEF CustomizeRoot, Step, Return, choiceVars
    <3>2. root \in Roots
      BY <1>1, <3>1 DEF AccountInv
    <3>3. (\A before \in Roots : ~Taken(before, plan.name)) => Whole(root', plan.name)
      BY <3>1, <3>2, ApplyWhole
    <3>4. QED BY <3>1, <3>3 DEF AccountInv
  <2>3. QED BY <2>1, <2>2
<1>6. CASE PopulateEsp \/ Mount("mountesp", "populate", "esp", TRUE)
  <2>1. UNCHANGED <<root, plan>>
    BY <1>6 DEF PopulateEsp, Mount, choiceVars, targetVars
  <2>2. \/ pc' = "unwind" \/ (pc = "mountesp" /\ pc' = "populate")
        \/ (pc = "populate" /\ pc' = "sync")
    BY <1>6 DEF PopulateEsp, Mount, Step, Error, Return
  <2>3. QED BY <1>2, <1>3, <2>1, <2>2
<1>7. CASE \/ UNCHANGED vars \/ (\E d \in Removable, part \in Parts : OthersMount(d, part))
           \/ (\E a \in Changing : ArtifactChanges(a))
  <2>1. UNCHANGED <<root, plan, pc>>
    BY <1>7 DEF OthersMount, ArtifactChanges, vars, choiceVars, targetVars
  <2>2. QED BY <1>3, <2>1
<1>8. CASE \/ VerifyManifest \/ LoadSpec \/ SelectTarget \/ SafetyCheck \/ Gather
           \/ ListSafe \/ PressKey \/ FormEnds \/ Confirm
  <2>1. pc' \notin {"customize", "mountesp", "populate", "sync"}
    BY <1>8 DEF VerifyManifest, LoadSpec, SelectTarget, SafetyCheck, Gather, ListSafe, PressKey,
       FormEnds, Confirm, Step, Error, Return
  <2>2. QED BY <1>2, <2>1
<1>9. CASE \/ ZapDisk \/ NewPartitions \/ Format \/ SyncAll
           \/ Mount("mountroot", "extract", "root", TRUE)
           \/ Mount("remount", "reread", "verify", FALSE)
  <2>1. pc' \notin {"customize", "mountesp", "populate", "sync"}
    BY <1>9 DEF ZapDisk, NewPartitions, Format, SyncAll, Mount, Step, Error, Return
  <2>2. QED BY <1>2, <2>1
<1>10. CASE UmountTarget \/ Reread \/ UmountVerify \/ DropGuard \/ RemoveWorkdir
  <2>1. pc' \notin {"customize", "mountesp", "populate", "sync"}
    BY <1>10 DEF UmountTarget, Umount, Forget, Keep, Reread, UmountVerify, DropGuard,
       RemoveWorkdir, Step, Return
  <2>2. QED BY <1>2, <2>1
<1>11. QED BY <1>1, <1>4, <1>5, <1>6, <1>7, <1>8, <1>9, <1>10 DEF Next

\* Whichever parts of the placeholder the sysroot has, and whatever the user is
\* called, customize leaves one whole account and nothing of the placeholder,
\* unless the name was taken (customize.rs, apply).
THEOREM AccountCorrect == Spec => []AccountIsWhole
<1>1. Init => AccountInv
  BY DEF Init, AccountInv
<1>2. AccountInv => AccountIsWhole
  <2>1. ASSUME NEW r, NEW user, Whole(r, user),
               NEW g \in {r.group[i] : i \in 1..Len(r.group)}
        PROVE  /\ g.name \in Groups \ {user} => user \in g.members
               /\ user # Skeleton => g.name # Skeleton /\ Skeleton \notin g.members
    BY <2>1 DEF Whole, GroupWhole
  <2>2. QED BY <2>1 DEF AccountInv, AccountIsWhole, Whole, GroupWhole
<1>3. QED BY <1>1, <1>2, AccountStep, PTL DEF Spec

==============================================================================
