---------------------------- MODULE InstallerForm ----------------------------
(***************************************************************************)
(* What the installer asks before it touches a disk: the five screens of   *)
(* the text interface (tui.rs) and the line-by-line prompts (prompt.rs).   *)
(*                                                                         *)
(* A number is what a field parses to, <<n>>, or <<>> when it does not.    *)
(* Typing replaces a field's value; which field has the focus is left out, *)
(* since Tab reaches every field of a screen.  A key that only shows an    *)
(* error changes nothing.  The layout stands for layout and variant.       *)
(***************************************************************************)
EXTENDS Naturals, Sequences, FiniteSets

CONSTANTS
  Devices,      \* block devices
  Size,         \* Size[d]: MiB, 32 bits wide in the code: disks below 4 PiB
  EspInputs,    \* what operators type as the size of the ESP, in MiB
  RootInputs,   \* what they type as the size of the root, in GiB; 0 is the rest
  Names,        \* what they type as the user's name
  Passwords,    \* what they type as a password
  Layouts,      \* what they type as a keyboard layout
  GoodText,     \* the names and layouts made of lower case, digits and _
  GoodPassword  \* the passwords of at least six characters

ASSUME FormAssumption ==
  /\ Size \in [Devices -> Nat]
  /\ EspInputs \subseteq Seq(Nat) /\ RootInputs \subseteq Seq(Nat)
  /\ GoodPassword \subseteq Passwords

VARIABLES
  form,     \* App
  outcome   \* App.outcome: "none", "confirmed" or "cancelled"

formVars == <<form, outcome>>

MaxRootGib(d, esp) ==
  IF Size[d] <= esp + 8 THEN 0 ELSE (Size[d] - (esp + 8)) \div 1024

ValidName(name)  == name # "root" /\ name \in GoodText
ValidKeymap(map) == map \in GoodText

\* App::new; a name or a layout from the spec file is one that could also be
\* typed.
NewForm(spec) ==
  [screen |-> "device", device |-> 0, esp |-> spec.esp, root |-> spec.root,
   name |-> "", password |-> "", confirm |-> "", layout |-> "us"]

------------------------------------------------------------------------------
\* handle_key.  Esc and Ctrl-C cancel on every screen.

HandleEsc ==
  /\ outcome' = "cancelled"
  /\ UNCHANGED form

\* A key that only moves to another screen.
Show(from, to) ==
  /\ form.screen = from
  /\ form' = [form EXCEPT !.screen = to]
  /\ UNCHANGED outcome

\* Up and Down reach every listed device; Enter takes the current one.
HandleDevices(listed) ==
  \/ /\ form.screen = "device"
     /\ \E d \in listed : form' = [form EXCEPT !.device = d]
     /\ UNCHANGED outcome
  \/ Show("device", "partition")

EspRange == 64..8192

PartitionValid(f) ==
  /\ f.esp # <<>> /\ f.esp[1] \in EspRange
  /\ f.root # <<>>
  /\ f.root[1] <= MaxRootGib(f.device, f.esp[1])

\* Mutant: the sizes only have to be numbers.
HandlePartitionParses ==
  \/ /\ form.screen = "partition"
     /\ \E e \in EspInputs, r \in RootInputs : form' = [form EXCEPT !.esp = e, !.root = r]
     /\ UNCHANGED outcome
  \/ form.esp # <<>> /\ form.root # <<>> /\ Show("partition", "user")
  \/ Show("partition", "device")

HandlePartition ==
  \/ /\ form.screen = "partition"
     /\ \E e \in EspInputs, r \in RootInputs : form' = [form EXCEPT !.esp = e, !.root = r]
     /\ UNCHANGED outcome
  \/ PartitionValid(form) /\ Show("partition", "user")
  \/ Show("partition", "device")

UserValid(f) ==
  /\ ValidName(f.name)
  /\ f.password \in GoodPassword
  /\ f.password = f.confirm

HandleUser ==
  \/ /\ form.screen = "user"
     /\ \E n \in Names, p \in Passwords, c \in Passwords :
          form' = [form EXCEPT !.name = n, !.password = p, !.confirm = c]
     /\ UNCHANGED outcome
  \/ UserValid(form) /\ Show("user", "keyboard")
  \/ Show("user", "partition")

HandleKeyboard ==
  \/ /\ form.screen = "keyboard"
     /\ \E l \in Layouts : form' = [form EXCEPT !.layout = l]
     /\ UNCHANGED outcome
  \/ ValidKeymap(form.layout) /\ Show("keyboard", "summary")
  \/ Show("keyboard", "user")

HandleSummary ==
  \/ /\ form.screen = "summary"
     /\ outcome' = "confirmed"
     /\ UNCHANGED form
  \/ Show("summary", "keyboard")

HandleKey(listed) ==
  /\ outcome = "none"
  /\ \/ HandleEsc \/ HandleDevices(listed) \/ HandlePartition
     \/ HandleUser \/ HandleKeyboard \/ HandleSummary

\* build_plan; the form has no network switch.
BuildPlan ==
  [esp |-> form.esp[1], root |-> form.root[1], name |-> form.name, network |-> FALSE,
   typed |-> FALSE]

------------------------------------------------------------------------------
\* gather_plan: the spec file first, a prompt for what it leaves open.  A size
\* typed at the prompt is not compared with the disk.
\* typed: the root's size came from the prompt.

GatherPartition(spec, d) ==
  LET Parsed(typed) == {field[1] : field \in typed \ {<<>>}}
      asked == ~spec.rootGiven \/ spec.root = <<0>>
      esps == Parsed(IF spec.espGiven THEN {spec.esp} ELSE EspInputs) \cap (100..4096)
      Fitting(e) == {r \in Parsed(IF asked THEN RootInputs ELSE {spec.root}) :
                       asked \/ r <= MaxRootGib(d, e)}
      Rest(e, r) == asked /\ r = MaxRootGib(d, e)
  IN  UNION {{[esp |-> e, root |-> IF Rest(e, r) THEN 0 ELSE r, typed |-> asked] :
                r \in Fitting(e)} : e \in esps}

GatherPlan(spec, d) ==
  {[esp |-> p.esp, root |-> p.root, name |-> n, network |-> spec.network, typed |-> p.typed] :
     p \in GatherPartition(spec, d), n \in {n \in Names : ValidName(n)}}

------------------------------------------------------------------------------
\* Properties

\* A form that was confirmed has passed every check for the device it names
\* now, whatever screens were visited, left and edited in whatever order
\* (tui.rs, handle_key).
ConfirmedFormIsValid ==
  outcome = "confirmed" =>
    PartitionValid(form) /\ UserValid(form) /\ ValidKeymap(form.layout)

==============================================================================
