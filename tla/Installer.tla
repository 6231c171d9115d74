------------------------------ MODULE Installer ------------------------------
(***************************************************************************)
(* writeonce-installer: from the artifacts and the operator's choices to a *)
(* bootable stick, and the way back out when a step fails (main.rs with    *)
(* detect.rs, manifest.rs, confirm.rs, partition.rs, mkfs.rs, mount_.rs,   *)
(* extract.rs, bootloader.rs and verify.rs).                               *)
(*                                                                         *)
(* Errors return from install(), and its locals are dropped in reverse:    *)
(* the guard of the ESP, the guard of the root, the work directory they    *)
(* are mounted in.  A signal ends the process and drops nothing: a         *)
(* behaviour may stop at any step.  Other programs mount partitions and    *)
(* change the artifacts meanwhile.                                         *)
(***************************************************************************)
EXTENDS InstallerForm, Customize

CONSTANTS
  Removable,   \* devices whose removable attribute reads 1
  Skipped,     \* devices list_removable leaves out: ram, loop, dm-, sr, zram
  PNamed,      \* devices whose partitions have a p before their number
  Specs,       \* what --spec may hold
  Roots,       \* the account files of the sysroot archive
  Groups,      \* supplementary groups of the user
  Changing,    \* artifacts somebody rebuilds during the installation
  MayFail      \* commands and writes that may fail

None == "none"

\* The files of the ESP; the manifest has a hash of all but cmdline.txt.
Hashed    == {"bootloader", "kernel", "initramfs"}
EspFiles  == Hashed \cup {"cmdline"}
Artifacts == Hashed \cup {"sysroot"}

\* What of a disk can be mounted: the whole, one of the partitions 1 and 2, or
\* another partition.
Parts == {"disk", "low", "high"}

\* The skeleton names its placeholder at most once in each account file.
PlaceholderOnce(r) ==
  /\ \A i, j \in 1..Len(r.passwd) : r.passwd[i] = Skeleton /\ r.passwd[j] = Skeleton => i = j
  /\ \A i, j \in 1..Len(r.shadow) : r.shadow[i] = Skeleton /\ r.shadow[j] = Skeleton => i = j
  /\ \A i, j \in 1..Len(r.group) :
       r.group[i].name = Skeleton /\ r.group[j].name = Skeleton => i = j

ASSUME InstallerAssumption ==
  /\ Removable \subseteq Devices /\ Skipped \subseteq Devices /\ PNamed \subseteq Devices
  /\ None \notin Devices
  /\ Specs \subseteq [esp : Seq(Nat), espGiven : BOOLEAN, root : Seq(Nat), rootGiven : BOOLEAN,
                      network : BOOLEAN]
  /\ Roots \subseteq [passwd : Seq(STRING), shadow : Seq(STRING),
                      group : Seq([name : STRING, members : SUBSET STRING]),
                      homes : SUBSET STRING, enabled : SUBSET STRING, target : STRING]
  /\ \A r \in Roots : PlaceholderOnce(r)
  /\ Changing \subseteq Artifacts
  /\ MayFail \subseteq {"manifest", "spec", "sgdisk", "mkfs", "mount", "extract", "customize",
                        "copy", "usb", "umount", "lazy", "tui"}

VARIABLES
  opts,      \* the command line
  pc,        \* the step of install() that is next
  result,    \* what install() returns: None, "ok" or "failed"
  device,    \* the device chosen
  plan,      \* InstallationPlan
  listed,    \* the devices offered by the text interface
  others,    \* what other programs have mounted: a device and one of its Parts
  source,    \* artifacts that match the manifest
  disk,      \* partition tables: "old", "zapped" or "gpt"
  root,      \* the account files on the target, or None
  written,   \* good files on the mounted ESP
  stored,    \* good files on the stick itself
  mounts,    \* the installer's mount points in use: "root", "esp", "verify"
  guards,    \* its MountGuards, oldest first
  lingering, \* file systems in use after their umount: somebody has a file open
             \* behind umount -l, or another program has them mounted
  stuck,     \* history: mount points umount could not free, for reasons of its own
  emptied,   \* history: mount points whose files were deleted with the work directory
  cleared,   \* history: devices that passed safety_check
  consent    \* history: the operator's consent: None, "flag", "typed" or "form"

choiceVars == <<device, plan, listed, cleared, consent>>
targetVars == <<disk, root, written, stored>>
mountVars  == <<mounts, guards, lingering, stuck, emptied>>
worldVars  == <<others, source>>
vars       == <<opts, pc, result, choiceVars, targetVars, mountVars, worldVars, formVars>>

Init ==
  /\ opts \in [target : Devices \cup {None}, spec : Specs, yes : BOOLEAN,
               dryRun : BOOLEAN, force : BOOLEAN, tui : BOOLEAN]
  /\ pc = "manifest" /\ result = None
  /\ device = None /\ plan = None /\ listed = {}
  /\ others \in {{}} \cup {{<<d, p>>} : d \in Removable, p \in Parts}
  /\ source \in {Artifacts} \cup {Artifacts \ {a} : a \in Changing}
  /\ disk = [d \in Devices |-> "old"]
  /\ root = None /\ written = {} /\ stored = {}
  /\ mounts = {} /\ guards = <<>> /\ lingering = {} /\ stuck = {} /\ emptied = {}
  /\ cleared = {} /\ consent = None
  /\ form = NewForm(opts.spec) /\ outcome = "none"

\* The text interface runs unless a flag or the lack of a terminal forbids it.
CliPath == ~opts.tui \/ opts.target # None \/ opts.yes

Return(r) == pc' = "unwind" /\ result' = r

\* A step ends in the next one, or in an error.
Step(from, to) == pc = from /\ pc' = to /\ UNCHANGED result
Error(from, what) == pc = from /\ what \in MayFail /\ Return("failed")

------------------------------------------------------------------------------
\* Before the disk is touched

\* Manifest::load, then the SHA-256 of every artifact.
VerifyManifest ==
  /\ \/ source = Artifacts /\ Step("manifest", "spec")
     \/ source # Artifacts /\ pc = "manifest" /\ Return("failed")
     \/ Error("manifest", "manifest")
  /\ UNCHANGED <<opts, choiceVars, targetVars, mountVars, worldVars, formVars>>

LoadSpec ==
  /\ \/ Step("spec", IF CliPath THEN "select" ELSE "list")
     \/ Error("spec", "spec")
  /\ UNCHANGED <<opts, choiceVars, targetVars, mountVars, worldVars, formVars>>

ListRemovable == Removable \ Skipped

\* select_target: the device of --target, or one of the removable ones; the
\* choice between several may be mistyped.
SelectTarget ==
  /\ pc = "select"
  /\ LET choices == IF opts.target = None THEN ListRemovable
                    ELSE {d \in {opts.target} : d \in Removable \/ opts.force}
     IN \/ /\ device' \in choices
           /\ Step("select", "check")
        \/ /\ choices = {} \/ (opts.target = None /\ Cardinality(choices) > 1)
           /\ Return("failed")
           /\ UNCHANGED device
  /\ UNCHANGED <<opts, plan, listed, cleared, consent, targetVars, mountVars, worldVars, formVars>>

\* Mutant: the flag that lets a fixed disk be named also lets it pass.
SafeIfForced(d) ==
  /\ d \in Removable \/ opts.force
  /\ <<d, "disk">> \notin others
  /\ d \in PNamed \/ <<d, "low">> \notin others

\* safety_check refuses a device that is not removable, forced or not, and one
\* that is mounted as a whole or under its name with a 1 or a 2 appended, which
\* is no partition's name if there is a p in it.
Safe(d) ==
  /\ d \in Removable
  /\ <<d, "disk">> \notin others
  /\ d \in PNamed \/ <<d, "low">> \notin others

SafetyCheck ==
  /\ pc = "check"
  /\ IF Safe(device)
       THEN cleared' = cleared \cup {device} /\ Step("check", "gather")
       ELSE UNCHANGED cleared /\ Return("failed")
  /\ UNCHANGED <<opts, device, plan, listed, consent, targetVars, mountVars, worldVars, formVars>>

Gather ==
  /\ pc = "gather"
  /\ \/ /\ plan' \in GatherPlan(opts.spec, device)
        /\ Step("gather", "confirm")
     \/ /\ Return("failed")
        /\ UNCHANGED plan
  /\ UNCHANGED <<opts, device, listed, cleared, consent, targetVars, mountVars, worldVars, formVars>>

\* The text interface offers the removable devices that pass the check.
ListSafe ==
  /\ pc = "list"
  /\ listed' = {d \in ListRemovable : Safe(d)}
  /\ cleared' = listed'
  /\ \/ /\ listed' = {} /\ Return("failed")
        /\ UNCHANGED form
     \/ /\ \E d \in listed' : form' = [form EXCEPT !.device = d]
        /\ Step("list", "form")
     \/ /\ Error("list", "tui")
        /\ UNCHANGED form
  /\ UNCHANGED <<opts, device, plan, consent, targetVars, mountVars, worldVars, outcome>>

PressKey ==
  /\ pc = "form"
  /\ HandleKey(listed)
  /\ UNCHANGED <<opts, pc, result, choiceVars, targetVars, mountVars, worldVars>>

\* The form is dropped; the password may still fail to hash.
FormEnds ==
  /\ pc = "form" /\ outcome # "none"
  /\ \/ /\ outcome = "confirmed"
        /\ device' = form.device /\ plan' = BuildPlan /\ consent' = "form"
        /\ Step("form", "confirm")
     \/ /\ outcome = "cancelled" \/ "tui" \in MayFail
        /\ Return("failed")
        /\ UNCHANGED <<device, plan, consent>>
  /\ form' = NewForm(opts.spec) /\ outcome' = "none"
  /\ UNCHANGED <<opts, listed, cleared, targetVars, mountVars, worldVars>>

\* --dry-run stops here; without --yes the prompt wants "yes" typed.
Confirm ==
  /\ pc = "confirm"
  /\ \/ /\ opts.dryRun /\ Return("ok")
        /\ UNCHANGED consent
     \/ /\ ~opts.dryRun /\ Step("confirm", "zap")
        /\ consent' = IF opts.yes THEN "flag" ELSE IF CliPath THEN "typed" ELSE consent
     \/ /\ ~opts.dryRun /\ ~opts.yes /\ CliPath /\ Return("failed")
        /\ UNCHANGED consent
  /\ UNCHANGED <<opts, device, plan, listed, cleared, targetVars, mountVars, worldVars, formVars>>

------------------------------------------------------------------------------
\* The disk

Fits == plan.esp + 8 + 1024 * plan.root <= Size[device]

\* create_gpt: the old table goes before the new one is tried.
ZapDisk ==
  /\ \/ /\ Step("zap", "gpt")
        /\ disk' = [disk EXCEPT ![device] = "zapped"]
     \/ /\ Error("zap", "sgdisk")
        /\ UNCHANGED disk
  /\ UNCHANGED <<opts, choiceVars, root, written, stored, mountVars, worldVars, formVars>>

NewPartitions ==
  /\ pc = "gpt"
  /\ \/ /\ Fits /\ Step("gpt", "mkfs")
        /\ disk' = [disk EXCEPT ![device] = "gpt"]
     \/ /\ ~Fits \/ "sgdisk" \in MayFail
        /\ Return("failed")
        /\ UNCHANGED disk
  /\ UNCHANGED <<opts, choiceVars, root, written, stored, mountVars, worldVars, formVars>>

\* format_esp and format_root.
Format ==
  /\ Step("mkfs", "mountroot") \/ Error("mkfs", "mkfs")
  /\ UNCHANGED <<opts, choiceVars, targetVars, mountVars, worldVars, formVars>>

\* mount(), and a guard for the two that have one.
Mount(from, to, point, guarded) ==
  /\ \/ /\ Step(from, to)
        /\ mounts' = mounts \cup {point}
        /\ guards' = IF guarded THEN Append(guards, point) ELSE guards
     \/ /\ Error(from, "mount")
        /\ UNCHANGED <<mounts, guards>>
  /\ UNCHANGED <<opts, choiceVars, targetVars, lingering, stuck, emptied, worldVars, formVars>>

Extract ==
  /\ \/ /\ Step("extract", "customize")
        /\ root' \in Roots
     \/ /\ Error("extract", "extract")
        /\ UNCHANGED root
  /\ UNCHANGED <<opts, choiceVars, disk, written, stored, mountVars, worldVars, formVars>>

CustomizeRoot ==
  /\ pc = "customize"
  /\ \/ /\ CanRenameHome(root.homes, plan.name)
        /\ root' = Apply(root, plan.name, Groups, plan.network)
        /\ Step("customize", "mountesp")
     \/ /\ ~CanRenameHome(root.homes, plan.name) \/ "customize" \in MayFail
        /\ Return("failed")
        /\ UNCHANGED root
  /\ UNCHANGED <<opts, choiceVars, disk, written, stored, mountVars, worldVars, formVars>>

\* populate_esp; a file is copied as the artifact is now.
PopulateEsp ==
  /\ \/ /\ Step("populate", "sync")
        /\ written' = (Hashed \cap source) \cup {"cmdline"}
     \/ /\ Error("populate", "copy")
        /\ UNCHANGED written
  /\ UNCHANGED <<opts, choiceVars, disk, root, stored, mountVars, worldVars, formVars>>

\* sync_all, whose status is dropped; a bad stick stores something else.
SyncAll ==
  /\ Step("sync", "umountesp")
  /\ stored' \in {written} \cup (IF "usb" \in MayFail THEN {written \ {f} : f \in EspFiles} ELSE {})
  /\ UNCHANGED <<opts, choiceVars, disk, root, written, mountVars, worldVars, formVars>>

\* A mount below keeps a mount point busy.
Busy(point) == point = "root" /\ "esp" \in mounts

\* umount(8) on its own: it frees the mount point or it does not.
PlainUmount(point) ==
  \/ /\ ~Busy(point)
     /\ mounts' = mounts \ {point}
     /\ UNCHANGED stuck
  \/ /\ Busy(point) \/ "umount" \in MayFail
     /\ UNCHANGED mounts
     /\ stuck' = IF Busy(point) THEN stuck ELSE stuck \cup {point}

\* umount(): a second try detaches the mount point from a file system that
\* stays in use.  One that another program has mounted stays in use as well.
Umount(point, then, failed) ==
  \/ /\ ~Busy(point)
     /\ mounts' = mounts \ {point}
     /\ lingering' = lingering \cup {m \in {point} : <<device, "low">> \in others}
     /\ then
     /\ UNCHANGED stuck
  \/ /\ Busy(point) \/ "umount" \in MayFail
     /\ mounts' = mounts \ (IF point = "root" THEN {"root", "esp"} ELSE {point})
     /\ lingering' = lingering \cup {point}
     /\ then
     /\ UNCHANGED stuck
  \/ /\ "lazy" \in MayFail
     /\ stuck' = stuck \cup {point}
     /\ failed
     /\ UNCHANGED <<mounts, lingering>>

\* A guard is forgotten once its mount is gone.
Forget(to) == Step(pc, to) /\ guards' = SubSeq(guards, 1, Len(guards) - 1)

Keep == Return("failed") /\ UNCHANGED guards

UmountTarget ==
  /\ \/ pc = "umountesp" /\ Umount("esp", Forget("umountroot"), Keep)
     \/ pc = "umountroot" /\ Umount("root", Forget("remount"), Keep)
  /\ UNCHANGED <<opts, choiceVars, targetVars, emptied, worldVars, formVars>>

\* Mutant: the files are read and not compared.
RereadOnly ==
  /\ pc = "reread"
  /\ pc' = "umountverify"
  /\ UNCHANGED <<opts, result, choiceVars, targetVars, mountVars, worldVars, formVars>>

\* verify_post_write: what is read comes from the stick, unless the file system
\* was in use all the time and the page cache still has what was written.
Reread ==
  /\ pc = "reread"
  /\ \E seen \in {stored} \cup {w \in {written} : "esp" \in lingering} :
       result' = IF Hashed \subseteq seen THEN None ELSE "failed"
  /\ pc' = "umountverify"
  /\ UNCHANGED <<opts, choiceVars, targetVars, mountVars, worldVars, formVars>>

\* Its umount may fail unnoticed.
UmountVerify ==
  /\ pc = "umountverify"
  /\ LET end == pc' = "unwind" /\ result' = (IF result = None THEN "ok" ELSE result)
     IN  Umount("verify", end, end)
  /\ UNCHANGED <<opts, choiceVars, targetVars, guards, emptied, worldVars, formVars>>

------------------------------------------------------------------------------
\* Returning: the locals are dropped

\* Mutant: the guards are dropped in the order they were made.
DropGuardOldestFirst ==
  /\ pc = "unwind" /\ guards # <<>>
  /\ PlainUmount(guards[1])
  /\ guards' = Tail(guards)
  /\ UNCHANGED <<opts, pc, result, choiceVars, targetVars, lingering, emptied, worldVars, formVars>>

DropGuard ==
  /\ pc = "unwind" /\ guards # <<>>
  /\ PlainUmount(guards[Len(guards)])
  /\ guards' = SubSeq(guards, 1, Len(guards) - 1)
  /\ UNCHANGED <<opts, pc, result, choiceVars, targetVars, lingering, emptied, worldVars, formVars>>

\* The work directory is deleted with all that is still mounted in it.
RemoveWorkdir ==
  /\ pc = "unwind" /\ guards = <<>>
  /\ emptied' = mounts
  /\ pc' = "over"
  /\ UNCHANGED <<opts, result, choiceVars, targetVars, mounts, guards, lingering, stuck,
                 worldVars, formVars>>

------------------------------------------------------------------------------
\* Others

Running == pc # "over"

\* A desktop mounts what it finds.
OthersMount(d, part) ==
  /\ Running /\ others = {}
  /\ others' = {<<d, part>>}
  /\ UNCHANGED <<opts, pc, result, choiceVars, targetVars, mountVars, source, formVars>>

\* A build replaces an artifact.
ArtifactChanges(a) ==
  /\ Running /\ a \in source
  /\ source' = source \ {a}
  /\ UNCHANGED <<opts, pc, result, choiceVars, targetVars, mountVars, others, formVars>>

Next ==
  \/ VerifyManifest \/ LoadSpec \/ SelectTarget \/ SafetyCheck \/ Gather
  \/ ListSafe \/ PressKey \/ FormEnds \/ Confirm
  \/ ZapDisk \/ NewPartitions \/ Format
  \/ Mount("mountroot", "extract", "root", TRUE)
  \/ Extract \/ CustomizeRoot
  \/ Mount("mountesp", "populate", "esp", TRUE)
  \/ PopulateEsp \/ SyncAll \/ UmountTarget
  \/ Mount("remount", "reread", "verify", FALSE)
  \/ Reread \/ UmountVerify
  \/ DropGuard \/ RemoveWorkdir
  \/ \E d \in Removable, part \in Parts : OthersMount(d, part)
  \/ \E a \in Changing : ArtifactChanges(a)

Spec == Init /\ [][Next]_vars

------------------------------------------------------------------------------
\* Properties

\* A disk loses its partition table only if it is the one chosen, is removable,
\* passed the safety check and has the operator's consent, on the prompts' path
\* as on the form's, and never on a dry run.  If its root size was given in the
\* spec file or the form, the partitions fit on it.  A size typed at the prompt
\* (prompt.rs 67-80) and "the rest of the disk" (0) are left out of that: the
\* code compares neither them nor the ESP with the disk, so the old table may
\* be lost for a plan that sgdisk then refuses (main.rs, install and
\* select_target; detect.rs, safety_check; tui.rs 273-289).
WipedOnlyWithConsent ==
  \A d \in Devices :
    disk[d] # "old" =>
      /\ d = device /\ d \in Removable \cap cleared
      /\ consent # None /\ ~opts.dryRun
      /\ ~plan.typed /\ plan.root # 0 => Fits

\* When install() has returned, a mount point of its own is still in use only
\* if umount(8) could not free it, never because the installer unmounted in
\* the wrong order or forgot one (main.rs, install; mount_.rs, MountGuard).
UnwoundInOrder ==
  pc = "over" => \A m \in mounts : m \in stuck \/ Busy(m)

\* "Install complete" means that the three files with a hash are on the stick as
\* the manifest has them and survived the cleaning up, even if the artifacts
\* changed after their check or the stick stored something else.  Nothing is
\* said of cmdline.txt and of the root, which are not read again, and nothing
\* if the ESP stayed in use while it was unmounted (a lazy umount, or another
\* program had it mounted), for then the page cache may answer, or if the last
\* umount failed, for then the ESP is emptied (verify.rs, verify_post_write).
SuccessIsVerified ==
  pc = "over" /\ result = "ok" /\ ~opts.dryRun
    /\ "esp" \notin lingering /\ "verify" \notin stuck
    => Hashed \subseteq stored /\ emptied = {}

\* The user's name is that of an account the sysroot brings along.
Taken(before, name) ==
  /\ name # Skeleton
  /\ \/ Has(before.passwd, name) \/ Has(before.shadow, name)
     \/ \E i \in 1..Len(before.group) : before.group[i].name = name

\* After customize the user has one line in each account file, its own group,
\* a home and its groups as far as they exist, and nothing is left of the
\* placeholder, whichever parts of it the sysroot had; unless the name was
\* taken (customize.rs, apply).
AccountIsWhole ==
  pc \in {"mountesp", "populate", "sync"} =>
    LET user == plan.name
        lines == {root.group[i] : i \in 1..Len(root.group)}
    IN  (\A before \in Roots : ~Taken(before, user)) =>
          /\ Count(root.passwd, user) = 1 /\ Count(root.shadow, user) = 1
          /\ Cardinality({i \in 1..Len(root.group) : root.group[i].name = user}) = 1
          /\ user \in root.homes
          /\ \A g \in lines : g.name \in Groups \ {user} => user \in g.members
          /\ user # Skeleton =>
               /\ ~Has(root.passwd, Skeleton) /\ ~Has(root.shadow, Skeleton)
               /\ Skeleton \notin root.homes
               /\ \A g \in lines : g.name # Skeleton /\ Skeleton \notin g.members

==============================================================================
