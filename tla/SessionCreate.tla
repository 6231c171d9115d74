---------------------------- MODULE SessionCreate ----------------------------
(***************************************************************************)
(* writeonce-session-create: the process that turns a login into a session *)
(* (main.rs), from the child that writeonce-login forks to the session     *)
(* script it becomes.  It keeps its pid through both execs, calls          *)
(* CreateSession of Logind as root, prepares the runtime directory, gives  *)
(* up its privileges and execs the script.  Any step may fail: the process *)
(* then exits with status 1 and leaves everything it did before.           *)
(***************************************************************************)
EXTENDS Logind

VARIABLES
  proc,       \* per pid: where the process is, its session, what it dropped
  runtimeDir  \* owner of /run/user/<uid>, or "absent"

childVars == <<proc, runtimeDir>>

Privileges == {"groups", "gid", "uid"}

Stages == {"none", "forked", "args", "call", "reply", "cloexec", "rundir",
           "groups", "gid", "uid", "chdir", "shell", "zombie"}

NoCall == "nocall"   \* no method call of this process is in flight

ASSUME SessionCreateAssumption == NoCall \notin Tasks

NoProc == [pc |-> "none", sid |-> 0, fifo |-> "closed", dropped |-> {}, call |-> NoCall]

ChildTypeOK ==
  /\ proc \in [Pids -> [pc : Stages, sid : SessionIds \cup {0},
                        fifo : {"closed", "cloexec", "inherited"},
                        dropped : SUBSET Privileges, call : Tasks \cup {NoCall}]]
  /\ runtimeDir \in {"absent", "root", "user"}

ChildInit ==
  /\ proc = [p \in Pids |-> NoProc]
  /\ runtimeDir = "absent"

Living(p) == proc[p].pc \notin {"none", "zombie"}

\* The process ends; the kernel closes its descriptors.
Died(p) ==
  [proc EXCEPT ![p].pc = "zombie", ![p].fifo = "closed", ![p].call = NoCall]

\* A step that either succeeds or ends the process.
Try(p, from, to) ==
  /\ proc[p].pc = from
  /\ proc' \in {[proc EXCEPT ![p].pc = to], Died(p)}

------------------------------------------------------------------------------
\* child_exec of writeonce-login: the user may be unknown, the helper missing.
ChildExec(p) ==
  /\ Try(p, "forked", "args")
  /\ UNCHANGED <<runtimeDir, logindVars>>

\* parse_args, which may not know or miss an argument.
ParseArgs(p) ==
  /\ Try(p, "args", "call")
  /\ UNCHANGED <<runtimeDir, logindVars>>

\* Connection::system, then the call.
CallCreateSession(p) ==
  /\ proc[p].pc = "call"
  /\ \/ \E t \in Tasks :
          /\ CreateSession(t, p)
          /\ proc' = [proc EXCEPT ![p].pc = "reply", ![p].call = t]
     \/ /\ proc' = Died(p)
        /\ UNCHANGED logindVars
  /\ UNCHANGED runtimeDir

\* The reply is delivered to the process that waits for it, or to nobody when
\* that process is gone.
Reply(t) ==
  /\ task[t].step \in {"created", "refused"}
  /\ LET p == task[t].pid
         taken == [proc EXCEPT ![p].pc = "cloexec", ![p].call = NoCall,
                               ![p].sid = task[t].arg, ![p].fifo = "cloexec"]
     IN  proc' = IF proc[p].call # t THEN proc
                 ELSE IF task[t].step = "created" THEN taken ELSE Died(p)
  /\ Finish(t)
  /\ UNCHANGED <<sessionVars, inhibitorVars, signals, overtaken, runtimeDir>>

\* clear_cloexec
ClearCloexec(p) ==
  /\ proc[p].pc = "cloexec"
  /\ proc' \in {[proc EXCEPT ![p].pc = "rundir", ![p].fifo = "inherited"], Died(p)}
  /\ UNCHANGED <<runtimeDir, logindVars>>

\* mkdir (an existing directory will do), chown, chmod.
SetupRuntimeDir(p) ==
  /\ proc[p].pc = "rundir"
  /\ \/ /\ proc' = [proc EXCEPT ![p].pc = "groups"]
        /\ runtimeDir' = "user"
     \/ /\ proc' = Died(p)
        /\ runtimeDir' \in {runtimeDir, "user"} \cup (IF runtimeDir = "absent" THEN {"root"} ELSE {})
  /\ UNCHANGED logindVars

\* Mutant: the return value is not looked at.
GiveUnchecked(p, from, privilege, to) ==
  /\ proc[p].pc = from
  /\ proc' \in {[proc EXCEPT ![p].pc = to, ![p].dropped = @ \cup d] : d \in {{}, {privilege}}}
  /\ UNCHANGED <<runtimeDir, logindVars>>

\* One of initgroups, setresgid and setresuid; the kernel allows them to root.
Give(p, from, privilege, to) ==
  /\ proc[p].pc = from
  /\ \/ /\ "uid" \notin proc[p].dropped
        /\ proc' = [proc EXCEPT ![p].pc = to, ![p].dropped = @ \cup {privilege}]
     \/ proc' = Died(p)
  /\ UNCHANGED <<runtimeDir, logindVars>>

DropPrivileges(p) ==
  \/ Give(p, "groups", "groups", "gid")
  \/ Give(p, "gid", "gid", "uid")
  \/ Give(p, "uid", "uid", "chdir")

\* chdir and execve of the session script, which closes what is CLOEXEC.
ExecScript(p) ==
  /\ proc[p].pc = "chdir"
  /\ proc' \in {[proc EXCEPT ![p].pc = "shell",
                             ![p].fifo = IF @ = "cloexec" THEN "closed" ELSE @],
                Died(p)}
  /\ UNCHANGED <<runtimeDir, logindVars>>

\* The user logs out, or a signal ends the process at any stage.
ProcessEnds(p) ==
  /\ Living(p)
  /\ proc' = Died(p)
  /\ UNCHANGED <<runtimeDir, logindVars>>

\* Session.Terminate: SIGTERM to whatever process has the leader's pid, if the
\* record is still there.
Terminate(s) ==
  /\ s \in objects /\ SessionExists(s)
  /\ Living(sessions[s].leader)
  /\ proc' = Died(sessions[s].leader)
  /\ UNCHANGED <<runtimeDir, logindVars>>

ChildStep(p) ==
  \/ ChildExec(p)
  \/ ParseArgs(p)
  \/ CallCreateSession(p)
  \/ ClearCloexec(p)
  \/ SetupRuntimeDir(p)
  \/ DropPrivileges(p)
  \/ ExecScript(p)

ChildNext ==
  \/ \E p \in Pids : ChildStep(p) \/ ProcessEnds(p)
  \/ \E t \in Tasks : Reply(t)
  \/ \E s \in SessionIds : Terminate(s)

==============================================================================
