-------------------------------- MODULE Login --------------------------------
(***************************************************************************)
(* writeonce-login on one terminal: the prompt loop (main.rs), the PAM     *)
(* transaction with its destructor (pam.rs), the guard that turns echo off *)
(* for a password (term.rs), and the session process it forks, which is    *)
(* SessionCreate's.  The supervisor starts login again when it ends.       *)
(*                                                                         *)
(* An early return of the loop body drops the PAM session: DropSession is  *)
(* part of every action that leaves the body.  A signal ends the process   *)
(* without running any destructor.                                         *)
(***************************************************************************)
EXTENDS SessionCreate, Sequences

VARIABLES
  loginPc,      \* where login is
  credsEstablished, sessionOpen,   \* the fields of pam::Session
  pamCalls,     \* history: the calls on the last PAM handle, with the result of
                \* those whose failure is told apart
  echo,         \* the terminal's ECHO flag
  savedEcho,    \* EchoGuard.saved
  child,        \* the pid login waits for, or 0
  echoLost      \* history: a signal ended login while it read a password

pamVars   == <<credsEstablished, sessionOpen, pamCalls>>
ttyVars   == <<echo, savedEcho, echoLost>>
loginVars == <<loginPc, pamVars, ttyVars, child>>
vars      == <<logindVars, childVars, loginVars>>

LoginPlaces == {"prompt", "auth", "password", "acct", "cred", "open", "fork", "wait", "exited"}
PamCalls == {"start", "cred", "credFailed", "open", "openFailed", "close", "delete", "end"}

LoginTypeOK ==
  /\ loginPc \in LoginPlaces
  /\ credsEstablished \in BOOLEAN /\ sessionOpen \in BOOLEAN
  /\ pamCalls \in Seq(PamCalls)
  /\ echo \in BOOLEAN /\ savedEcho \in BOOLEAN
  /\ child \in Pids \cup {0}
  /\ echoLost \in BOOLEAN

TypeOK == LogindTypeOK /\ ChildTypeOK /\ LoginTypeOK

Init ==
  /\ LogindInit /\ ChildInit
  /\ loginPc = "prompt"
  /\ credsEstablished = FALSE /\ sessionOpen = FALSE /\ pamCalls = <<>>
  /\ echo = TRUE /\ savedEcho = TRUE
  /\ child = 0
  /\ echoLost = FALSE

------------------------------------------------------------------------------
\* Helpers

Others == <<childVars, logindVars>>

\* impl Drop for Session
DropCalls(isOpen, hasCreds) ==
  (IF isOpen THEN <<"close">> ELSE <<>>) \o (IF hasCreds THEN <<"delete">> ELSE <<>>)
    \o <<"end">>

\* The handle ends after these calls, which leave these flags, and its
\* destructor's.
DropSession(calls, isOpen, hasCreds) ==
  /\ pamCalls' = pamCalls \o calls \o DropCalls(isOpen, hasCreds)
  /\ sessionOpen' = FALSE
  /\ credsEstablished' = FALSE

\* The loop body is left early after these calls: a message and a pause, or an
\* error writing the message that ends the process.
Abandon(calls, isOpen) ==
  /\ DropSession(calls, isOpen, credsEstablished)
  /\ loginPc' \in {"prompt", "exited"}
  /\ UNCHANGED <<ttyVars, child>>

------------------------------------------------------------------------------
\* A user name is read (an empty one asks again) and pam_start is called.
Start ==
  /\ loginPc = "prompt"
  /\ \/ /\ loginPc' = "auth"
        /\ pamCalls' = <<"start">>
     \/ /\ loginPc' = "exited"
        /\ UNCHANGED pamCalls
  /\ UNCHANGED <<credsEstablished, sessionOpen, ttyVars, child, Others>>

\* Mutant: the settings are saved after echo is off.
AskPasswordSavesLate ==
  /\ loginPc = "auth"
  /\ loginPc' = "password"
  /\ savedEcho' = FALSE
  /\ echo' = FALSE
  /\ UNCHANGED <<pamVars, echoLost, child, Others>>

\* PAM calls back for a password: EchoGuard::install ...
AskPassword ==
  /\ loginPc = "auth"
  /\ loginPc' = "password"
  /\ savedEcho' = echo
  /\ echo' = FALSE
  /\ UNCHANGED <<pamVars, echoLost, child, Others>>

\* ... and its drop, whether the line was read or not.
PasswordRead ==
  /\ loginPc = "password"
  /\ loginPc' = "auth"
  /\ echo' = savedEcho
  /\ UNCHANGED <<pamVars, savedEcho, echoLost, child, Others>>

\* A PAM call that leaves no trace on the handle: authenticate, acct_mgmt.
PamCheck(from, to) ==
  /\ loginPc = from
  /\ \/ /\ loginPc' = to
        /\ UNCHANGED <<pamVars, ttyVars, child>>
     \/ Abandon(<<>>, sessionOpen)
  /\ UNCHANGED Others

Authenticate == PamCheck("auth", "acct")
AcctMgmt     == PamCheck("acct", "cred")

\* establish_cred: the flag follows a call that succeeded.
EstablishCred ==
  /\ loginPc = "cred"
  /\ \/ /\ loginPc' = "open"
        /\ credsEstablished' = TRUE
        /\ pamCalls' = Append(pamCalls, "cred")
        /\ UNCHANGED <<sessionOpen, ttyVars, child>>
     \/ Abandon(<<"credFailed">>, sessionOpen)
  /\ UNCHANGED Others

\* open_session: the flag is set before the call and stays when the call fails,
\* so the destructor closes a session that was not opened.
OpenSession ==
  /\ loginPc = "open"
  /\ \/ /\ loginPc' = "fork"
        /\ sessionOpen' = TRUE
        /\ pamCalls' = Append(pamCalls, "open")
        /\ UNCHANGED <<credsEstablished, ttyVars, child>>
     \/ Abandon(<<"openFailed">>, TRUE)
  /\ UNCHANGED Others

Fork ==
  /\ loginPc = "fork"
  /\ \/ \E p \in Pids :
          /\ proc[p].pc = "none"
          /\ proc' = [proc EXCEPT ![p] = [NoProc EXCEPT !.pc = "forked"]]
          /\ child' = p
          /\ loginPc' = "wait"
          /\ UNCHANGED <<pamVars, ttyVars>>
     \/ Abandon(<<>>, sessionOpen) /\ UNCHANGED proc
  /\ UNCHANGED <<runtimeDir, logindVars>>

\* Mutant: close_session and delete_cred return early when their call fails,
\* with their flags still set.
SessionEndedGivesBackTwice ==
  /\ loginPc = "wait"
  /\ proc[child].pc = "zombie"
  /\ proc' = [proc EXCEPT ![child] = NoProc]
  /\ child' = 0
  /\ loginPc' = "prompt"
  /\ \E closed, deleted \in BOOLEAN : DropSession(<<"close", "delete">>, ~closed, ~deleted)
  /\ UNCHANGED <<ttyVars, runtimeDir, logindVars>>

\* waitpid returns; close_session and delete_cred clear their flags whatever
\* their calls return, and the destructor ends the handle.  An error writing
\* the message leaves both to the destructor.
SessionEnded ==
  /\ loginPc = "wait"
  /\ proc[child].pc = "zombie"
  /\ proc' = [proc EXCEPT ![child] = NoProc]
  /\ child' = 0
  /\ \/ /\ DropSession(<<"close", "delete">>, FALSE, FALSE)
        /\ loginPc' = "prompt"
     \/ /\ DropSession(<<>>, sessionOpen, credsEstablished)
        /\ loginPc' = "exited"
  /\ UNCHANGED <<ttyVars, runtimeDir, logindVars>>

\* A signal, ^C at a prompt included: no destructor runs and the session
\* process lives on.  Its PAM handle is never ended.
Killed ==
  /\ loginPc # "exited"
  /\ loginPc' = "exited"
  /\ echoLost' = (echoLost \/ loginPc = "password")
  /\ credsEstablished' = FALSE /\ sessionOpen' = FALSE /\ pamCalls' = <<>>
  /\ child' = 0
  /\ UNCHANGED <<echo, savedEcho, Others>>

\* The supervisor starts login again.
Restart ==
  /\ loginPc = "exited"
  /\ loginPc' = "prompt"
  /\ UNCHANGED <<pamVars, ttyVars, child, Others>>

\* A session process whose login was killed is reaped by PID 1.
ReapOrphan(p) ==
  /\ p # child
  /\ proc[p].pc = "zombie"
  /\ proc' = [proc EXCEPT ![p] = NoProc]
  /\ UNCHANGED <<runtimeDir, logindVars, loginVars>>

LoginStep ==
  \/ Start \/ AskPassword \/ PasswordRead \/ Authenticate \/ AcctMgmt
  \/ EstablishCred \/ OpenSession \/ Fork \/ SessionEnded \/ Restart

Next ==
  \/ LoginStep
  \/ Killed
  \/ \E p \in Pids : ReapOrphan(p)
  \/ ChildNext /\ UNCHANGED loginVars
  \/ LogindNext /\ UNCHANGED <<childVars, loginVars>>

Spec == Init /\ [][Next]_vars

------------------------------------------------------------------------------
\* Properties

\* Whoever got a session from CreateSession leads it, and finds its object on
\* the bus, until somebody releases it; the script it becomes has given up
\* every privilege, owns its runtime directory and still holds the lifecycle
\* descriptor.  True whatever becomes of login, of earlier processes with the
\* same pid and of calls still in flight (session-create main.rs, run).
SessionBelongsToItsProcess ==
  \A p \in Pids : Living(p) /\ (proc[p].sid # 0 \/ proc[p].pc = "shell") =>
    /\ SessionExists(proc[p].sid) => proc[p].sid \in LedBy(p) \cap objects
    /\ proc[p].pc = "shell" =>
         /\ proc[p].dropped = Privileges
         /\ proc[p].fifo = "inherited"
         /\ runtimeDir = "user"

Times(call) == Cardinality({i \in 1..Len(pamCalls) : pamCalls[i] = call})

\* As long as login has a session process, the PAM session it runs in is open
\* and its credentials are in place.  At the prompt, and after an orderly exit,
\* all that the last transaction got has been given back once, the session
\* before the credentials, and the handle was ended once, last, on every path
\* through the loop: the continues, the errors, close_session and delete_cred
\* followed by the destructor.  Nothing is given back that was not got, with
\* one exception that the code makes: an open that failed is closed once as
\* well (pam.rs 241), while credentials that could not be established are not
\* deleted (login main.rs, run; pam.rs, Session and its Drop).
PamBracketed ==
  /\ child # 0 => Times("open") = 1 /\ Times("close") = 0 /\ Times("delete") = 0
  /\ loginPc \in {"prompt", "exited"} /\ pamCalls # <<>> =>
       /\ Times("start") = 1 /\ Times("end") = 1
       /\ Times("close") = Times("open") + Times("openFailed")
       /\ Times("delete") = Times("cred")
       /\ pamCalls[Len(pamCalls)] = "end"
       /\ \A i, j \in 1..Len(pamCalls) :
            pamCalls[i] = "close" /\ pamCalls[j] = "delete" => i < j

\* Echo is off only while a password is read, unless a signal once ended login
\* there; the guard that a failed authentication, a second prompt or a new
\* login installs never keeps it off (term.rs, EchoGuard).
EchoRestored == echo \/ loginPc = "password" \/ echoLost

==============================================================================
