----------------------------- MODULE LoginProofs ------------------------------
(***************************************************************************)
(* For every number of processes, of calls in flight and of sessions, at   *)
(* every interleaving of login, the session processes, logind and signals: *)
(* a session belongs to the process that asked for it, the PAM             *)
(* transaction is complete whenever login is back at its prompt, and echo  *)
(* comes back.                                                             *)
(***************************************************************************)
EXTENDS Login, LogindProofs, FiniteSetTheorems, SequenceTheorems

\* A call in flight is a CreateSession that runs in this process's name.
CallOK(p) ==
  proc[p].call # NoCall =>
    /\ proc[p].pc = "reply"
    /\ task[proc[p].call].step \in Creating
    /\ task[proc[p].call].pid = p

\* The session of a live process was allocated, and is its own for as long as
\* it exists.
OwnOK(p) ==
  Living(p) /\ proc[p].sid # 0 =>
    /\ proc[p].sid < nextSession
    /\ SessionExists(proc[p].sid) =>
         sessions[proc[p].sid].leader = p /\ proc[p].sid \in objects

\* What each stage of session-create has already done.
StageOf(pc, fifo, dropped, dir) ==
  /\ pc \in {"forked", "args", "call", "reply", "cloexec", "rundir", "groups"} => dropped = {}
  /\ pc = "gid" => dropped = {"groups"}
  /\ pc = "uid" => dropped = {"groups", "gid"}
  /\ pc \in {"chdir", "shell"} => dropped = Privileges
  /\ pc \in {"rundir", "groups", "gid", "uid", "chdir", "shell"} => fifo = "inherited"
  /\ pc \in {"groups", "gid", "uid", "chdir", "shell"} => dir = "user"

StageOK(p) == StageOf(proc[p].pc, proc[p].fifo, proc[p].dropped, runtimeDir)

ChildInv == \A p \in Pids : CallOK(p) /\ OwnOK(p) /\ StageOK(p)

\* The complete PAM transactions, one for each way out of the loop body.
Complete == {<<>>,
             <<"start", "end">>,
             <<"start", "credFailed", "end">>,
             <<"start", "cred", "openFailed", "close", "delete", "end">>,
             <<"start", "cred", "open", "close", "delete", "end">>}

\* Where login is decides what it has done with its PAM handle.
PamInv ==
  /\ loginPc \in {"auth", "password", "acct", "cred"} =>
       pamCalls = <<"start">> /\ ~credsEstablished /\ ~sessionOpen
  /\ loginPc = "open" => pamCalls = <<"start", "cred">> /\ credsEstablished /\ ~sessionOpen
  /\ loginPc \in {"fork", "wait"} =>
       pamCalls = <<"start", "cred", "open">> /\ credsEstablished /\ sessionOpen
  /\ loginPc \in {"prompt", "exited"} =>
       pamCalls \in Complete /\ ~credsEstablished /\ ~sessionOpen

\* Login has a child only while it waits for it.
WaitInv == child # 0 => loginPc = "wait"

\* The guard never saves an echo that is off, unless a signal left it so.
EchoInv == EchoRestored /\ (loginPc = "password" => savedEcho \/ echoLost)

\* The inductive invariant.
IInv == LogindInv /\ ChildTypeOK /\ ChildInv /\ LoginTypeOK /\ PamInv /\ WaitInv /\ EchoInv

------------------------------------------------------------------------------
\* The calls on a PAM handle

\* Two sequences make up a third when the third has the elements of both.
LEMMA Joined ==
  ASSUME NEW s \in Seq(PamCalls), NEW t \in Seq(PamCalls), NEW r \in Seq(PamCalls),
         Len(r) = Len(s) + Len(t),
         \A i \in 1..Len(s) : r[i] = s[i],
         \A i \in 1..Len(t) : r[Len(s) + i] = t[i]
  PROVE  s \o t = r
<1>1. s \o t \in Seq(PamCalls) /\ Len(s \o t) = Len(r)
  OBVIOUS
<1>2. ASSUME NEW i \in 1..Len(r)
      PROVE  (s \o t)[i] = r[i]
  <2>1. CASE i <= Len(s)
    BY <2>1
  <2>2. CASE i > Len(s)
    <3>1. i - Len(s) \in 1..Len(t) /\ i = Len(s) + (i - Len(s))
      BY <2>2
    <3>2. r[i] = t[i - Len(s)]
      BY <3>1
    <3>3. QED BY <2>2, <3>2
  <2>3. QED BY <2>1, <2>2
<1>3. QED BY <1>1, <1>2, SeqEqual

\* A list is known by its entries.
LEMMA Pushed ==
  ASSUME NEW s \in Seq(PamCalls), NEW x \in PamCalls, NEW r \in Seq(PamCalls),
         Len(r) = Len(s) + 1, r[Len(s) + 1] = x, \A i \in 1..Len(s) : r[i] = s[i]
  PROVE  Append(s, x) = r
<1>1. Append(s, x) \in Seq(PamCalls) /\ Len(Append(s, x)) = Len(r)
  OBVIOUS
<1>2. \A i \in 1..Len(r) : Append(s, x)[i] = r[i]
  OBVIOUS
<1>3. QED BY <1>1, <1>2, SeqEqual

\* The destructor of pam::Session in the two states it is run in.
LEMMA DropCallsValues ==
  /\ DropCalls(FALSE, FALSE) = <<"end">>
  /\ DropCalls(TRUE, TRUE) = <<"close", "delete", "end">>
<1>1. <<>> \in Seq(PamCalls) /\ <<"end">> \in Seq(PamCalls)
  BY DEF PamCalls
<1>2. <<>> \o <<>> = <<>> /\ <<>> \o <<"end">> = <<"end">>
  BY <1>1, ConcatEmptySeq
<1>3. <<"close">> \o <<"delete">> = <<"close", "delete">>
  <2> SUFFICES ASSUME NEW s, NEW t, NEW r, s = <<"close">>, t = <<"delete">>,
                      r = <<"close", "delete">>
               PROVE  s \o t = r
    OBVIOUS
  <2>1. s \in Seq(PamCalls) /\ t \in Seq(PamCalls) /\ r \in Seq(PamCalls)
    BY DEF PamCalls
  <2>2. Len(r) = Len(s) + Len(t)
    OBVIOUS
  <2>3. \A i \in 1..Len(s) : r[i] = s[i]
    OBVIOUS
  <2>4. \A i \in 1..Len(t) : r[Len(s) + i] = t[i]
    OBVIOUS
  <2>5. QED BY <2>1, <2>2, <2>3, <2>4, Joined DEF PamCalls
<1>4. <<"close", "delete">> \o <<"end">> = <<"close", "delete", "end">>
  <2> SUFFICES ASSUME NEW s, NEW t, NEW r, s = <<"close", "delete">>, t = <<"end">>,
                      r = <<"close", "delete", "end">>
               PROVE  s \o t = r
    OBVIOUS
  <2>1. s \in Seq(PamCalls) /\ t \in Seq(PamCalls) /\ r \in Seq(PamCalls)
    BY DEF PamCalls
  <2>2. Len(r) = Len(s) + Len(t)
    OBVIOUS
  <2>3. \A i \in 1..Len(s) : r[i] = s[i]
    OBVIOUS
  <2>4. \A i \in 1..Len(t) : r[Len(s) + i] = t[i]
    OBVIOUS
  <2>5. QED BY <2>1, <2>2, <2>3, <2>4, Joined DEF PamCalls
<1>5. DropCalls(FALSE, FALSE) = <<"end">>
  BY <1>2, Zenon DEF DropCalls
<1>6. DropCalls(TRUE, TRUE) = <<"close", "delete", "end">>
  BY <1>3, <1>4, Zenon DEF DropCalls
<1>7. QED BY <1>5, <1>6

\* The calls of every way through the loop body.
LEMMA Transactions ==
  /\ Append(<<"start">>, "cred") = <<"start", "cred">>
  /\ Append(<<"start", "cred">>, "open") = <<"start", "cred", "open">>
  /\ <<"start">> \o <<>> \o <<"end">>
       = <<"start", "end">>
  /\ <<"start">> \o <<"credFailed">> \o <<"end">>
       = <<"start", "credFailed", "end">>
  /\ <<"start", "cred">> \o <<"openFailed">> \o <<"close", "delete", "end">>
       = <<"start", "cred", "openFailed", "close", "delete", "end">>
  /\ <<"start", "cred", "open">> \o <<>> \o <<"close", "delete", "end">>
       = <<"start", "cred", "open", "close", "delete", "end">>
  /\ <<"start", "cred", "open">> \o <<"close", "delete">> \o <<"end">>
       = <<"start", "cred", "open", "close", "delete", "end">>
<1>1. <<"start">> \in Seq(PamCalls) /\ <<"start", "cred", "open">> \in Seq(PamCalls)
  BY DEF PamCalls
<1>2. /\ <<"start">> \o <<>> = <<"start">>
      /\ <<"start", "cred", "open">> \o <<>> = <<"start", "cred", "open">>
  BY <1>1, ConcatEmptySeq
<1>3. <<"start">> \o <<"end">>
        = <<"start", "end">>
  <2> SUFFICES ASSUME NEW s, NEW t, NEW r, s = <<"start">>, t = <<"end">>,
                      r = <<"start", "end">>
               PROVE  s \o t = r
    OBVIOUS
  <2>1. s \in Seq(PamCalls) /\ t \in Seq(PamCalls) /\ r \in Seq(PamCalls)
    BY DEF PamCalls
  <2>2. Len(r) = Len(s) + Len(t)
    OBVIOUS
  <2>3. \A i \in 1..Len(s) : r[i] = s[i]
    OBVIOUS
  <2>4. \A i \in 1..Len(t) : r[Len(s) + i] = t[i]
    OBVIOUS
  <2>5. QED BY <2>1, <2>2, <2>3, <2>4, Joined DEF PamCalls
<1>4. <<"start">> \o <<"credFailed">>
        = <<"start", "credFailed">>
  <2> SUFFICES ASSUME NEW s, NEW t, NEW r, s = <<"start">>, t = <<"credFailed">>,
                      r = <<"start", "credFailed">>
               PROVE  s \o t = r
    OBVIOUS
  <2>1. s \in Seq(PamCalls) /\ t \in Seq(PamCalls) /\ r \in Seq(PamCalls)
    BY DEF PamCalls
  <2>2. Len(r) = Len(s) + Len(t)
    OBVIOUS
  <2>3. \A i \in 1..Len(s) : r[i] = s[i]
    OBVIOUS
  <2>4. \A i \in 1..Len(t) : r[Len(s) + i] = t[i]
    OBVIOUS
  <2>5. QED BY <2>1, <2>2, <2>3, <2>4, Joined DEF PamCalls
<1>5. <<"start", "credFailed">> \o <<"end">>
        = <<"start", "credFailed", "end">>
  <2> SUFFICES ASSUME NEW s, NEW t, NEW r, s = <<"start", "credFailed">>, t = <<"end">>,
                      r = <<"start", "credFailed", "end">>
               PROVE  s \o t = r
    OBVIOUS
  <2>1. s \in Seq(PamCalls) /\ t \in Seq(PamCalls) /\ r \in Seq(PamCalls)
    BY DEF PamCalls
  <2>2. Len(r) = Len(s) + Len(t)
    OBVIOUS
  <2>3. \A i \in 1..Len(s) : r[i] = s[i]
    OBVIOUS
  <2>4. \A i \in 1..Len(t) : r[Len(s) + i] = t[i]
    OBVIOUS
  <2>5. QED BY <2>1, <2>2, <2>3, <2>4, Joined DEF PamCalls
<1>6. <<"start", "cred">> \o <<"openFailed">>
        = <<"start", "cred", "openFailed">>
  <2> SUFFICES ASSUME NEW s, NEW t, NEW r, s = <<"start", "cred">>, t = <<"openFailed">>,
                      r = <<"start", "cred", "openFailed">>
               PROVE  s \o t = r
    OBVIOUS
  <2>1. s \in Seq(PamCalls) /\ t \in Seq(PamCalls) /\ r \in Seq(PamCalls)
    BY DEF PamCalls
  <2>2. Len(r) = Len(s) + Len(t)
    OBVIOUS
  <2>3. \A i \in 1..Len(s) : r[i] = s[i]
    OBVIOUS
  <2>4. \A i \in 1..Len(t) : r[Len(s) + i] = t[i]
    OBVIOUS
  <2>5. QED BY <2>1, <2>2, <2>3, <2>4, Joined DEF PamCalls
<1>7. <<"start", "cred", "openFailed">> \o <<"close", "delete", "end">>
        = <<"start", "cred", "openFailed", "close", "delete", "end">>
  <2> SUFFICES ASSUME NEW s, NEW t, NEW r, s = <<"start", "cred", "openFailed">>, t = <<"close", "delete", "end">>,
                      r = <<"start", "cred", "openFailed", "close", "delete", "end">>
               PROVE  s \o t = r
    OBVIOUS
  <2>1. s \in Seq(PamCalls) /\ t \in Seq(PamCalls) /\ r \in Seq(PamCalls)
    BY DEF PamCalls
  <2>2. Len(r) = Len(s) + Len(t)
    OBVIOUS
  <2>3. \A i \in 1..Len(s) : r[i] = s[i]
    OBVIOUS
  <2>4. \A i \in 1..Len(t) : r[Len(s) + i] = t[i]
    OBVIOUS
  <2>5. QED BY <2>1, <2>2, <2>3, <2>4, Joined DEF PamCalls
<1>8. <<"start", "cred", "open">> \o <<"close", "delete", "end">>
        = <<"start", "cred", "open", "close", "delete", "end">>
  <2> SUFFICES ASSUME NEW s, NEW t, NEW r, s = <<"start", "cred", "open">>, t = <<"close", "delete", "end">>,
                      r = <<"start", "cred", "open", "close", "delete", "end">>
               PROVE  s \o t = r
    OBVIOUS
  <2>1. s \in Seq(PamCalls) /\ t \in Seq(PamCalls) /\ r \in Seq(PamCalls)
    BY DEF PamCalls
  <2>2. Len(r) = Len(s) + Len(t)
    OBVIOUS
  <2>3. \A i \in 1..Len(s) : r[i] = s[i]
    OBVIOUS
  <2>4. \A i \in 1..Len(t) : r[Len(s) + i] = t[i]
    OBVIOUS
  <2>5. QED BY <2>1, <2>2, <2>3, <2>4, Joined DEF PamCalls
<1>9. <<"start", "cred", "open">> \o <<"close", "delete">>
        = <<"start", "cred", "open", "close", "delete">>
  <2> SUFFICES ASSUME NEW s, NEW t, NEW r, s = <<"start", "cred", "open">>, t = <<"close", "delete">>,
                      r = <<"start", "cred", "open", "close", "delete">>
               PROVE  s \o t = r
    OBVIOUS
  <2>1. s \in Seq(PamCalls) /\ t \in Seq(PamCalls) /\ r \in Seq(PamCalls)
    BY DEF PamCalls
  <2>2. Len(r) = Len(s) + Len(t)
    OBVIOUS
  <2>3. \A i \in 1..Len(s) : r[i] = s[i]
    OBVIOUS
  <2>4. \A i \in 1..Len(t) : r[Len(s) + i] = t[i]
    OBVIOUS
  <2>5. QED BY <2>1, <2>2, <2>3, <2>4, Joined DEF PamCalls
<1>10. <<"start", "cred", "open", "close", "delete">> \o <<"end">>
        = <<"start", "cred", "open", "close", "delete", "end">>
  <2> SUFFICES ASSUME NEW s, NEW t, NEW r, s = <<"start", "cred", "open", "close", "delete">>, t = <<"end">>,
                      r = <<"start", "cred", "open", "close", "delete", "end">>
               PROVE  s \o t = r
    OBVIOUS
  <2>1. s \in Seq(PamCalls) /\ t \in Seq(PamCalls) /\ r \in Seq(PamCalls)
    BY DEF PamCalls
  <2>2. Len(r) = Len(s) + Len(t)
    OBVIOUS
  <2>3. \A i \in 1..Len(s) : r[i] = s[i]
    OBVIOUS
  <2>4. \A i \in 1..Len(t) : r[Len(s) + i] = t[i]
    OBVIOUS
  <2>5. QED BY <2>1, <2>2, <2>3, <2>4, Joined DEF PamCalls
<1>11. Append(<<"start">>, "cred") = <<"start", "cred">>
  <2> SUFFICES ASSUME NEW s, NEW r, s = <<"start">>, r = <<"start", "cred">>
               PROVE  Append(s, "cred") = r
    OBVIOUS
  <2>1. s \in Seq(PamCalls) /\ r \in Seq(PamCalls) /\ "cred" \in PamCalls
    BY DEF PamCalls
  <2>2. Len(r) = Len(s) + 1 /\ r[Len(s) + 1] = "cred" /\ \A i \in 1..Len(s) : r[i] = s[i]
    OBVIOUS
  <2>3. QED BY <2>1, <2>2, Pushed DEF PamCalls
<1>12. Append(<<"start", "cred">>, "open") = <<"start", "cred", "open">>
  <2> SUFFICES ASSUME NEW s, NEW r, s = <<"start", "cred">>, r = <<"start", "cred", "open">>
               PROVE  Append(s, "open") = r
    OBVIOUS
  <2>1. s \in Seq(PamCalls) /\ r \in Seq(PamCalls) /\ "open" \in PamCalls
    BY DEF PamCalls
  <2>2. Len(r) = Len(s) + 1 /\ r[Len(s) + 1] = "open" /\ \A i \in 1..Len(s) : r[i] = s[i]
    OBVIOUS
  <2>3. QED BY <2>1, <2>2, Pushed DEF PamCalls
<1>13. <<"start">> \o <<>> \o <<"end">>
        = <<"start", "end">>
  BY <1>2, <1>3, Zenon
<1>14. <<"start">> \o <<"credFailed">> \o <<"end">>
        = <<"start", "credFailed", "end">>
  BY <1>4, <1>5, Zenon
<1>15. <<"start", "cred">> \o <<"openFailed">> \o <<"close", "delete", "end">>
        = <<"start", "cred", "openFailed", "close", "delete", "end">>
  BY <1>6, <1>7, Zenon
<1>16. <<"start", "cred", "open">> \o <<>> \o <<"close", "delete", "end">>
        = <<"start", "cred", "open", "close", "delete", "end">>
  BY <1>2, <1>8, Zenon
<1>17. <<"start", "cred", "open">> \o <<"close", "delete">> \o <<"end">>
        = <<"start", "cred", "open", "close", "delete", "end">>
  BY <1>9, <1>10, Zenon
<1>18. QED BY <1>11, <1>12, <1>13, <1>14, <1>15, <1>16, <1>17, Zenon

------------------------------------------------------------------------------
\* Login itself

\* The history of PAM calls is one of those the places allow.
LEMMA PamType ==
  ASSUME loginPc \in LoginPlaces, PamInv
  PROVE  pamCalls \in Seq(PamCalls)
<1>1. /\ <<>> \in Seq(PamCalls) /\ <<"start">> \in Seq(PamCalls)
      /\ <<"start", "cred">> \in Seq(PamCalls) /\ <<"start", "cred", "open">> \in Seq(PamCalls)
      /\ <<"start", "end">> \in Seq(PamCalls)
      /\ <<"start", "credFailed", "end">> \in Seq(PamCalls)
      /\ <<"start", "cred", "openFailed", "close", "delete", "end">> \in Seq(PamCalls)
      /\ <<"start", "cred", "open", "close", "delete", "end">> \in Seq(PamCalls)
  BY DEF PamCalls
<1>2. \/ pamCalls = <<"start">> \/ pamCalls = <<"start", "cred">>
      \/ pamCalls = <<"start", "cred", "open">> \/ pamCalls \in Complete
  BY DEF PamInv, LoginPlaces
<1>3. QED BY <1>1, <1>2, Zenon DEF Complete

\* Every early return leaves a complete transaction.
LEMMA AbandonPam ==
  ASSUME PamInv, loginPc \in {"auth", "acct", "cred", "fork"}, Abandon(<<>>, sessionOpen)
  PROVE  /\ loginPc' \in {"prompt", "exited"}
         /\ pamCalls' \in Complete /\ ~credsEstablished' /\ ~sessionOpen'
<1>1. /\ loginPc' \in {"prompt", "exited"} /\ ~credsEstablished' /\ ~sessionOpen'
      /\ pamCalls' = pamCalls \o <<>> \o DropCalls(sessionOpen, credsEstablished)
  BY DEF Abandon, DropSession
<1>2. CASE loginPc = "fork"
  <2>1. pamCalls = <<"start", "cred", "open">> /\ sessionOpen = TRUE /\ credsEstablished = TRUE
    BY <1>2 DEF PamInv
  <2>2. pamCalls' = <<"start", "cred", "open", "close", "delete", "end">>
    BY <1>1, <2>1, Transactions, DropCallsValues, Zenon
  <2>3. QED BY <1>1, <2>2, Zenon DEF Complete
<1>3. CASE loginPc # "fork"
  <2>1. pamCalls = <<"start">> /\ sessionOpen = FALSE /\ credsEstablished = FALSE
    BY <1>3 DEF PamInv
  <2>2. pamCalls' = <<"start", "end">>
    BY <1>1, <2>1, Transactions, DropCallsValues, Zenon
  <2>3. QED BY <1>1, <2>2, Zenon DEF Complete
<1>4. QED BY <1>2, <1>3

\* The PAM transaction through every step of login.
LEMMA PamStep ==
  ASSUME LoginTypeOK, PamInv, LoginStep \/ Killed
  PROVE  PamInv' /\ loginPc' \in LoginPlaces
<1> DEFINE Done == /\ loginPc' \in {"prompt", "exited"}
                   /\ pamCalls' \in Complete /\ ~credsEstablished' /\ ~sessionOpen'
<1>1. Done => PamInv' /\ loginPc' \in LoginPlaces
  BY DEF PamInv, LoginPlaces
<1>2. CASE Start
  <2>1. CASE loginPc' = "auth" /\ pamCalls' = <<"start">>
    BY <1>2, <2>1, Zenon DEF Start, PamInv, LoginPlaces
  <2>2. CASE loginPc' = "exited" /\ pamCalls' = pamCalls
    BY <1>1, <1>2, <2>2, Zenon DEF Start, PamInv
  <2>3. QED BY <1>2, <2>1, <2>2 DEF Start
<1>3. CASE AskPassword
  BY <1>3, Zenon DEF AskPassword, PamInv, pamVars, LoginPlaces
<1>4. CASE PasswordRead
  BY <1>4, Zenon DEF PasswordRead, PamInv, pamVars, LoginPlaces
<1>5. CASE Authenticate
  <2>1. CASE Abandon(<<>>, sessionOpen)
    BY <1>1, <1>5, <2>1, AbandonPam DEF Authenticate, PamCheck
  <2>2. CASE ~Abandon(<<>>, sessionOpen)
    <3>1. loginPc = "auth" /\ loginPc' = "acct" /\ UNCHANGED pamVars
      BY <1>5, <2>2 DEF Authenticate, PamCheck
    <3>2. QED BY <3>1, Zenon DEF PamInv, pamVars, LoginPlaces
  <2>3. QED BY <2>1, <2>2
<1>6. CASE AcctMgmt
  <2>1. CASE Abandon(<<>>, sessionOpen)
    BY <1>1, <1>6, <2>1, AbandonPam DEF AcctMgmt, PamCheck
  <2>2. CASE ~Abandon(<<>>, sessionOpen)
    <3>1. loginPc = "acct" /\ loginPc' = "cred" /\ UNCHANGED pamVars
      BY <1>6, <2>2 DEF AcctMgmt, PamCheck
    <3>2. QED BY <3>1, Zenon DEF PamInv, pamVars, LoginPlaces
  <2>3. QED BY <2>1, <2>2
<1>7. CASE EstablishCred
  <2>1. loginPc = "cred" /\ pamCalls = <<"start">> /\ credsEstablished = FALSE
          /\ sessionOpen = FALSE
    BY <1>7 DEF EstablishCred, PamInv
  <2>2. CASE loginPc' # "open"
    <3>1. /\ loginPc' \in {"prompt", "exited"} /\ ~credsEstablished' /\ ~sessionOpen'
          /\ pamCalls' = pamCalls \o <<"credFailed">> \o DropCalls(sessionOpen, credsEstablished)
      BY <1>7, <2>2 DEF EstablishCred, Abandon, DropSession
    <3>2. pamCalls' = <<"start", "credFailed", "end">>
      BY <2>1, <3>1, Transactions, DropCallsValues, Zenon
    <3>3. Done
      BY <3>1, <3>2, Zenon DEF Complete
    <3>4. QED BY <1>1, <3>3
  <2>3. CASE loginPc' = "open"
    <3>1. /\ credsEstablished' = TRUE
          /\ pamCalls' = Append(pamCalls, "cred") /\ sessionOpen' = sessionOpen
      BY <1>7, <2>3 DEF EstablishCred, Abandon
    <3>2. pamCalls' = <<"start", "cred">> /\ ~sessionOpen'
      BY <2>1, <3>1, Transactions, Zenon
    <3>3. QED BY <2>3, <3>1, <3>2, Zenon DEF PamInv, LoginPlaces
  <2>4. QED BY <2>2, <2>3
<1>8. CASE OpenSession
  <2>1. loginPc = "open" /\ pamCalls = <<"start", "cred">> /\ credsEstablished = TRUE
    BY <1>8 DEF OpenSession, PamInv
  <2>2. CASE loginPc' = "fork"
    <3>1. /\ sessionOpen' = TRUE /\ pamCalls' = Append(pamCalls, "open")
          /\ credsEstablished' = credsEstablished
      BY <1>8, <2>2 DEF OpenSession, Abandon
    <3>2. pamCalls' = <<"start", "cred", "open">>
      BY <2>1, <3>1, Transactions, Zenon
    <3>3. QED BY <2>1, <2>2, <3>1, <3>2, Zenon DEF PamInv, LoginPlaces
  <2>3. CASE loginPc' # "fork"
    <3>1. /\ loginPc' \in {"prompt", "exited"} /\ ~credsEstablished' /\ ~sessionOpen'
          /\ pamCalls' = pamCalls \o <<"openFailed">> \o DropCalls(TRUE, credsEstablished)
      BY <1>8, <2>3 DEF OpenSession, Abandon, DropSession
    <3>2. pamCalls' = <<"start", "cred", "openFailed", "close", "delete", "end">>
      BY <2>1, <3>1, Transactions, DropCallsValues, Zenon
    <3>3. Done
      BY <3>1, <3>2, Zenon DEF Complete
    <3>4. QED BY <1>1, <3>3
  <2>4. QED BY <2>2, <2>3
<1>9. CASE Fork
  <2>1. CASE Abandon(<<>>, sessionOpen)
    BY <1>1, <1>9, <2>1, AbandonPam DEF Fork
  <2>2. CASE ~Abandon(<<>>, sessionOpen)
    BY <1>9, <2>2, Zenon DEF Fork, PamInv, pamVars, LoginPlaces
  <2>3. QED BY <2>1, <2>2
<1>10. CASE SessionEnded
  <2>1. /\ pamCalls = <<"start", "cred", "open">>
        /\ credsEstablished = TRUE /\ sessionOpen = TRUE
    BY <1>10 DEF SessionEnded, PamInv
  <2>2. /\ loginPc' \in {"prompt", "exited"} /\ ~credsEstablished' /\ ~sessionOpen'
        /\ \/ pamCalls' = pamCalls \o <<"close", "delete">> \o DropCalls(FALSE, FALSE)
           \/ pamCalls' = pamCalls \o <<>> \o DropCalls(sessionOpen, credsEstablished)
    BY <1>10 DEF SessionEnded, DropSession
  <2>3. pamCalls' = <<"start", "cred", "open", "close", "delete", "end">>
    BY <2>1, <2>2, Transactions, DropCallsValues, Zenon
  <2>4. Done
    BY <2>2, <2>3, Zenon DEF Complete
  <2>5. QED BY <1>1, <2>4
<1>11. CASE Restart
  BY <1>11, Zenon DEF Restart, PamInv, pamVars, LoginPlaces
<1>12. CASE Killed
  BY <1>1, <1>12, Zenon DEF Killed, Complete
<1>13. QED
  BY <1>2, <1>3, <1>4, <1>5, <1>6, <1>7, <1>8, <1>9, <1>10, <1>11, <1>12 DEF LoginStep

\* The terminal through every step of login.
LEMMA EchoStep ==
  ASSUME LoginTypeOK, EchoInv, LoginStep \/ Killed
  PROVE  EchoInv' /\ echo' \in BOOLEAN /\ savedEcho' \in BOOLEAN /\ echoLost' \in BOOLEAN
<1>1. ASSUME UNCHANGED ttyVars, loginPc # "password", loginPc' # "password"
      PROVE  EchoInv' /\ echo' \in BOOLEAN /\ savedEcho' \in BOOLEAN /\ echoLost' \in BOOLEAN
  BY <1>1, Zenon DEF EchoInv, EchoRestored, ttyVars, LoginTypeOK
<1>2. CASE AskPassword
  BY <1>2, Zenon DEF AskPassword, EchoInv, EchoRestored, LoginTypeOK
<1>3. CASE PasswordRead
  BY <1>3, Zenon DEF PasswordRead, EchoInv, EchoRestored, LoginTypeOK
<1>4. CASE Killed
  BY <1>4, Zenon DEF Killed, EchoInv, EchoRestored, LoginTypeOK
<1>5. CASE Start \/ Authenticate \/ AcctMgmt \/ EstablishCred \/ OpenSession
  BY <1>1, <1>5 DEF Start, Authenticate, AcctMgmt, PamCheck, EstablishCred, OpenSession, Abandon
<1>6. CASE Fork \/ SessionEnded \/ Restart
  BY <1>1, <1>6 DEF Fork, SessionEnded, Restart, Abandon
<1>7. QED BY <1>2, <1>3, <1>4, <1>5, <1>6 DEF LoginStep

\* The flags of the PAM handle are Booleans.
LEMMA FlagsStep ==
  ASSUME LoginTypeOK, LoginStep \/ Killed
  PROVE  credsEstablished' \in BOOLEAN /\ sessionOpen' \in BOOLEAN
<1>1. credsEstablished \in BOOLEAN /\ sessionOpen \in BOOLEAN
  BY DEF LoginTypeOK
<1>2. CASE UNCHANGED <<credsEstablished, sessionOpen>>
  BY <1>1, <1>2
<1>3. CASE credsEstablished' = FALSE /\ sessionOpen' = FALSE
  BY <1>3
<1>4. CASE Start \/ AskPassword \/ PasswordRead \/ Restart
  BY <1>2, <1>4 DEF Start, AskPassword, PasswordRead, Restart, pamVars
<1>5. CASE Authenticate \/ AcctMgmt \/ Fork
  BY <1>2, <1>3, <1>5 DEF Authenticate, AcctMgmt, PamCheck, Fork, Abandon, DropSession, pamVars
<1>6. CASE EstablishCred
  BY <1>1, <1>6, Zenon DEF EstablishCred, Abandon, DropSession
<1>7. CASE OpenSession
  BY <1>1, <1>7, Zenon DEF OpenSession, Abandon, DropSession
<1>8. CASE SessionEnded \/ Killed
  BY <1>3, <1>8 DEF SessionEnded, DropSession, Killed
<1>9. QED BY <1>4, <1>5, <1>6, <1>7, <1>8 DEF LoginStep

\* The child is a pid, or none, and none but while login waits.
LEMMA ChildPidStep ==
  ASSUME LoginTypeOK, WaitInv, LoginStep \/ Killed
  PROVE  child' \in Pids \cup {0} /\ WaitInv'
<1>1. child \in Pids \cup {0}
  BY DEF LoginTypeOK
<1>2. CASE Start \/ AskPassword \/ PasswordRead \/ Authenticate \/ AcctMgmt \/ EstablishCred
  BY <1>1, <1>2 DEF Start, AskPassword, PasswordRead, Authenticate, AcctMgmt, PamCheck,
     EstablishCred, Abandon, WaitInv
<1>3. CASE OpenSession \/ Fork \/ SessionEnded \/ Restart \/ Killed
  BY <1>1, <1>3 DEF OpenSession, Fork, SessionEnded, Restart, Killed, Abandon, WaitInv
<1>4. QED BY <1>2, <1>3 DEF LoginStep

------------------------------------------------------------------------------
\* What logind's steps mean for the processes

\* A session that was allocated keeps its leader, and its object, for as long
\* as its record exists.
KeepsSessions ==
  \A s \in SessionIds : s < nextSession =>
    /\ s < nextSession'
    /\ SessionExists(s)' => /\ SessionExists(s)
                            /\ sessions'[s].leader = sessions[s].leader
                            /\ s \in objects => s \in objects'

\* A call that somebody waits for goes on in its caller's name.
KeepsCall(p) ==
  proc[p].call # NoCall => /\ task'[proc[p].call].step \in Creating
                           /\ task'[proc[p].call].pid = p

\* What leaves the records alone loses no session.
LEMMA SameKeepsSessions ==
  ASSUME UNCHANGED <<sessions, nextSession>>,
         \A s \in objects : SessionExists(s) => s \in objects'
  PROVE  KeepsSessions
<1>1. \A s : SessionExists(s)' <=> SessionExists(s)
  BY DEF SessionExists
<1>2. QED BY <1>1 DEF KeepsSessions

\* No id comes back, and a session that stays keeps its leader and its object.
LEMMA LogindKeepsSessions ==
  ASSUME LogindInv, LogindNext
  PROVE  KeepsSessions
<1>1. LogindTypeOK /\ CallsInv /\ RecordInv
  BY DEF LogindInv, SessionInv
<1>2. CASE Watch
  BY <1>2, SameKeepsSessions DEF Watch, DrainPending, AddToEpoll, EpollWait, HandleEvent, sessionVars
<1>3. ASSUME NEW t \in Tasks,
             ServeSession(t) \/ AnnounceSession(t) \/ AnnounceRemoved(t) \/ RegisterPush(t)
               \/ RegisterWake(t)
      PROVE  KeepsSessions
  <2>1. UNCHANGED <<sessions, nextSession>> /\ objects \subseteq objects'
    BY <1>3 DEF ServeSession, AnnounceSession, AnnounceRemoved, RegisterPush, RegisterWake, sessionVars
  <2>2. QED BY <2>1, SameKeepsSessions
<1>4. ASSUME NEW t \in Tasks, UnserveSession(t)
      PROVE  KeepsSessions
  <2>1. UNCHANGED <<sessions, nextSession>> /\ objects' = objects \ {task[t].arg}
    BY <1>4 DEF UnserveSession
  <2>2. ~SessionExists(task[t].arg)
    BY <1>1, <1>4 DEF UnserveSession, CallsInv, ReleasingOK, Releasing
  <2>3. QED BY <2>1, <2>2, SameKeepsSessions
<1>5. ASSUME NEW t \in Tasks, NEW a \in SessionIds, ReleaseSession(t, a)
      PROVE  KeepsSessions
  <2>1. sessions'[a] = NoSession /\ \A s \in SessionIds : s # a => sessions'[s] = sessions[s]
    BY <1>1, <1>5 DEF ReleaseSession, LogindTypeOK
  <2>2. nextSession' = nextSession /\ objects' = objects
    BY <1>5 DEF ReleaseSession
  <2>3. QED BY <2>1, <2>2 DEF KeepsSessions, SessionExists
<1>6. ASSUME NEW a \in SessionIds, NEW idle \in Hints, SetIdleHint(a, idle)
      PROVE  KeepsSessions
  <2>1. /\ sessions'[a].leader = sessions[a].leader /\ SessionExists(a)
        /\ \A s \in SessionIds : s # a => sessions'[s] = sessions[s]
    BY <1>1, <1>6 DEF SetIdleHint, LogindTypeOK
  <2>2. nextSession' = nextSession /\ objects' = objects
    BY <1>6 DEF SetIdleHint
  <2>3. QED BY <2>1, <2>2 DEF KeepsSessions, SessionExists
<1>7. ASSUME NEW t \in Tasks, NEW mode \in Modes, Inhibit(t, mode)
      PROVE  KeepsSessions
  BY <1>7, SameKeepsSessions DEF Inhibit, sessionVars
<1>8. ASSUME NEW i \in InhibitorIds, CloseHandle(i)
      PROVE  KeepsSessions
  BY <1>8, SameKeepsSessions DEF CloseHandle, sessionVars
<1>9. QED BY <1>2, <1>3, <1>4, <1>5, <1>6, <1>7, <1>8 DEF LogindNext, Resume, ClientCall

\* No step of logind takes a CreateSession away from its caller.
LEMMA LogindKeepsCalls ==
  ASSUME LogindInv, LogindNext, NEW u \in Tasks, task[u].step \in Creating
  PROVE  task'[u].step \in Creating /\ task'[u].pid = task[u].pid
<1>1. LogindTypeOK
  BY DEF LogindInv
<1>2. task'[u] = task[u] => task'[u].step \in Creating /\ task'[u].pid = task[u].pid
  OBVIOUS
<1>3. task[u] # Idle
  BY DEF Idle, Creating
<1>4. CASE Watch
  BY <1>2, <1>4 DEF Watch, DrainPending, AddToEpoll, EpollWait, HandleEvent
<1>5. ASSUME NEW t \in Tasks, ServeSession(t) \/ AnnounceSession(t)
      PROVE  task'[u].step \in Creating /\ task'[u].pid = task[u].pid
  <2>1. PICK x \in {"announce", "created", "refused"} : Goto(t, x)
    BY <1>5 DEF ServeSession, AnnounceSession
  <2>2. x \in Steps /\ x \in Creating
    BY DEF Steps, Creating
  <2>3. task'[t].step = x /\ task'[t].pid = task[t].pid
        /\ \A v \in Tasks : v # t => task'[v] = task[v]
    BY <1>1, <2>1, <2>2, GotoTask
  <2>4. QED BY <1>2, <2>2, <2>3
<1>6. ASSUME NEW t \in Tasks,
             UnserveSession(t) \/ AnnounceRemoved(t) \/ RegisterPush(t) \/ RegisterWake(t)
      PROVE  task'[u].step \in Creating /\ task'[u].pid = task[u].pid
  <2>1. u # t
    BY <1>6 DEF UnserveSession, AnnounceRemoved, RegisterPush, RegisterWake, Creating
  <2>2. \E x : Goto(t, x) \/ Finish(t)
    BY <1>6 DEF UnserveSession, AnnounceRemoved, RegisterPush, RegisterWake
  <2>3. task'[u] = task[u]
    BY <1>1, <2>1, <2>2 DEF Goto, Finish, LogindTypeOK
  <2>4. QED BY <1>2, <2>3
<1>7. ASSUME NEW t \in Tasks, NEW a \in SessionIds, ReleaseSession(t, a)
      PROVE  task'[u].step \in Creating /\ task'[u].pid = task[u].pid
  <2>1. u # t /\ task'[u] = task[u]
    BY <1>1, <1>3, <1>7 DEF ReleaseSession, LogindTypeOK
  <2>2. QED BY <1>2, <2>1
<1>8. ASSUME NEW t \in Tasks, NEW mode \in Modes, Inhibit(t, mode)
      PROVE  task'[u].step \in Creating /\ task'[u].pid = task[u].pid
  <2>1. u # t /\ task'[u] = task[u]
    BY <1>1, <1>3, <1>8 DEF Inhibit, LogindTypeOK
  <2>2. QED BY <1>2, <2>1
<1>9. QED
  BY <1>2, <1>4, <1>5, <1>6, <1>7, <1>8 DEF LogindNext, Resume, ClientCall, SetIdleHint, CloseHandle

------------------------------------------------------------------------------
\* The session processes

ProcRec == [pc : Stages, sid : SessionIds \cup {0},
            fifo : {"closed", "cloexec", "inherited"},
            dropped : SUBSET Privileges, call : Tasks \cup {NoCall}]

\* One process takes a step.
LEMMA ProcType ==
  ASSUME ChildTypeOK, NEW p \in Pids, NEW r \in ProcRec,
         proc' = [proc EXCEPT ![p] = r], runtimeDir' \in {"absent", "root", "user"}
  PROVE  ChildTypeOK' /\ proc'[p] = r /\ \A q \in Pids : q # p => proc'[q] = proc[q]
<1>1. proc \in [Pids -> ProcRec]
  BY DEF ChildTypeOK, ProcRec
<1>2. proc' \in [Pids -> ProcRec] /\ proc'[p] = r /\ \A q \in Pids : q # p => proc'[q] = proc[q]
  BY <1>1
<1>3. QED BY <1>2, Zenon DEF ChildTypeOK, ProcRec

\* A process that does not move keeps what it knows.
LEMMA ProcFrame ==
  ASSUME ChildTypeOK, NEW p \in Pids, CallOK(p), OwnOK(p), StageOK(p), proc'[p] = proc[p],
         KeepsSessions, KeepsCall(p), runtimeDir = "user" => runtimeDir' = "user"
  PROVE  CallOK(p)' /\ OwnOK(p)' /\ StageOK(p)'
<1>1. CallOK(p)'
  BY DEF CallOK, KeepsCall
<1>2. OwnOK(p)'
  <2>1. proc[p].sid # 0 => proc[p].sid \in SessionIds
    BY DEF ChildTypeOK
  <2>2. QED BY <2>1 DEF OwnOK, Living, KeepsSessions
<1>3. StageOK(p)'
  BY DEF StageOK, StageOf
<1>4. QED BY <1>1, <1>2, <1>3

\* One process moves and the others stay.
LEMMA OneProc ==
  ASSUME ChildTypeOK, ChildInv, NEW p \in Pids,
         \A q \in Pids : q # p => proc'[q] = proc[q] /\ KeepsCall(q),
         KeepsSessions, runtimeDir = "user" => runtimeDir' = "user",
         CallOK(p)', OwnOK(p)', StageOK(p)'
  PROVE  ChildInv'
<1>1. ASSUME NEW q \in Pids, q # p
      PROVE  CallOK(q)' /\ OwnOK(q)' /\ StageOK(q)'
  BY <1>1, ProcFrame DEF ChildInv
<1>2. QED BY <1>1 DEF ChildInv

\* Nobody's call ends with a step that leaves logind alone.
LEMMA QuietLogind ==
  ASSUME ChildInv, UNCHANGED logindVars
  PROVE  KeepsSessions /\ \A q \in Pids : KeepsCall(q)
<1>1. sessions' = sessions /\ nextSession' = nextSession /\ objects' = objects /\ task' = task
  BY DEF logindVars, sessionVars
<1>2. QED BY <1>1, SameKeepsSessions DEF KeepsCall, ChildInv, CallOK

\* A process that ends owes nothing.
LEMMA DiedInv ==
  ASSUME ChildTypeOK, ChildInv, NEW p \in Pids, proc' = Died(p),
         KeepsSessions, \A q \in Pids : q # p => KeepsCall(q),
         runtimeDir = "user" => runtimeDir' = "user", runtimeDir' \in {"absent", "root", "user"}
  PROVE  ChildTypeOK' /\ ChildInv'
<1> DEFINE r == [proc[p] EXCEPT !.pc = "zombie", !.fifo = "closed", !.call = NoCall]
<1>1. proc' = [proc EXCEPT ![p] = r]
  BY DEF Died, ChildTypeOK
<1>2. r \in ProcRec /\ r.pc = "zombie" /\ r.call = NoCall
  <2>1. "zombie" \in Stages /\ proc[p] \in ProcRec
    BY DEF Stages, ChildTypeOK, ProcRec
  <2>2. QED BY <2>1 DEF ProcRec
<1> HIDE DEF r
<1>3. ChildTypeOK' /\ proc'[p] = r /\ \A q \in Pids : q # p => proc'[q] = proc[q]
  BY <1>1, <1>2, ProcType
<1>4. CallOK(p)' /\ OwnOK(p)' /\ StageOK(p)'
  BY <1>2, <1>3 DEF CallOK, OwnOK, StageOK, StageOf, Living
<1>5. QED BY <1>3, <1>4, OneProc

\* A process moves on to a stage whose work is done.
LEMMA AdvanceInv ==
  ASSUME ChildTypeOK, ChildInv, NEW p \in Pids, Living(p), proc[p].pc # "reply",
         NEW r \in ProcRec, proc' = [proc EXCEPT ![p] = r],
         r.sid = proc[p].sid, r.call = proc[p].call,
         StageOf(r.pc, r.fifo, r.dropped, runtimeDir'),
         runtimeDir = "user" => runtimeDir' = "user", runtimeDir' \in {"absent", "root", "user"},
         UNCHANGED logindVars
  PROVE  ChildTypeOK' /\ ChildInv'
<1>1. ChildTypeOK' /\ proc'[p] = r /\ \A q \in Pids : q # p => proc'[q] = proc[q]
  BY ProcType
<1>2. KeepsSessions /\ \A q \in Pids : KeepsCall(q)
  BY QuietLogind
<1>3. CallOK(p) /\ OwnOK(p)
  BY DEF ChildInv
<1>4. CallOK(p)'
  BY <1>1, <1>3 DEF CallOK
<1>5. OwnOK(p)'
  <2>1. proc[p].sid # 0 => proc[p].sid \in SessionIds
    BY DEF ChildTypeOK
  <2>2. QED BY <1>1, <1>2, <1>3, <2>1 DEF OwnOK, KeepsSessions
<1>6. StageOK(p)'
  BY <1>1 DEF StageOK
<1>7. QED BY <1>1, <1>2, <1>4, <1>5, <1>6, OneProc

\* The death of a process in a step that leaves logind alone.
LEMMA QuietDeath ==
  ASSUME ChildTypeOK, ChildInv, NEW p \in Pids, proc' = Died(p), UNCHANGED logindVars,
         runtimeDir = "user" => runtimeDir' = "user", runtimeDir' \in {"absent", "root", "user"}
  PROVE  ChildTypeOK' /\ ChildInv'
  BY QuietLogind, DiedInv

\* The stages before the call, and the ones after the reply.
LEMMA StagesInv ==
  ASSUME ChildTypeOK, ChildInv, NEW p \in Pids,
         ChildExec(p) \/ ParseArgs(p) \/ ClearCloexec(p) \/ SetupRuntimeDir(p)
           \/ DropPrivileges(p) \/ ExecScript(p)
  PROVE  ChildTypeOK' /\ ChildInv'
<1>1. UNCHANGED logindVars
  BY DEF ChildExec, ParseArgs, ClearCloexec, SetupRuntimeDir, DropPrivileges, Give, ExecScript
<1>2. /\ runtimeDir = "user" => runtimeDir' = "user"
      /\ runtimeDir' \in {"absent", "root", "user"}
  BY DEF ChildTypeOK, ChildExec, ParseArgs, ClearCloexec, SetupRuntimeDir, DropPrivileges, Give,
     ExecScript
<1>3. proc[p] \in ProcRec /\ StageOf(proc[p].pc, proc[p].fifo, proc[p].dropped, runtimeDir)
  BY DEF ChildTypeOK, ProcRec, ChildInv, StageOK
<1>4. CASE proc' = Died(p)
  BY <1>1, <1>2, <1>4, QuietDeath
<1>5. ASSUME NEW to \in {"args", "call"}, proc[p].pc \in {"forked", "args"},
             proc' = [proc EXCEPT ![p].pc = to]
      PROVE  ChildTypeOK' /\ ChildInv'
  <2> DEFINE r == [proc[p] EXCEPT !.pc = to]
  <2>1. proc' = [proc EXCEPT ![p] = r]
    BY <1>5 DEF ChildTypeOK
  <2>2. r \in ProcRec /\ r.pc = to /\ r.sid = proc[p].sid /\ r.call = proc[p].call
        /\ r.dropped = proc[p].dropped
    BY <1>3, <1>5 DEF ProcRec, Stages
  <2> HIDE DEF r
  <2>3. StageOf(r.pc, r.fifo, r.dropped, runtimeDir')
    BY <1>3, <1>5, <2>2 DEF StageOf
  <2>4. QED BY <1>1, <1>2, <1>5, <2>1, <2>2, <2>3, AdvanceInv DEF Living
<1>6. ASSUME ClearCloexec(p), proc' # Died(p)
      PROVE  ChildTypeOK' /\ ChildInv'
  <2> DEFINE r == [proc[p] EXCEPT !.pc = "rundir", !.fifo = "inherited"]
  <2>1. proc' = [proc EXCEPT ![p] = r] /\ proc[p].pc = "cloexec"
    BY <1>6 DEF ClearCloexec, ChildTypeOK
  <2>2. r \in ProcRec /\ r.pc = "rundir" /\ r.sid = proc[p].sid /\ r.call = proc[p].call
        /\ r.dropped = proc[p].dropped /\ r.fifo = "inherited"
    BY <1>3 DEF ProcRec, Stages
  <2> HIDE DEF r
  <2>3. StageOf(r.pc, r.fifo, r.dropped, runtimeDir')
    BY <1>3, <2>1, <2>2 DEF StageOf
  <2>4. QED BY <1>1, <1>2, <2>1, <2>2, <2>3, AdvanceInv DEF Living
<1>7. ASSUME SetupRuntimeDir(p), proc' # Died(p)
      PROVE  ChildTypeOK' /\ ChildInv'
  <2> DEFINE r == [proc[p] EXCEPT !.pc = "groups"]
  <2>1. proc' = [proc EXCEPT ![p] = r] /\ proc[p].pc = "rundir" /\ runtimeDir' = "user"
    BY <1>7 DEF SetupRuntimeDir, ChildTypeOK
  <2>2. r \in ProcRec /\ r.pc = "groups" /\ r.sid = proc[p].sid /\ r.call = proc[p].call
        /\ r.dropped = proc[p].dropped /\ r.fifo = proc[p].fifo
    BY <1>3 DEF ProcRec, Stages
  <2> HIDE DEF r
  <2>3. StageOf(r.pc, r.fifo, r.dropped, runtimeDir')
    BY <1>3, <2>1, <2>2 DEF StageOf
  <2>4. QED BY <1>1, <1>2, <2>1, <2>2, <2>3, AdvanceInv DEF Living
<1>8. ASSUME NEW from, NEW privilege \in Privileges, NEW to \in Stages,
             Give(p, from, privilege, to), proc' # Died(p),
             from \in {"groups", "gid", "uid"}, to \in {"gid", "uid", "chdir"},
             StageOf(to, proc[p].fifo, proc[p].dropped \cup {privilege}, runtimeDir)
      PROVE  ChildTypeOK' /\ ChildInv'
  <2> DEFINE r == [proc[p] EXCEPT !.pc = to, !.dropped = @ \cup {privilege}]
  <2>1. proc' = [proc EXCEPT ![p] = r] /\ proc[p].pc = from /\ runtimeDir' = runtimeDir
    BY <1>8 DEF Give, ChildTypeOK
  <2>2. r \in ProcRec /\ r.pc = to /\ r.sid = proc[p].sid /\ r.call = proc[p].call
        /\ r.dropped = proc[p].dropped \cup {privilege} /\ r.fifo = proc[p].fifo
    BY <1>3, <1>8 DEF ProcRec
  <2> HIDE DEF r
  <2>3. StageOf(r.pc, r.fifo, r.dropped, runtimeDir')
    BY <1>8, <2>1, <2>2
  <2>4. QED BY <1>1, <1>2, <1>8, <2>1, <2>2, <2>3, AdvanceInv DEF Living
<1>9. ASSUME ExecScript(p), proc' # Died(p)
      PROVE  ChildTypeOK' /\ ChildInv'
  <2> DEFINE r == [proc[p] EXCEPT !.pc = "shell", !.fifo = IF @ = "cloexec" THEN "closed" ELSE @]
  <2>1. proc' = [proc EXCEPT ![p] = r] /\ proc[p].pc = "chdir" /\ runtimeDir' = runtimeDir
    BY <1>9 DEF ExecScript, ChildTypeOK
  <2>2. proc[p].fifo = "inherited"
    BY <1>3, <2>1 DEF StageOf
  <2>3. r \in ProcRec /\ r.pc = "shell" /\ r.sid = proc[p].sid /\ r.call = proc[p].call
        /\ r.dropped = proc[p].dropped /\ r.fifo = "inherited"
    BY <1>3, <2>2 DEF ProcRec, Stages
  <2> HIDE DEF r
  <2>4. StageOf(r.pc, r.fifo, r.dropped, runtimeDir')
    BY <1>3, <2>1, <2>3 DEF StageOf
  <2>5. QED BY <1>1, <1>2, <2>1, <2>3, <2>4, AdvanceInv DEF Living
<1>10. CASE ChildExec(p) \/ ParseArgs(p)
  BY <1>4, <1>5, <1>10 DEF ChildExec, ParseArgs, Try
<1>11. CASE DropPrivileges(p)
  <2>1. CASE Give(p, "groups", "groups", "gid")
    <3>1. StageOf("gid", proc[p].fifo, proc[p].dropped \cup {"groups"}, runtimeDir)
      BY <1>3, <2>1 DEF Give, StageOf
    <3>2. QED BY <1>4, <1>8, <2>1, <3>1 DEF Privileges, Stages
  <2>2. CASE Give(p, "gid", "gid", "uid")
    <3>1. StageOf("uid", proc[p].fifo, proc[p].dropped \cup {"gid"}, runtimeDir)
      BY <1>3, <2>2 DEF Give, StageOf
    <3>2. QED BY <1>4, <1>8, <2>2, <3>1 DEF Privileges, Stages
  <2>3. CASE Give(p, "uid", "uid", "chdir")
    <3>1. StageOf("chdir", proc[p].fifo, proc[p].dropped \cup {"uid"}, runtimeDir)
      BY <1>3, <2>3 DEF Give, StageOf, Privileges
    <3>2. QED BY <1>4, <1>8, <2>3, <3>1 DEF Privileges, Stages
  <2>4. QED BY <1>11, <2>1, <2>2, <2>3 DEF DropPrivileges
<1>12. QED BY <1>4, <1>6, <1>7, <1>9, <1>10, <1>11

\* The process asks for its session.
LEMMA CallInv ==
  ASSUME LogindInv, ChildTypeOK, ChildInv, NEW p \in Pids, CallCreateSession(p)
  PROVE  LogindInv' /\ ChildTypeOK' /\ ChildInv'
<1>1. runtimeDir' = runtimeDir /\ runtimeDir \in {"absent", "root", "user"} /\ proc[p].pc = "call"
  BY DEF CallCreateSession, ChildTypeOK
<1>2. CASE proc' = Died(p) /\ UNCHANGED logindVars
  BY <1>1, <1>2, QuietDeath, LogindStutter
<1>3. ASSUME NEW t \in Tasks, CreateSession(t, p),
             proc' = [proc EXCEPT ![p].pc = "reply", ![p].call = t]
      PROVE  LogindInv' /\ ChildTypeOK' /\ ChildInv'
  <2> DEFINE r == [proc[p] EXCEPT !.pc = "reply", !.call = t]
  <2>1. proc' = [proc EXCEPT ![p] = r]
    BY <1>3 DEF ChildTypeOK
  <2>2. r \in ProcRec /\ r.pc = "reply" /\ r.call = t /\ r.sid = proc[p].sid
        /\ r.dropped = proc[p].dropped
    <3>1. proc[p] \in ProcRec /\ "reply" \in Stages
      BY DEF ChildTypeOK, ProcRec, Stages
    <3>2. QED BY <3>1 DEF ProcRec
  <2> HIDE DEF r
  <2>3. ChildTypeOK' /\ proc'[p] = r /\ \A q \in Pids : q # p => proc'[q] = proc[q]
    BY <1>1, <2>1, <2>2, ProcType
  <2>4. LogindTypeOK /\ task[t] = Idle
    BY <1>3 DEF LogindInv, CreateSession
  <2>5. /\ task'[t].step = "at" /\ task'[t].pid = p /\ task[t].step = "idle"
        /\ \A u \in Tasks : u # t => task'[u] = task[u]
    <3>1. "at" \in Steps /\ p \in Pids \cup {0} /\ nextSession \in Nat
      BY <2>4 DEF Steps, LogindTypeOK
    <3>2. QED BY <1>3, <2>4, <3>1, StartTask DEF CreateSession
  <2>6. KeepsSessions
    <3>1. nextSession \in Nat /\ nextSession' = nextSession + 1 /\ objects' = objects
      BY <1>3, <2>4 DEF CreateSession, LogindTypeOK
    <3>2. ASSUME NEW s \in SessionIds, s < nextSession
          PROVE  s < nextSession' /\ sessions'[s] = sessions[s]
      <4>1. s # nextSession /\ s < nextSession + 1
        BY <3>1, <3>2 DEF SessionIds
      <4>2. QED BY <1>3, <2>4, <3>1, <4>1 DEF CreateSession, LogindTypeOK
    <3>3. QED BY <3>1, <3>2 DEF KeepsSessions, SessionExists
  <2>7. ASSUME NEW q \in Pids
        PROVE  KeepsCall(q)
    <3>1. CallOK(q) /\ proc[q].call \in Tasks \cup {NoCall}
      BY DEF ChildInv, ChildTypeOK
    <3>2. proc[q].call # t
      BY <2>5, <3>1, SessionCreateAssumption DEF CallOK, Creating
    <3>3. QED BY <2>5, <3>1, <3>2 DEF KeepsCall, CallOK
  <2>8. CallOK(p)'
    BY <2>2, <2>3, <2>5 DEF CallOK, Creating
  <2>9. OwnOK(p)'
    <3>1. OwnOK(p) /\ Living(p) /\ (proc[p].sid # 0 => proc[p].sid \in SessionIds)
      BY <1>1 DEF ChildInv, ChildTypeOK, Living
    <3>2. QED BY <2>2, <2>3, <2>6, <3>1 DEF OwnOK, KeepsSessions
  <2>10. StageOK(p)'
    <3>1. StageOK(p)
      BY DEF ChildInv
    <3>2. QED BY <1>1, <2>2, <2>3, <3>1 DEF StageOK, StageOf
  <2>11. ChildInv'
    BY <1>1, <2>3, <2>6, <2>7, <2>8, <2>9, <2>10, OneProc
  <2>12. QED BY <1>3, <2>3, <2>11, CreateSessionInv
<1>4. QED BY <1>2, <1>3 DEF CallCreateSession

\* The answer reaches the process that asked, or nobody.
LEMMA ReplyInv ==
  ASSUME LogindInv, ChildTypeOK, ChildInv, NEW t \in Tasks, Reply(t)
  PROVE  LogindInv' /\ ChildTypeOK' /\ ChildInv'
<1>1. PICK p : p = task[t].pid
  OBVIOUS
<1>2. LogindTypeOK /\ CallsInv
  BY DEF LogindInv, SessionInv
<1>3. /\ task[t].step \in {"created", "refused"} /\ Finish(t)
      /\ UNCHANGED <<sessionVars, inhibitorVars, signals, overtaken>> /\ runtimeDir' = runtimeDir
  BY DEF Reply
<1>4. LogindInv'
  BY <1>3, AnyReplyInv DEF AnyReply
<1>5. CreatingOK(t) /\ p \in Pids /\ task[t].arg \in SessionIds /\ task[t].arg < nextSession
  BY <1>1, <1>2, <1>3 DEF CallsInv, Creating, CreatingOK
<1>6. task'[t].step = "idle" /\ \A u \in Tasks : u # t => task'[u] = task[u]
  BY <1>2, <1>3, FinishTask
<1>7. /\ sessions' = sessions /\ nextSession' = nextSession /\ objects' = objects
      /\ KeepsSessions
  BY <1>3, SameKeepsSessions DEF sessionVars
<1>8. ASSUME NEW q \in Pids, proc[q].call # t
      PROVE  KeepsCall(q)
  <2>1. CallOK(q) /\ proc[q].call \in Tasks \cup {NoCall}
    BY DEF ChildInv, ChildTypeOK
  <2>2. QED BY <1>6, <1>8, <2>1 DEF KeepsCall, CallOK
<1>9. \A q \in Pids : q # p => proc[q].call # t
  BY <1>1, SessionCreateAssumption DEF ChildInv, CallOK
<1>10. runtimeDir \in {"absent", "root", "user"}
  BY DEF ChildTypeOK
<1>11. CASE proc[p].call # t
  <2>1. proc' = proc
    BY <1>1, <1>11, Zenon DEF Reply
  <2>2. \A q \in Pids : KeepsCall(q)
    BY <1>8, <1>9, <1>11
  <2>3. ChildInv'
    BY <1>3, <1>7, <2>1, <2>2, ProcFrame DEF ChildInv
  <2>4. QED BY <1>3, <1>4, <2>1, <2>3 DEF ChildTypeOK
<1>12. CASE proc[p].call = t /\ task[t].step = "refused"
  <2>1. proc' = Died(p)
    <3>1. task[t].step # "created"
      BY <1>12
    <3>2. QED BY <1>1, <1>12, <3>1, Zenon DEF Reply
  <2>2. QED BY <1>3, <1>4, <1>5, <1>7, <1>8, <1>9, <1>10, <2>1, DiedInv
<1>13. CASE proc[p].call = t /\ task[t].step = "created"
  <2> DEFINE r == [proc[p] EXCEPT !.pc = "cloexec", !.call = NoCall, !.sid = task[t].arg,
                                  !.fifo = "cloexec"]
  <2>1. proc' = [proc EXCEPT ![p].pc = "cloexec", ![p].call = NoCall,
                             ![p].sid = task[t].arg, ![p].fifo = "cloexec"]
    BY <1>1, <1>13, Zenon DEF Reply
  <2>2. proc' = [proc EXCEPT ![p] = r]
    BY <1>5, <2>1 DEF ChildTypeOK
  <2>3. r \in ProcRec /\ r.pc = "cloexec" /\ r.call = NoCall /\ r.sid = task[t].arg
        /\ r.dropped = proc[p].dropped
    <3>1. proc[p] \in ProcRec /\ "cloexec" \in Stages
      BY <1>5 DEF ChildTypeOK, ProcRec, Stages
    <3>2. QED BY <1>5, <3>1 DEF ProcRec
  <2> HIDE DEF r
  <2>4. ChildTypeOK' /\ proc'[p] = r /\ \A q \in Pids : q # p => proc'[q] = proc[q]
    BY <1>3, <1>5, <1>10, <2>2, <2>3, ProcType
  <2>5. CallOK(p)'
    BY <2>3, <2>4 DEF CallOK
  <2>6. OwnOK(p)'
    <3>1. SessionExists(task[t].arg) =>
            sessions[task[t].arg].leader = p /\ task[t].arg \in objects
      BY <1>1, <1>5, <1>13 DEF CreatingOK
    <3>2. QED BY <1>5, <1>7, <2>3, <2>4, <3>1 DEF OwnOK, SessionExists
  <2>7. StageOK(p)'
    <3>1. StageOK(p) /\ proc[p].pc = "reply"
      BY <1>5, <1>13, SessionCreateAssumption DEF ChildInv, CallOK
    <3>2. QED BY <2>3, <2>4, <3>1 DEF StageOK, StageOf
  <2>8. ChildInv'
    BY <1>3, <1>5, <1>7, <1>8, <1>9, <2>4, <2>5, <2>6, <2>7, OneProc
  <2>9. QED BY <1>4, <2>4, <2>8
<1>14. QED BY <1>3, <1>11, <1>12, <1>13

\* A signal ends a process, or a dead one is reaped.
LEMMA EndsInv ==
  ASSUME LogindInv, ChildTypeOK, ChildInv,
         (\E p \in Pids : ProcessEnds(p)) \/ (\E s \in SessionIds : Terminate(s))
  PROVE  LogindInv' /\ ChildTypeOK' /\ ChildInv'
<1>1. UNCHANGED logindVars /\ runtimeDir' = runtimeDir /\ runtimeDir \in {"absent", "root", "user"}
  BY DEF ProcessEnds, Terminate, ChildTypeOK
<1>2. \E p \in Pids : proc' = Died(p)
  <2>1. CASE \E p \in Pids : ProcessEnds(p)
    BY <2>1 DEF ProcessEnds
  <2>2. ASSUME NEW s \in SessionIds, Terminate(s)
        PROVE  \E p \in Pids : proc' = Died(p)
    <3>1. SessionExists(s) /\ proc' = Died(sessions[s].leader)
      BY <2>2 DEF Terminate
    <3>2. sessions[s].leader \in Pids
      BY <3>1 DEF LogindInv, LogindTypeOK, SessionInv, RecordInv
    <3>3. QED BY <3>1, <3>2
  <2>3. QED BY <2>1, <2>2
<1>3. QED BY <1>1, <1>2, QuietDeath, LogindStutter

\* A pid changes hands: login forks a child, or a dead process is reaped.
LEMMA FreshInv ==
  ASSUME ChildTypeOK, ChildInv, NEW p \in Pids, NEW pc \in {"none", "forked"},
         proc' = [proc EXCEPT ![p] = [NoProc EXCEPT !.pc = pc]],
         runtimeDir' = runtimeDir, UNCHANGED logindVars
  PROVE  ChildTypeOK' /\ ChildInv'
<1> DEFINE r == [NoProc EXCEPT !.pc = pc]
<1>1. r \in ProcRec /\ r.pc = pc /\ r.call = NoCall /\ r.sid = 0 /\ r.dropped = {}
  BY DEF ProcRec, NoProc, Stages
<1>2. proc' = [proc EXCEPT ![p] = r] /\ runtimeDir \in {"absent", "root", "user"}
  BY DEF ChildTypeOK
<1> HIDE DEF r
<1>3. ChildTypeOK' /\ proc'[p] = r /\ \A q \in Pids : q # p => proc'[q] = proc[q]
  BY <1>1, <1>2, ProcType
<1>4. CallOK(p)' /\ OwnOK(p)' /\ StageOK(p)'
  BY <1>1, <1>3 DEF CallOK, OwnOK, StageOK, StageOf
<1>5. QED BY <1>3, <1>4, QuietLogind, OneProc

\* A process is reaped, and its pid is free again.
LEMMA ReapedInv ==
  ASSUME ChildTypeOK, ChildInv, NEW p \in Pids \cup {0}, proc' = [proc EXCEPT ![p] = NoProc],
         runtimeDir' = runtimeDir, UNCHANGED logindVars
  PROVE  ChildTypeOK' /\ ChildInv'
<1>1. CASE p \in Pids
  <2>1. NoProc = [NoProc EXCEPT !.pc = "none"]
    BY DEF NoProc
  <2>2. QED BY <1>1, <2>1, FreshInv
<1>2. CASE p \notin Pids
  <2>1. proc' = proc
    BY <1>2 DEF ChildTypeOK
  <2>2. ChildInv'
    BY <2>1, QuietLogind, ProcFrame DEF ChildInv
  <2>3. QED BY <2>1, <2>2 DEF ChildTypeOK
<1>3. QED BY <1>1, <1>2

------------------------------------------------------------------------------
\* The composed system

\* Nobody is logged in.
LEMMA InitInv == Init => IInv
<1> SUFFICES ASSUME Init PROVE IInv
  OBVIOUS
<1>1. LogindInv
  BY LogindInitInv DEF Init
<1>2. proc = [p \in Pids |-> NoProc] /\ runtimeDir = "absent"
  BY DEF Init, ChildInit
<1>3. NoProc \in ProcRec /\ NoProc.pc = "none" /\ NoProc.call = NoCall
  BY DEF NoProc, ProcRec, Stages
<1>4. ChildTypeOK
  <2>1. proc \in [Pids -> ProcRec]
    BY <1>2, <1>3
  <2>2. QED BY <1>2, <2>1, Zenon DEF ChildTypeOK, ProcRec
<1>5. ChildInv
  <2>1. ASSUME NEW p \in Pids
        PROVE  CallOK(p) /\ OwnOK(p) /\ StageOK(p)
    <3>1. proc[p].pc = "none" /\ proc[p].call = NoCall
      BY <1>2, <1>3
    <3>2. QED BY <3>1 DEF CallOK, OwnOK, StageOK, StageOf, Living
  <2>2. QED BY <2>1 DEF ChildInv
<1>6. PamInv
  BY Zenon DEF Init, PamInv, Complete
<1>7. LoginTypeOK
  <2>1. loginPc \in LoginPlaces
    BY DEF Init, LoginPlaces
  <2>2. pamCalls \in Seq(PamCalls)
    BY <1>6, <2>1, PamType
  <2>3. QED BY <2>1, <2>2, Zenon DEF Init, LoginTypeOK
<1>8. EchoInv
  BY Zenon DEF Init, EchoInv, EchoRestored
<1>9. WaitInv
  BY DEF Init, WaitInv
<1>10. QED BY <1>1, <1>4, <1>5, <1>6, <1>7, <1>8, <1>9 DEF IInv

\* The steps of login keep logind and the processes in order.
LEMMA LoginStepChild ==
  ASSUME IInv, LoginStep \/ Killed
  PROVE  LogindInv' /\ ChildTypeOK' /\ ChildInv'
<1>1. LogindInv /\ ChildTypeOK /\ ChildInv /\ child \in Pids \cup {0}
  BY DEF IInv, LoginTypeOK
<1>2. UNCHANGED logindVars /\ runtimeDir' = runtimeDir
  <2>1. CASE LoginStep
    BY <2>1 DEF LoginStep, Start, AskPassword, PasswordRead, Authenticate, AcctMgmt, PamCheck,
       EstablishCred, OpenSession, Fork, SessionEnded, Restart, Others, childVars
  <2>2. CASE Killed
    BY <2>2 DEF Killed, Others, childVars
  <2>3. QED BY <2>1, <2>2
<1>3. CASE proc' = proc
  <2>1. ChildInv'
    BY <1>1, <1>2, <1>3, QuietLogind, ProcFrame DEF ChildInv
  <2>2. QED BY <1>1, <1>2, <1>3, <2>1, LogindStutter DEF ChildTypeOK
<1>4. CASE Fork
  BY <1>1, <1>2, <1>3, <1>4, FreshInv, LogindStutter DEF Fork
<1>5. CASE SessionEnded
  BY <1>1, <1>2, <1>5, ReapedInv, LogindStutter DEF SessionEnded
<1>6. CASE ~(Fork \/ SessionEnded)
  <2>1. proc' = proc
    BY <1>6 DEF LoginStep, Start, AskPassword, PasswordRead, Authenticate, AcctMgmt, PamCheck,
       EstablishCred, OpenSession, Restart, Killed, Others, childVars
  <2>2. QED BY <1>3, <2>1
<1>7. QED BY <1>4, <1>5, <1>6

\* A step that leaves login alone keeps what is known of it.
LEMMA LoginFrame ==
  ASSUME LoginTypeOK, PamInv, WaitInv, EchoInv, UNCHANGED loginVars
  PROVE  LoginTypeOK' /\ PamInv' /\ WaitInv' /\ EchoInv'
<1>1. /\ loginPc' = loginPc /\ credsEstablished' = credsEstablished /\ sessionOpen' = sessionOpen
      /\ pamCalls' = pamCalls /\ echo' = echo /\ savedEcho' = savedEcho /\ child' = child
      /\ echoLost' = echoLost
  BY DEF loginVars, pamVars, ttyVars
<1>2. QED BY <1>1, Zenon DEF LoginTypeOK, PamInv, WaitInv, EchoInv, EchoRestored

\* Every step of login, of its child and of logind keeps the invariant.
LEMMA StepInv ==
  ASSUME IInv, [Next]_vars
  PROVE  IInv'
<1>1. LogindInv /\ ChildTypeOK /\ ChildInv /\ LoginTypeOK /\ PamInv /\ WaitInv /\ EchoInv
  BY DEF IInv
<1>2. CASE LoginStep \/ Killed
  <2>1. PamInv' /\ loginPc' \in LoginPlaces
    BY <1>1, <1>2, PamStep
  <2>2. pamCalls' \in Seq(PamCalls)
    <3>1. (loginPc \in LoginPlaces /\ PamInv => pamCalls \in Seq(PamCalls))'
      BY PamType, PTL
    <3>2. QED BY <2>1, <3>1
  <2>3. EchoInv' /\ echo' \in BOOLEAN /\ savedEcho' \in BOOLEAN /\ echoLost' \in BOOLEAN
    BY <1>1, <1>2, EchoStep
  <2>4. child' \in Pids \cup {0} /\ WaitInv'
    BY <1>1, <1>2, ChildPidStep
  <2>5. credsEstablished' \in BOOLEAN /\ sessionOpen' \in BOOLEAN
    BY <1>1, <1>2, FlagsStep
  <2>6. LoginTypeOK'
    BY <2>1, <2>2, <2>3, <2>4, <2>5, Zenon DEF LoginTypeOK
  <2>7. QED BY <1>2, <2>1, <2>3, <2>4, <2>6, LoginStepChild DEF IInv
<1>3. ASSUME NEW p \in Pids, ReapOrphan(p)
      PROVE  IInv'
  <2>1. LogindInv' /\ ChildTypeOK' /\ ChildInv'
    BY <1>1, <1>3, ReapedInv, LogindStutter DEF ReapOrphan
  <2>2. QED BY <1>1, <1>3, <2>1, LoginFrame DEF ReapOrphan, IInv
<1>4. CASE ChildNext /\ UNCHANGED loginVars
  <2>1. ASSUME NEW p \in Pids, ChildStep(p)
        PROVE  LogindInv' /\ ChildTypeOK' /\ ChildInv'
    <3>1. CASE CallCreateSession(p)
      BY <1>1, <3>1, CallInv
    <3>2. CASE ~CallCreateSession(p)
      <4>1. UNCHANGED logindVars
        BY <2>1, <3>2 DEF ChildStep, ChildExec, ParseArgs, ClearCloexec, SetupRuntimeDir,
           DropPrivileges, Give, ExecScript
      <4>2. QED BY <1>1, <2>1, <3>2, <4>1, StagesInv, LogindStutter DEF ChildStep
    <3>3. QED BY <3>1, <3>2
  <2>2. LogindInv' /\ ChildTypeOK' /\ ChildInv'
    BY <1>1, <1>4, <2>1, ReplyInv, EndsInv DEF ChildNext
  <2>3. QED BY <1>1, <1>4, <2>2, LoginFrame DEF IInv
<1>5. CASE LogindNext /\ UNCHANGED <<childVars, loginVars>>
  <2>1. proc' = proc /\ runtimeDir' = runtimeDir /\ UNCHANGED loginVars
    BY <1>5 DEF childVars
  <2>2. ASSUME NEW p \in Pids
        PROVE  KeepsCall(p)
    <3>1. CallOK(p) /\ proc[p].call \in Tasks \cup {NoCall}
      BY <1>1 DEF ChildInv, ChildTypeOK
    <3>2. QED BY <1>1, <1>5, <3>1, LogindKeepsCalls DEF KeepsCall, CallOK
  <2>3. ChildInv'
    BY <1>1, <1>5, <2>1, <2>2, LogindKeepsSessions, ProcFrame DEF ChildInv
  <2>4. LogindInv'
    BY <1>1, <1>5, LogindStep
  <2>5. ChildTypeOK'
    BY <1>1, <2>1 DEF ChildTypeOK
  <2>6. QED BY <1>1, <2>1, <2>3, <2>4, <2>5, LoginFrame DEF IInv
<1>6. CASE UNCHANGED vars
  <2>1. UNCHANGED logindVars /\ proc' = proc /\ runtimeDir' = runtimeDir /\ UNCHANGED loginVars
    BY <1>6 DEF vars, childVars
  <2>2. ChildInv'
    BY <1>1, <2>1, QuietLogind, ProcFrame DEF ChildInv
  <2>3. LogindInv' /\ ChildTypeOK'
    BY <1>1, <2>1, LogindStutter DEF ChildTypeOK
  <2>4. QED BY <1>1, <2>1, <2>2, <2>3, LoginFrame DEF IInv
<1>7. QED BY <1>2, <1>3, <1>4, <1>5, <1>6 DEF Next

\* The inductive invariant holds in every reachable state of the composition.
THEOREM LoginInvariance == Spec => []IInv
<1>1. Init => IInv
  BY InitInv
<1>2. IInv /\ [Next]_vars => IInv'
  BY StepInv
<1>3. QED BY <1>1, <1>2, PTL DEF Spec

\* Every variable of login, the session processes and logind keeps its type.
THEOREM LoginTypeCorrect == Spec => []TypeOK
<1>1. IInv => TypeOK
  BY DEF IInv, LogindInv, TypeOK
<1>2. QED BY <1>1, LoginInvariance, PTL

\* The process that got a session leads it and finds its object until the
\* session is released, whatever happened to login, to an earlier process with
\* the same pid and to calls in flight; the shell it becomes has no privilege
\* left (session-create main.rs, run).
THEOREM OwnershipCorrect == Spec => []SessionBelongsToItsProcess
<1>1. IInv => SessionBelongsToItsProcess
  <2> SUFFICES ASSUME IInv, NEW p \in Pids, Living(p), proc[p].sid # 0 \/ proc[p].pc = "shell"
               PROVE  /\ SessionExists(proc[p].sid) => proc[p].sid \in LedBy(p) \cap objects
                      /\ proc[p].pc = "shell" =>
                           /\ proc[p].dropped = Privileges
                           /\ proc[p].fifo = "inherited"
                           /\ runtimeDir = "user"
    BY DEF SessionBelongsToItsProcess
  <2>1. OwnOK(p) /\ StageOK(p)
    BY DEF IInv, ChildInv
  <2>2. ASSUME SessionExists(proc[p].sid)
        PROVE  proc[p].sid \in LedBy(p) \cap objects
    <3>1. proc[p].sid \in SessionIds /\ proc[p].sid # 0
      BY <2>2 DEF SessionExists, SessionIds
    <3>2. QED BY <2>1, <2>2, <3>1 DEF OwnOK, LedBy, ListSessions
  <2>3. QED BY <2>1, <2>2 DEF StageOK, StageOf
<1>2. QED BY <1>1, LoginInvariance, PTL

\* Echo is off only while a password is read, unless a signal once ended login
\* there (term.rs, EchoGuard).
THEOREM EchoCorrect == Spec => []EchoRestored
<1>1. IInv => EchoRestored
  BY DEF IInv, EchoInv
<1>2. QED BY <1>1, LoginInvariance, PTL

\* What PamBracketed says of a transaction that is over.
Ordered ==
  /\ Times("start") = 1 /\ Times("end") = 1
  /\ Times("close") = Times("open") + Times("openFailed")
  /\ Times("delete") = Times("cred")
  /\ pamCalls[Len(pamCalls)] = "end"
  /\ \A i, j \in 1..Len(pamCalls) : pamCalls[i] = "close" /\ pamCalls[j] = "delete" => i < j

\* Every complete transaction is bracketed.
LEMMA CompleteOrdered ==
  ASSUME pamCalls \in Complete, pamCalls # <<>>
  PROVE  Ordered
<1>1. \A k : Cardinality({k}) = 1
  BY FS_Singleton
<1>2. Cardinality({}) = 0
  BY FS_EmptySet
<1>3. CASE pamCalls = <<"start", "end">>
  <2>1. /\ Len(pamCalls) = 2
        /\ pamCalls[1] = "start"
        /\ pamCalls[2] = "end"
    BY <1>3
  <2>2. /\ {i \in 1..Len(pamCalls) : pamCalls[i] = "start"} = {1}
        /\ {i \in 1..Len(pamCalls) : pamCalls[i] = "cred"} = {}
        /\ {i \in 1..Len(pamCalls) : pamCalls[i] = "open"} = {}
        /\ {i \in 1..Len(pamCalls) : pamCalls[i] = "openFailed"} = {}
        /\ {i \in 1..Len(pamCalls) : pamCalls[i] = "close"} = {}
        /\ {i \in 1..Len(pamCalls) : pamCalls[i] = "delete"} = {}
        /\ {i \in 1..Len(pamCalls) : pamCalls[i] = "end"} = {2}
    BY <2>1
  <2>3. /\ Times("start") = 1
        /\ Times("end") = 1
    BY <1>1, <2>2, Zenon DEF Times
  <2>4. /\ Times("cred") = 0
        /\ Times("open") = 0
        /\ Times("openFailed") = 0
        /\ Times("close") = 0
        /\ Times("delete") = 0
    BY <1>2, <2>2, Zenon DEF Times
  <2>5. \A i, j \in 1..Len(pamCalls) : pamCalls[i] = "close" /\ pamCalls[j] = "delete" => i < j
    BY <2>1
  <2>6. QED BY <2>1, <2>3, <2>4, <2>5 DEF Ordered
<1>4. CASE pamCalls = <<"start", "credFailed", "end">>
  <2>1. /\ Len(pamCalls) = 3
        /\ pamCalls[1] = "start"
        /\ pamCalls[2] = "credFailed"
        /\ pamCalls[3] = "end"
    BY <1>4
  <2>2. /\ {i \in 1..Len(pamCalls) : pamCalls[i] = "start"} = {1}
        /\ {i \in 1..Len(pamCalls) : pamCalls[i] = "cred"} = {}
        /\ {i \in 1..Len(pamCalls) : pamCalls[i] = "open"} = {}
        /\ {i \in 1..Len(pamCalls) : pamCalls[i] = "openFailed"} = {}
        /\ {i \in 1..Len(pamCalls) : pamCalls[i] = "close"} = {}
        /\ {i \in 1..Len(pamCalls) : pamCalls[i] = "delete"} = {}
        /\ {i \in 1..Len(pamCalls) : pamCalls[i] = "end"} = {3}
    BY <2>1
  <2>3. /\ Times("start") = 1
        /\ Times("end") = 1
    BY <1>1, <2>2, Zenon DEF Times
  <2>4. /\ Times("cred") = 0
        /\ Times("open") = 0
        /\ Times("openFailed") = 0
        /\ Times("close") = 0
        /\ Times("delete") = 0
    BY <1>2, <2>2, Zenon DEF Times
  <2>5. \A i, j \in 1..Len(pamCalls) : pamCalls[i] = "close" /\ pamCalls[j] = "delete" => i < j
    BY <2>1
  <2>6. QED BY <2>1, <2>3, <2>4, <2>5 DEF Ordered
<1>5. CASE pamCalls = <<"start", "cred", "openFailed", "close", "delete", "end">>
  <2>1. /\ Len(pamCalls) = 6
        /\ pamCalls[1] = "start"
        /\ pamCalls[2] = "cred"
        /\ pamCalls[3] = "openFailed"
        /\ pamCalls[4] = "close"
        /\ pamCalls[5] = "delete"
        /\ pamCalls[6] = "end"
    BY <1>5
  <2>2. /\ {i \in 1..Len(pamCalls) : pamCalls[i] = "start"} = {1}
        /\ {i \in 1..Len(pamCalls) : pamCalls[i] = "cred"} = {2}
        /\ {i \in 1..Len(pamCalls) : pamCalls[i] = "open"} = {}
        /\ {i \in 1..Len(pamCalls) : pamCalls[i] = "openFailed"} = {3}
        /\ {i \in 1..Len(pamCalls) : pamCalls[i] = "close"} = {4}
        /\ {i \in 1..Len(pamCalls) : pamCalls[i] = "delete"} = {5}
        /\ {i \in 1..Len(pamCalls) : pamCalls[i] = "end"} = {6}
    BY <2>1
  <2>3. /\ Times("start") = 1
        /\ Times("cred") = 1
        /\ Times("openFailed") = 1
        /\ Times("close") = 1
        /\ Times("delete") = 1
        /\ Times("end") = 1
    BY <1>1, <2>2, Zenon DEF Times
  <2>4. /\ Times("open") = 0
    BY <1>2, <2>2, Zenon DEF Times
  <2>5. \A i, j \in 1..Len(pamCalls) : pamCalls[i] = "close" /\ pamCalls[j] = "delete" => i < j
    BY <2>1
  <2>6. QED BY <2>1, <2>3, <2>4, <2>5 DEF Ordered
<1>6. CASE pamCalls = <<"start", "cred", "open", "close", "delete", "end">>
  <2>1. /\ Len(pamCalls) = 6
        /\ pamCalls[1] = "start"
        /\ pamCalls[2] = "cred"
        /\ pamCalls[3] = "open"
        /\ pamCalls[4] = "close"
        /\ pamCalls[5] = "delete"
        /\ pamCalls[6] = "end"
    BY <1>6
  <2>2. /\ {i \in 1..Len(pamCalls) : pamCalls[i] = "start"} = {1}
        /\ {i \in 1..Len(pamCalls) : pamCalls[i] = "cred"} = {2}
        /\ {i \in 1..Len(pamCalls) : pamCalls[i] = "open"} = {3}
        /\ {i \in 1..Len(pamCalls) : pamCalls[i] = "openFailed"} = {}
        /\ {i \in 1..Len(pamCalls) : pamCalls[i] = "close"} = {4}
        /\ {i \in 1..Len(pamCalls) : pamCalls[i] = "delete"} = {5}
        /\ {i \in 1..Len(pamCalls) : pamCalls[i] = "end"} = {6}
    BY <2>1
  <2>3. /\ Times("start") = 1
        /\ Times("cred") = 1
        /\ Times("open") = 1
        /\ Times("close") = 1
        /\ Times("delete") = 1
        /\ Times("end") = 1
    BY <1>1, <2>2, Zenon DEF Times
  <2>4. /\ Times("openFailed") = 0
    BY <1>2, <2>2, Zenon DEF Times
  <2>5. \A i, j \in 1..Len(pamCalls) : pamCalls[i] = "close" /\ pamCalls[j] = "delete" => i < j
    BY <2>1
  <2>6. QED BY <2>1, <2>3, <2>4, <2>5 DEF Ordered
<1>7. QED BY <1>3, <1>4, <1>5, <1>6, Zenon DEF Complete

\* While a session process runs, the session it runs in is open.
LEMMA OpenWhileWaiting ==
  ASSUME pamCalls = <<"start", "cred", "open">>
  PROVE  Times("open") = 1 /\ Times("close") = 0 /\ Times("delete") = 0
<1>1. Len(pamCalls) = 3 /\ pamCalls[1] = "start" /\ pamCalls[2] = "cred" /\ pamCalls[3] = "open"
  OBVIOUS
<1>2. /\ {i \in 1..Len(pamCalls) : pamCalls[i] = "open"} = {3}
      /\ {i \in 1..Len(pamCalls) : pamCalls[i] = "close"} = {}
      /\ {i \in 1..Len(pamCalls) : pamCalls[i] = "delete"} = {}
  BY <1>1
<1>3. Cardinality({3}) = 1 /\ Cardinality({}) = 0
  BY FS_Singleton, FS_EmptySet
<1>4. QED BY <1>2, <1>3, Zenon DEF Times

\* A session process runs in an open PAM session; at the prompt and after an
\* orderly exit all that the last transaction got was given back once and in
\* order and its handle ended, on every path through the loop; an open that
\* failed is closed too (login main.rs, run; pam.rs, Session and its Drop).
THEOREM PamCorrect == Spec => []PamBracketed
<1>1. IInv => PamBracketed
  <2> SUFFICES ASSUME IInv PROVE PamBracketed
    OBVIOUS
  <2>1. PamInv /\ WaitInv
    BY DEF IInv
  <2>2. child # 0 => Times("open") = 1 /\ Times("close") = 0 /\ Times("delete") = 0
    BY <2>1, OpenWhileWaiting DEF PamInv, WaitInv
  <2>3. loginPc \in {"prompt", "exited"} /\ pamCalls # <<>> => Ordered
    BY <2>1, CompleteOrdered DEF PamInv
  <2>4. QED BY <2>2, <2>3, Zenon DEF PamBracketed, Ordered
<1>2. QED BY <1>1, LoginInvariance, PTL

==============================================================================
