------------------------------- MODULE Logind --------------------------------
(***************************************************************************)
(* writeonce-logind: the Manager and Session objects on the bus            *)
(* (manager.rs, session.rs), the state they share behind one mutex         *)
(* (state.rs), and the thread that watches the inhibitors' pipes           *)
(* (inhibitor.rs).                                                         *)
(*                                                                         *)
(* Every method call is a task of the bus library's executor.  A task      *)
(* holds the mutex only between two awaits, and other tasks, the watcher   *)
(* and the clients move while it waits; step names the await a task is at. *)
(* Inhibit has no await after its record is written, but the watcher is a  *)
(* thread of its own and runs between its steps.                           *)
(***************************************************************************)
EXTENDS Naturals, FiniteSets

CONSTANTS
  Tasks,           \* method calls that can be in flight together
  Pids,            \* process ids
  MaxSessions,     \* bound: CreateSession calls that allocate an id
  MaxInhibitors,   \* bound: Inhibit calls that allocate an id
  MaxEvents,       \* size of epoll_wait's event buffer
  Hints,           \* values clients give to SetIdleHint
  MayFail          \* what may fail: the object server, pipes, signals, epoll

ASSUME LogindAssumption ==
  /\ 0 \notin Pids
  /\ MaxSessions \in Nat /\ MaxInhibitors \in Nat
  /\ MaxEvents \in Nat \ {0}
  /\ Hints \subseteq BOOLEAN
  /\ MayFail \subseteq {"at", "pipe", "emit", "epoll"}

SessionIds   == 1..MaxSessions
InhibitorIds == 1..MaxInhibitors
Modes        == {"block", "delay"}
Wake         == 0   \* the wake pipe's event; u64::MAX in the code

NoSession   == [leader |-> 0, idle |-> FALSE]
NoInhibitor == [mode |-> "none"]
Idle        == [step |-> "idle", arg |-> 0, pid |-> 0]

Steps == {"idle", "at", "announce", "created", "refused",
          "remove", "removed", "register", "wake"}

VARIABLES
  sessions,       \* AppState.sessions
  nextSession,    \* AppState.next_session_id
  objects,        \* ids with a Session object on the object server
  inhibitors,     \* AppState.inhibitors
  nextInhibitor,  \* AppState.next_inhibitor_id
  task,           \* the tasks of the executor
  pending,        \* InhibitorWatcher.pending
  wakeByte,       \* bytes are waiting in the wake pipe
  fds,            \* InhibitorWatcher.fds, the ids epoll watches
  watcher,        \* the watcher thread: where it is and what it holds
  open,           \* inhibitors whose write end somebody holds open
  signals,        \* history: SessionNew and SessionRemoved signals sent
  overtaken       \* history: sessions released before their object was served

sessionVars   == <<sessions, nextSession, objects>>
inhibitorVars == <<inhibitors, nextInhibitor, pending, wakeByte, fds, watcher, open>>
logindVars    == <<sessionVars, inhibitorVars, task, signals, overtaken>>

LogindTypeOK ==
  /\ sessions \in [SessionIds -> [leader : Pids \cup {0}, idle : BOOLEAN]]
  /\ nextSession \in 1..(MaxSessions + 1)
  /\ objects \subseteq SessionIds
  /\ inhibitors \in [InhibitorIds -> [mode : Modes \cup {"none"}]]
  /\ nextInhibitor \in 1..(MaxInhibitors + 1)
  /\ task \in [Tasks -> [step : Steps, arg : Nat, pid : Pids \cup {0}]]
  /\ pending \subseteq InhibitorIds
  /\ wakeByte \in BOOLEAN
  /\ fds \subseteq InhibitorIds
  /\ watcher \in [at : {"drain", "add", "handle"},
                  batch : SUBSET InhibitorIds, events : SUBSET (InhibitorIds \cup {Wake})]
  /\ open \subseteq InhibitorIds
  /\ signals \in [SessionIds -> [new : Nat, removed : Nat]]
  /\ overtaken \subseteq SessionIds

LogindInit ==
  /\ sessions = [s \in SessionIds |-> NoSession]
  /\ nextSession = 1
  /\ objects = {}
  /\ inhibitors = [i \in InhibitorIds |-> NoInhibitor]
  /\ nextInhibitor = 1
  /\ task = [t \in Tasks |-> Idle]
  /\ pending = {} /\ wakeByte = FALSE /\ fds = {}
  /\ watcher = [at |-> "drain", batch |-> {}, events |-> {}]
  /\ open = {}
  /\ signals = [s \in SessionIds |-> [new |-> 0, removed |-> 0]]
  /\ overtaken = {}

------------------------------------------------------------------------------
\* Helpers

Goto(t, step) == task' = [task EXCEPT ![t].step = step]
Finish(t)     == task' = [task EXCEPT ![t] = Idle]

SessionExists(s) == s \in SessionIds /\ sessions[s] # NoSession

ListSessions == {s \in SessionIds : SessionExists(s)}

\* find_session_by_pid, the match of a process with the sessions it leads; the
\* order of a hash map decides between several.  The walk up to the parents of
\* a process without a match is left out; SessionBelongsToItsProcess, which uses
\* this, asks about the leader itself.
LedBy(p) == {s \in ListSessions : sessions[s].leader = p}

------------------------------------------------------------------------------
\* Manager.CreateSession

\* The id and the record, in one critical section.
CreateSession(t, p) ==
  /\ task[t] = Idle
  /\ nextSession <= MaxSessions
  /\ sessions' = [sessions EXCEPT ![nextSession] = [leader |-> p, idle |-> FALSE]]
  /\ nextSession' = nextSession + 1
  /\ task' = [task EXCEPT ![t] = [step |-> "at", arg |-> nextSession, pid |-> p]]
  /\ UNCHANGED <<objects, inhibitorVars, signals, overtaken>>

\* Mutant: the object server's refusal is ignored.
ServeSessionOrNot(t) ==
  /\ task[t].step = "at"
  /\ objects' \in {objects \cup {task[t].arg}} \cup (IF "at" \in MayFail THEN {objects} ELSE {})
  /\ Goto(t, "announce")
  /\ UNCHANGED <<sessions, nextSession, inhibitorVars, signals, overtaken>>

\* server.at(path, Session).await; a failure returns with the record in place.
ServeSession(t) ==
  /\ task[t].step = "at"
  /\ \/ /\ objects' = objects \cup {task[t].arg}
        /\ Goto(t, "announce")
     \/ /\ "at" \in MayFail
        /\ objects' = objects
        /\ Goto(t, "refused")
  /\ UNCHANGED <<sessions, nextSession, inhibitorVars, signals, overtaken>>

\* The lifecycle pipe and SessionNew; either may fail, with the record and the
\* object in place.  The read end is closed when the method returns.
AnnounceSession(t) ==
  /\ task[t].step = "announce"
  /\ \/ /\ signals' = [signals EXCEPT ![task[t].arg].new = @ + 1]
        /\ Goto(t, "created")
     \/ /\ MayFail \cap {"pipe", "emit"} # {}
        /\ signals' = signals
        /\ Goto(t, "refused")
  /\ UNCHANGED <<sessionVars, inhibitorVars, overtaken>>

------------------------------------------------------------------------------
\* Manager.ReleaseSession; a call for an unknown session fails and changes
\* nothing.

Serving(u, s) == task[u].step = "at" /\ task[u].arg = s

ReleaseSession(t, s) ==
  /\ task[t] = Idle
  /\ SessionExists(s)
  /\ sessions' = [sessions EXCEPT ![s] = NoSession]
  /\ task' = [task EXCEPT ![t] = [step |-> "remove", arg |-> s, pid |-> 0]]
  /\ overtaken' = overtaken \cup {r \in {s} : \E u \in Tasks : Serving(u, r)}
  /\ UNCHANGED <<nextSession, objects, inhibitorVars, signals>>

\* server.remove(path).await, whose error is dropped.
UnserveSession(t) ==
  /\ task[t].step = "remove"
  /\ objects' = objects \ {task[t].arg}
  /\ Goto(t, "removed")
  /\ UNCHANGED <<sessions, nextSession, inhibitorVars, signals, overtaken>>

AnnounceRemoved(t) ==
  /\ task[t].step = "removed"
  /\ signals' \in {[signals EXCEPT ![task[t].arg].removed = @ + 1]}
                    \cup (IF "emit" \in MayFail THEN {signals} ELSE {})
  /\ Finish(t)
  /\ UNCHANGED <<sessionVars, inhibitorVars, overtaken>>

\* Mutant: the hint is written whether or not the record is there.
SetIdleHintUpserts(s, idle) ==
  /\ s \in objects
  /\ sessions' = [sessions EXCEPT ![s].idle = idle]
  /\ UNCHANGED <<nextSession, objects, inhibitorVars, task, signals, overtaken>>

\* Session.SetIdleHint, routed to the session's object; fails when the record
\* is gone.
SetIdleHint(s, idle) ==
  /\ s \in objects
  /\ SessionExists(s)
  /\ sessions' = [sessions EXCEPT ![s].idle = idle]
  /\ UNCHANGED <<nextSession, objects, inhibitorVars, task, signals, overtaken>>

------------------------------------------------------------------------------
\* Manager.Inhibit, after the caller has been resolved; a mode other than the
\* two is refused before anything is written.

\* The record, then the pipe; without a pipe the call fails and the record
\* stays.
Inhibit(t, mode) ==
  /\ task[t] = Idle
  /\ nextInhibitor <= MaxInhibitors
  /\ inhibitors' = [inhibitors EXCEPT ![nextInhibitor] = [mode |-> mode]]
  /\ nextInhibitor' = nextInhibitor + 1
  /\ \/ /\ open' = open \cup {nextInhibitor}
        /\ task' = [task EXCEPT ![t] = [step |-> "register", arg |-> nextInhibitor, pid |-> 0]]
     \/ /\ "pipe" \in MayFail
        /\ UNCHANGED <<open, task>>
  /\ UNCHANGED <<sessionVars, pending, wakeByte, fds, watcher, signals, overtaken>>

\* Mutant: the queue is filled and nobody is woken.
RegisterPushQuietly(t) ==
  /\ task[t].step = "register"
  /\ pending' = pending \cup {task[t].arg}
  /\ Finish(t)
  /\ UNCHANGED <<sessionVars, inhibitors, nextInhibitor, wakeByte, fds, watcher, open, signals, overtaken>>

\* InhibitorWatcher.register: the queue first, then the wake pipe.
RegisterPush(t) ==
  /\ task[t].step = "register"
  /\ pending' = pending \cup {task[t].arg}
  /\ Goto(t, "wake")
  /\ UNCHANGED <<sessionVars, inhibitors, nextInhibitor, wakeByte, fds, watcher, open, signals, overtaken>>

RegisterWake(t) ==
  /\ task[t].step = "wake"
  /\ wakeByte' = TRUE
  /\ Finish(t)
  /\ UNCHANGED <<sessionVars, inhibitors, nextInhibitor, pending, fds, watcher, open, signals, overtaken>>

\* The last copy of the write end goes: the caller closes it or dies, or the
\* bus drops the reply.
CloseHandle(i) ==
  /\ i \in open
  /\ \A t \in Tasks : ~(task[t].step \in {"register", "wake"} /\ task[t].arg = i)
  /\ open' = open \ {i}
  /\ UNCHANGED <<sessionVars, inhibitors, nextInhibitor, task, pending, wakeByte, fds, watcher, signals, overtaken>>

------------------------------------------------------------------------------
\* The watcher thread

\* drain_pending takes the whole queue ...
DrainPending ==
  /\ watcher.at = "drain"
  /\ watcher' = [watcher EXCEPT !.at = "add", !.batch = pending]
  /\ pending' = {}
  /\ UNCHANGED <<sessionVars, inhibitors, nextInhibitor, task, wakeByte, fds, open, signals, overtaken>>

\* ... and adds each read end to epoll; one that cannot be added is closed and
\* forgotten.
AddToEpoll(i) ==
  /\ watcher.at = "add" /\ i \in watcher.batch
  /\ watcher' = [watcher EXCEPT !.batch = @ \ {i}]
  /\ fds' \in {fds \cup {i}} \cup (IF "epoll" \in MayFail THEN {fds} ELSE {})
  /\ UNCHANGED <<sessionVars, inhibitors, nextInhibitor, task, pending, wakeByte, open, signals, overtaken>>

Smaller(m, n) == IF m <= n THEN m ELSE n

\* What epoll reports: the wake pipe while it holds a byte, a read end once
\* nobody holds its write end.
Ready == (IF wakeByte THEN {Wake} ELSE {}) \cup {i \in fds : i \notin open}

EpollWait ==
  /\ watcher.at = "add" /\ watcher.batch = {}
  /\ Ready # {}
  /\ \E events \in SUBSET Ready :
       /\ Cardinality(events) = Smaller(Cardinality(Ready), MaxEvents)
       /\ watcher' = [watcher EXCEPT !.at = "handle", !.events = events]
  /\ UNCHANGED <<sessionVars, inhibitors, nextInhibitor, task, pending, wakeByte, fds, open, signals, overtaken>>

\* release: the fd leaves epoll and is closed, then the record is dropped.
Release(i) ==
  /\ fds' = fds \ {i}
  /\ inhibitors' = [inhibitors EXCEPT ![i] = NoInhibitor]
  /\ UNCHANGED wakeByte

DrainWakePipe ==
  /\ wakeByte' = FALSE
  /\ UNCHANGED <<fds, inhibitors>>

HandleEvent(e) ==
  /\ watcher.at = "handle" /\ e \in watcher.events
  /\ IF e = Wake THEN DrainWakePipe ELSE Release(e)
  /\ watcher' = [watcher EXCEPT !.events = @ \ {e},
                                !.at = IF watcher.events = {e} THEN "drain" ELSE @]
  /\ UNCHANGED <<sessionVars, nextInhibitor, task, pending, open, signals, overtaken>>

------------------------------------------------------------------------------
\* The daemon's own steps, and those of clients that any process may be.

Watch ==
  \/ DrainPending
  \/ \E i \in InhibitorIds : AddToEpoll(i)
  \/ EpollWait
  \/ \E e \in InhibitorIds \cup {Wake} : HandleEvent(e)

Resume(t) ==
  \/ ServeSession(t)
  \/ AnnounceSession(t)
  \/ UnserveSession(t)
  \/ AnnounceRemoved(t)
  \/ RegisterPush(t)
  \/ RegisterWake(t)

ClientCall ==
  \/ \E t \in Tasks, s \in SessionIds : ReleaseSession(t, s)
  \/ \E s \in SessionIds, idle \in Hints : SetIdleHint(s, idle)
  \/ \E t \in Tasks, mode \in Modes : Inhibit(t, mode)
  \/ \E i \in InhibitorIds : CloseHandle(i)

LogindNext == Watch \/ (\E t \in Tasks : Resume(t)) \/ ClientCall

\* On its own: any process may ask for a session, and takes its answer.
AnyCreate == \E t \in Tasks, p \in Pids : CreateSession(t, p)

AnyReply(t) ==
  /\ task[t].step \in {"created", "refused"}
  /\ Finish(t)
  /\ UNCHANGED <<sessionVars, inhibitorVars, signals, overtaken>>

\* The executor polls every task and the kernel schedules the watcher; nothing
\* is assumed of the clients.
LogindFairness ==
  /\ WF_logindVars(Watch)
  /\ \A t \in Tasks : WF_logindVars(Resume(t))

LogindSpec ==
  /\ LogindInit
  /\ [][LogindNext \/ AnyCreate \/ \E t \in Tasks : AnyReply(t)]_logindVars
  /\ LogindFairness

------------------------------------------------------------------------------
\* Properties

\* Once nobody works on a session any more, the bus and the records agree,
\* however CreateSession and ReleaseSession of several callers interleave at
\* their awaits: a session announced with SessionNew has its object for as long
\* as its record exists; an object without a record is left only if
\* ReleaseSession overtook the CreateSession that was about to serve it; and of
\* any number of concurrent releases one sends SessionRemoved (manager.rs,
\* create_session and release_session).
ObjectsMatchSessions ==
  /\ \A s \in SessionIds : signals[s].new > 0 /\ SessionExists(s) => s \in objects
  /\ \A s \in objects :
       \/ SessionExists(s)
       \/ s \in overtaken
       \/ \E t \in Tasks : task[t].step = "remove" /\ task[t].arg = s
  /\ \A s \in SessionIds : signals[s].new <= 1 /\ signals[s].removed <= 1

\* A session that was released never comes back, neither through a reused id
\* nor through a call on the object that its creator still holds (state.rs,
\* allocate_session_id; session.rs, set_idle_hint).
ReleasedStaysReleased ==
  [][\A s \in SessionIds :
       s < nextSession /\ ~SessionExists(s) => ~SessionExists(s)']_logindVars

\* Whether the daemon has lock i in hand, so that it will notice its close.
Tracked(i) ==
  \/ i \in pending \cup watcher.batch \cup fds
  \/ \E t \in Tasks : task[t].step = "register" /\ task[t].arg = i

Stage(i) ==
  IF i >= nextInhibitor THEN "free"
  ELSE IF inhibitors[i] = NoInhibitor THEN "gone"
  ELSE IF ~Tracked(i) THEN "stuck"
  ELSE IF i \in open THEN "held"
  ELSE "closing"

LockStage == [i \in InhibitorIds |-> Stage(i)]

Lock == INSTANCE InhibitLock WITH Locks <- InhibitorIds, lock <- LockStage

\* Inhibit with its pipes, its queue and its thread implements the lock it
\* promises: listed from the call until the holder closes its descriptor,
\* released after that and never before, and released in the end unless the
\* pipe could not be made or watched (inhibitor.rs; manager.rs, inhibit).
InhibitorsImplementLock == Lock!Spec

==============================================================================
