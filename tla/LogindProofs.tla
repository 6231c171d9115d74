----------------------------- MODULE LogindProofs -----------------------------
(***************************************************************************)
(* For every number of calls in flight, sessions and inhibitors, whatever  *)
(* fails and however tasks, the watcher thread and clients interleave:     *)
(* the bus objects follow the records, a released session stays released,  *)
(* and Inhibit implements the lock of InhibitLock.                         *)
(***************************************************************************)
EXTENDS Logind, TLAPS

Creating  == {"at", "announce", "created", "refused"}
Releasing == {"remove", "removed"}

\* A record has a leader; nothing is known of an id before it is allocated.
RecordInv ==
  /\ \A s \in SessionIds : SessionExists(s) => sessions[s].leader # 0
  /\ \A s \in SessionIds :
       s >= nextSession => /\ ~SessionExists(s) /\ s \notin objects
                           /\ signals[s] = [new |-> 0, removed |-> 0]

\* What a CreateSession in flight knows: its id is allocated, the record, if it
\* is still there, names its caller, and a missing record before the object is
\* served means that somebody overtook it.
CreatingOK(t) ==
  /\ task[t].arg \in SessionIds /\ task[t].arg < nextSession /\ task[t].pid \in Pids
  /\ SessionExists(task[t].arg) => sessions[task[t].arg].leader = task[t].pid
  /\ task[t].step = "at" => SessionExists(task[t].arg) \/ task[t].arg \in overtaken
  /\ task[t].step \in {"announce", "created"} =>
       (SessionExists(task[t].arg) => task[t].arg \in objects)
  /\ task[t].step \in {"at", "announce"} => signals[task[t].arg].new = 0

\* What a ReleaseSession in flight knows: the record is gone, and nobody has
\* said so yet.
ReleasingOK(t) ==
  /\ task[t].arg \in SessionIds /\ task[t].arg < nextSession
  /\ ~SessionExists(task[t].arg)
  /\ signals[task[t].arg].removed = 0

\* Two calls that will both send the same signal for the same session.
SameSignal(t, u) ==
  /\ task[t].arg = task[u].arg
  /\ \/ task[t].step \in {"at", "announce"} /\ task[u].step \in {"at", "announce"}
     \/ task[t].step \in Releasing /\ task[u].step \in Releasing

CallsInv ==
  /\ \A t \in Tasks : task[t].step \in Creating => CreatingOK(t)
  /\ \A t \in Tasks : task[t].step \in Releasing => ReleasingOK(t)
  /\ \A t, u \in Tasks : SameSignal(t, u) => t = u
  /\ \A s \in SessionIds : signals[s].removed > 0 => ~SessionExists(s)

\* The watcher's tables hold allocated locks; it handles closes of locks it
\* watches, and has added all it took from the queue before it waits.
WatcherInv ==
  /\ \A i \in pending \cup watcher.batch \cup fds \cup open : i < nextInhibitor
  /\ \A t \in Tasks : task[t].step \in {"register", "wake"} =>
       task[t].arg \in InhibitorIds /\ task[t].arg < nextInhibitor
  /\ watcher.at # "add" => watcher.batch = {}
  /\ \A i \in watcher.events : i # Wake => i \in fds /\ i \notin open

SessionInv == RecordInv /\ CallsInv /\ ObjectsMatchSessions

\* The inductive invariant.
LogindInv == LogindTypeOK /\ SessionInv /\ WatcherInv

------------------------------------------------------------------------------
\* The invariant holds when the daemon starts.
LEMMA LogindInitInv == LogindInit => LogindInv
<1> SUFFICES ASSUME LogindInit PROVE LogindInv
  OBVIOUS
<1> USE LogindAssumption DEF LogindInit, SessionIds, InhibitorIds, NoSession, NoInhibitor, Idle
<1>1. LogindTypeOK
  <2>1. sessions \in [SessionIds -> [leader : Pids \cup {0}, idle : BOOLEAN]]
    OBVIOUS
  <2>2. inhibitors \in [InhibitorIds -> [mode : Modes \cup {"none"}]]
    OBVIOUS
  <2>3. task \in [Tasks -> [step : Steps, arg : Nat, pid : Pids \cup {0}]]
    BY DEF Steps
  <2>4. watcher \in [at : {"drain", "add", "handle"},
                     batch : SUBSET InhibitorIds, events : SUBSET (InhibitorIds \cup {Wake})]
    OBVIOUS
  <2>5. signals \in [SessionIds -> [new : Nat, removed : Nat]]
    OBVIOUS
  <2>6. nextSession \in 1..(MaxSessions + 1) /\ nextInhibitor \in 1..(MaxInhibitors + 1)
    OBVIOUS
  <2>7. objects = {} /\ pending = {} /\ wakeByte = FALSE /\ fds = {} /\ open = {} /\ overtaken = {}
    OBVIOUS
  <2> HIDE DEF LogindInit, SessionIds, InhibitorIds
  <2>8. QED BY <2>1, <2>2, <2>3, <2>4, <2>5, <2>6, <2>7 DEF LogindTypeOK
<1>2. SessionInv
  BY DEF SessionInv, RecordInv, CallsInv, SameSignal, ObjectsMatchSessions, SessionExists,
     Creating, Releasing
<1>3. WatcherInv
  BY DEF WatcherInv
<1>4. QED BY <1>1, <1>2, <1>3 DEF LogindInv

\* Only the session methods disturb what is known of sessions.
LEMMA SessionFrame ==
  ASSUME SessionInv, UNCHANGED <<sessionVars, signals, overtaken>>,
         \A u \in Tasks : \/ task'[u] = task[u]
                          \/ task[u].step # "remove" /\ task'[u].step \notin Creating \cup Releasing
  PROVE  SessionInv'
<1>1. /\ sessions' = sessions /\ nextSession' = nextSession /\ objects' = objects
      /\ signals' = signals /\ overtaken' = overtaken
  BY DEF sessionVars
<1>2. \A s : SessionExists(s)' <=> SessionExists(s)
  BY <1>1 DEF SessionExists
<1>3. RecordInv'
  BY <1>1, <1>2 DEF SessionInv, RecordInv
<1>4. CallsInv'
  <2>1. ASSUME NEW u \in Tasks, task'[u].step \in Creating
        PROVE  CreatingOK(u)'
    <3>1. task'[u] = task[u] /\ CreatingOK(u)
      BY <2>1 DEF SessionInv, CallsInv
    <3>2. QED BY <1>1, <1>2, <3>1 DEF CreatingOK
  <2>2. ASSUME NEW u \in Tasks, task'[u].step \in Releasing
        PROVE  ReleasingOK(u)'
    <3>1. task'[u] = task[u] /\ ReleasingOK(u)
      BY <2>2 DEF SessionInv, CallsInv
    <3>2. QED BY <1>1, <1>2, <3>1 DEF ReleasingOK
  <2>3. ASSUME NEW u \in Tasks, NEW v \in Tasks, SameSignal(u, v)'
        PROVE  u = v
    <3>1. task'[u] = task[u] /\ task'[v] = task[v]
      BY <2>3 DEF SameSignal, Creating
    <3>2. SameSignal(u, v)
      BY <2>3, <3>1 DEF SameSignal
    <3>3. QED BY <3>2 DEF SessionInv, CallsInv
  <2>4. QED BY <1>1, <1>2, <2>1, <2>2, <2>3 DEF SessionInv, CallsInv
<1>5. ObjectsMatchSessions'
  <2>1. \A u \in Tasks : task[u].step = "remove" => task'[u] = task[u]
    OBVIOUS
  <2>2. QED BY <1>1, <1>2, <2>1 DEF SessionInv, ObjectsMatchSessions
<1>6. QED BY <1>3, <1>4, <1>5 DEF SessionInv

\* Only Inhibit and the watcher disturb what is known of locks.
LEMMA WatcherFrame ==
  ASSUME WatcherInv, UNCHANGED inhibitorVars,
         \A u \in Tasks : task'[u] = task[u] \/ task'[u].step \notin {"register", "wake"}
  PROVE  WatcherInv'
<1>1. /\ nextInhibitor' = nextInhibitor /\ pending' = pending /\ fds' = fds
      /\ watcher' = watcher /\ open' = open
  BY DEF inhibitorVars
<1>2. QED BY <1>1 DEF WatcherInv

\* A task that moves on keeps its argument.
LEMMA GotoTask ==
  ASSUME LogindTypeOK, NEW t \in Tasks, NEW x \in Steps, Goto(t, x)
  PROVE  /\ task' \in [Tasks -> [step : Steps, arg : Nat, pid : Pids \cup {0}]]
         /\ task'[t].step = x /\ task'[t].arg = task[t].arg /\ task'[t].pid = task[t].pid
         /\ \A u \in Tasks : u # t => task'[u] = task[u]
  BY DEF LogindTypeOK, Goto

\* A call is answered.
LEMMA FinishTask ==
  ASSUME LogindTypeOK, NEW t \in Tasks, Finish(t)
  PROVE  /\ task' \in [Tasks -> [step : Steps, arg : Nat, pid : Pids \cup {0}]]
         /\ task'[t].step = "idle"
         /\ \A u \in Tasks : u # t => task'[u] = task[u]
<1>1. Idle \in [step : Steps, arg : Nat, pid : Pids \cup {0}] /\ Idle.step = "idle"
  BY DEF Idle, Steps
<1>2. QED BY <1>1 DEF LogindTypeOK, Finish

\* A call comes in.
LEMMA StartTask ==
  ASSUME LogindTypeOK, NEW t \in Tasks, NEW x \in Steps, NEW a \in Nat, NEW p \in Pids \cup {0},
         task[t] = Idle, task' = [task EXCEPT ![t] = [step |-> x, arg |-> a, pid |-> p]]
  PROVE  /\ task' \in [Tasks -> [step : Steps, arg : Nat, pid : Pids \cup {0}]]
         /\ task[t].step = "idle"
         /\ task'[t].step = x /\ task'[t].arg = a /\ task'[t].pid = p
         /\ \A u \in Tasks : u # t => task'[u] = task[u]
<1>1. [step |-> x, arg |-> a, pid |-> p] \in [step : Steps, arg : Nat, pid : Pids \cup {0}]
  OBVIOUS
<1>2. task'[t] = [step |-> x, arg |-> a, pid |-> p]
  BY DEF LogindTypeOK
<1>3. task[t].step = "idle"
  BY DEF Idle
<1>4. QED BY <1>1, <1>2, <1>3 DEF LogindTypeOK

------------------------------------------------------------------------------
\* Sessions

\* A new id and its record.
LEMMA CreateSessionInv ==
  ASSUME LogindInv, NEW t \in Tasks, NEW p \in Pids, CreateSession(t, p)
  PROVE  LogindInv'
<1>0. PICK n : n = nextSession
  OBVIOUS
<1>1. LogindTypeOK /\ RecordInv /\ CallsInv /\ ObjectsMatchSessions /\ WatcherInv
  BY DEF LogindInv, SessionInv
<1>2. /\ task[t] = Idle
      /\ sessions' = [sessions EXCEPT ![n] = [leader |-> p, idle |-> FALSE]]
      /\ nextSession' = n + 1
      /\ task' = [task EXCEPT ![t] = [step |-> "at", arg |-> n, pid |-> p]]
      /\ UNCHANGED <<objects, inhibitorVars, signals, overtaken>>
  BY <1>0 DEF CreateSession
<1>3. n \in SessionIds /\ n \in Nat /\ p # 0
  BY <1>0, <1>1, LogindAssumption DEF LogindTypeOK, SessionIds, CreateSession
<1>4. /\ task' \in [Tasks -> [step : Steps, arg : Nat, pid : Pids \cup {0}]]
      /\ task[t].step = "idle" /\ task'[t].step = "at" /\ task'[t].arg = n /\ task'[t].pid = p
      /\ \A u \in Tasks : u # t => task'[u] = task[u]
  <2>1. "at" \in Steps /\ p \in Pids \cup {0}
    BY DEF Steps
  <2>2. QED BY <1>1, <1>2, <1>3, <2>1, StartTask
<1>5. LogindTypeOK'
  <2>1. sessions' \in [SessionIds -> [leader : Pids \cup {0}, idle : BOOLEAN]]
    BY <1>1, <1>2, <1>3 DEF LogindTypeOK
  <2>2. nextSession' \in 1..(MaxSessions + 1)
    BY <1>2, <1>3, LogindAssumption DEF SessionIds
  <2>3. QED BY <1>1, <1>2, <1>4, <2>1, <2>2 DEF LogindTypeOK, inhibitorVars
<1>6. /\ sessions'[n] = [leader |-> p, idle |-> FALSE]
      /\ \A s \in SessionIds : s # n => sessions'[s] = sessions[s]
  BY <1>1, <1>2, <1>3 DEF LogindTypeOK
<1>7. sessions'[n].leader = p /\ sessions'[n] # NoSession
  BY <1>3, <1>6 DEF NoSession
<1>8. SessionExists(n)' /\ \A s \in SessionIds : s # n => (SessionExists(s)' <=> SessionExists(s))
  BY <1>3, <1>6, <1>7 DEF SessionExists
<1>9. ~SessionExists(n) /\ n \notin objects /\ signals[n].new = 0 /\ signals[n].removed = 0
  BY <1>0, <1>1, <1>3 DEF RecordInv
<1>10. RecordInv'
  <2>1. \A s \in SessionIds : SessionExists(s)' => sessions'[s].leader # 0
    BY <1>1, <1>3, <1>6, <1>7, <1>8 DEF RecordInv
  <2>2. ASSUME NEW s \in SessionIds, s >= n + 1
        PROVE  ~SessionExists(s)' /\ s \notin objects /\ signals[s] = [new |-> 0, removed |-> 0]
    <3>1. s # n /\ s >= n
      BY <1>3, <2>2 DEF SessionIds
    <3>2. QED BY <1>0, <1>1, <1>8, <3>1 DEF RecordInv
  <2>3. QED BY <1>2, <2>1, <2>2 DEF RecordInv
<1>11. CallsInv'
  <2>1. ASSUME NEW u \in Tasks, u # t, task[u].step \in Creating \cup Releasing
        PROVE  task[u].arg \in SessionIds /\ task[u].arg < n /\ task[u].arg # n
    <3>1. task[u].arg \in SessionIds /\ task[u].arg < n
      BY <1>0, <1>1, <2>1 DEF CallsInv, CreatingOK, ReleasingOK
    <3>2. QED BY <1>3, <3>1 DEF SessionIds
  <2>2. ASSUME NEW u \in Tasks, task'[u].step \in Creating
        PROVE  CreatingOK(u)'
    <3>1. CASE u = t
      BY <1>2, <1>3, <1>4, <1>7, <1>8, <1>9, <3>1 DEF CreatingOK
    <3>2. CASE u # t
      <4>1. task'[u] = task[u] /\ CreatingOK(u)
        BY <1>1, <1>4, <2>2, <3>2 DEF CallsInv
      <4>2. task[u].arg \in SessionIds /\ task[u].arg < n + 1 /\ task[u].arg # n
        BY <1>3, <2>1, <2>2, <3>2, <4>1 DEF SessionIds
      <4>3. QED BY <1>2, <1>6, <1>8, <4>1, <4>2 DEF CreatingOK
    <3>3. QED BY <3>1, <3>2
  <2>3. ASSUME NEW u \in Tasks, task'[u].step \in Releasing
        PROVE  ReleasingOK(u)'
    <3>1. u # t
      BY <1>4, <2>3 DEF Releasing
    <3>2. task'[u] = task[u] /\ ReleasingOK(u)
      BY <1>1, <1>4, <2>3, <3>1 DEF CallsInv
    <3>3. task[u].arg \in SessionIds /\ task[u].arg < n + 1 /\ task[u].arg # n
      BY <1>3, <2>1, <2>3, <3>1, <3>2 DEF SessionIds
    <3>4. QED BY <1>2, <1>8, <3>2, <3>3 DEF ReleasingOK
  <2>4. ASSUME NEW u \in Tasks, NEW v \in Tasks, SameSignal(u, v)'
        PROVE  u = v
    <3>1. \A w \in Tasks : w # t /\ task[w].step \in Creating \cup Releasing =>
            task'[w].arg # task'[t].arg
      BY <1>4, <2>1
    <3>2. CASE u # t /\ v # t
      <4>1. SameSignal(u, v)
        BY <1>4, <2>4, <3>2 DEF SameSignal
      <4>2. QED BY <1>1, <4>1 DEF CallsInv
    <3>3. CASE u = t \/ v = t
      BY <1>4, <2>4, <3>1, <3>3 DEF SameSignal, Creating, Releasing
    <3>4. QED BY <3>2, <3>3
  <2>5. \A s \in SessionIds : signals'[s].removed > 0 => ~SessionExists(s)'
    BY <1>1, <1>2, <1>8, <1>9 DEF CallsInv
  <2>6. QED BY <2>2, <2>3, <2>4, <2>5 DEF CallsInv
<1>12. ObjectsMatchSessions'
  <2>1. \A u \in Tasks : task[u].step = "remove" => task'[u] = task[u]
    BY <1>4
  <2>2. \A s \in objects : s \in SessionIds /\ s # n
    BY <1>1, <1>9 DEF LogindTypeOK
  <2>3. \A s \in SessionIds : signals'[s].new > 0 /\ SessionExists(s)' => s \in objects'
    BY <1>1, <1>2, <1>8, <1>9 DEF ObjectsMatchSessions
  <2>4. \A s \in objects' :
          \/ SessionExists(s)'
          \/ s \in overtaken'
          \/ \E u \in Tasks : task'[u].step = "remove" /\ task'[u].arg = s
    BY <1>1, <1>2, <1>8, <2>1, <2>2 DEF ObjectsMatchSessions
  <2>5. QED BY <1>1, <1>2, <2>3, <2>4 DEF ObjectsMatchSessions
<1>13. WatcherInv'
  BY <1>1, <1>2, <1>4, WatcherFrame
<1>14. QED BY <1>5, <1>10, <1>11, <1>12, <1>13 DEF LogindInv, SessionInv

\* The object is served, or the creation fails.
LEMMA ServeSessionInv ==
  ASSUME LogindInv, NEW t \in Tasks, ServeSession(t)
  PROVE  LogindInv'
<1>1. LogindTypeOK /\ RecordInv /\ CallsInv /\ ObjectsMatchSessions /\ WatcherInv
  BY DEF LogindInv, SessionInv
<1>2. PICK a : a = task[t].arg
  OBVIOUS
<1>3. PICK x \in {"announce", "refused"} :
        /\ Goto(t, x)
        /\ objects' = objects \cup {a} \/ (x = "refused" /\ objects' = objects)
  BY <1>2 DEF ServeSession
<1>4. /\ sessions' = sessions /\ nextSession' = nextSession /\ signals' = signals
      /\ overtaken' = overtaken /\ inhibitorVars' = inhibitorVars /\ task[t].step = "at"
  BY DEF ServeSession
<1>5. CreatingOK(t) /\ a \in SessionIds /\ a < nextSession
  BY <1>1, <1>2, <1>4 DEF CallsInv, CreatingOK, Creating
<1>6. SessionExists(a) \/ a \in overtaken
  BY <1>2, <1>4, <1>5 DEF CreatingOK
<1>7. /\ task' \in [Tasks -> [step : Steps, arg : Nat, pid : Pids \cup {0}]]
      /\ task'[t].step = x /\ task'[t].arg = a /\ task'[t].pid = task[t].pid
      /\ \A u \in Tasks : u # t => task'[u] = task[u]
  <2>1. x \in Steps
    BY DEF Steps
  <2>2. QED BY <1>1, <1>2, <1>3, <2>1, GotoTask
<1>8. \A s : SessionExists(s)' <=> SessionExists(s)
  BY <1>4 DEF SessionExists
<1>9. LogindTypeOK'
  BY <1>1, <1>3, <1>4, <1>5, <1>7 DEF LogindTypeOK, inhibitorVars
<1>10. RecordInv'
  <2>1. ASSUME NEW s \in SessionIds, s >= nextSession
        PROVE  s \notin objects'
    <3>1. s # a
      BY <1>1, <1>5, <2>1 DEF LogindTypeOK, SessionIds
    <3>2. QED BY <1>1, <1>3, <2>1, <3>1 DEF RecordInv
  <2>2. QED BY <1>1, <1>4, <1>8, <2>1 DEF RecordInv
<1>11. CallsInv'
  <2>1. ASSUME NEW u \in Tasks, task'[u].step \in Creating
        PROVE  CreatingOK(u)'
    <3>1. CASE u = t
      <4>1. (x = "announce") => a \in objects'
        BY <1>3
      <4>2. QED BY <1>2, <1>4, <1>5, <1>7, <1>8, <3>1, <4>1 DEF CreatingOK
    <3>2. CASE u # t
      <4>1. task'[u] = task[u] /\ CreatingOK(u)
        BY <1>1, <1>7, <2>1, <3>2 DEF CallsInv
      <4>2. QED BY <1>3, <1>4, <1>8, <4>1 DEF CreatingOK
    <3>3. QED BY <3>1, <3>2
  <2>2. ASSUME NEW u \in Tasks, task'[u].step \in Releasing
        PROVE  ReleasingOK(u)'
    <3>1. task'[u] = task[u] /\ ReleasingOK(u)
      BY <1>1, <1>7, <2>2 DEF CallsInv, Releasing
    <3>2. QED BY <1>4, <1>8, <3>1 DEF ReleasingOK
  <2>3. ASSUME NEW u \in Tasks, NEW v \in Tasks, SameSignal(u, v)'
        PROVE  u = v
    <3>1. SameSignal(u, v)
      BY <1>2, <1>4, <1>7, <2>3 DEF SameSignal, Releasing
    <3>2. QED BY <1>1, <3>1 DEF CallsInv
  <2>4. QED BY <1>1, <1>4, <1>8, <2>1, <2>2, <2>3 DEF CallsInv
<1>12. ObjectsMatchSessions'
  <2>1. \A u \in Tasks : task[u].step = "remove" => task'[u] = task[u]
    BY <1>4, <1>7
  <2>2. objects \subseteq objects' /\ objects' \subseteq objects \cup {a}
    BY <1>3
  <2>3. \A s \in objects' :
          \/ SessionExists(s)'
          \/ s \in overtaken'
          \/ \E u \in Tasks : task'[u].step = "remove" /\ task'[u].arg = s
    BY <1>1, <1>4, <1>6, <1>8, <2>1, <2>2 DEF ObjectsMatchSessions
  <2>4. QED BY <1>1, <1>4, <1>8, <2>2, <2>3 DEF ObjectsMatchSessions
<1>13. WatcherInv'
  BY <1>1, <1>4, <1>7, WatcherFrame
<1>14. QED BY <1>9, <1>10, <1>11, <1>12, <1>13 DEF LogindInv, SessionInv

\* The creation is announced.
LEMMA AnnounceSessionInv ==
  ASSUME LogindInv, NEW t \in Tasks, AnnounceSession(t)
  PROVE  LogindInv'
<1>1. LogindTypeOK /\ RecordInv /\ CallsInv /\ ObjectsMatchSessions /\ WatcherInv
  BY DEF LogindInv, SessionInv
<1>2. PICK a : a = task[t].arg
  OBVIOUS
<1>3. PICK x \in {"created", "refused"} :
        /\ Goto(t, x)
        /\ signals' = [signals EXCEPT ![a].new = @ + 1] \/ signals' = signals
  BY <1>2 DEF AnnounceSession
<1>4. /\ sessions' = sessions /\ nextSession' = nextSession /\ objects' = objects
      /\ overtaken' = overtaken /\ inhibitorVars' = inhibitorVars /\ task[t].step = "announce"
  BY DEF AnnounceSession, sessionVars
<1>5. CreatingOK(t) /\ a \in SessionIds /\ a < nextSession
  BY <1>1, <1>2, <1>4 DEF CallsInv, CreatingOK, Creating
<1>6. signals[a].new = 0 /\ (SessionExists(a) => a \in objects)
  BY <1>2, <1>4, <1>5 DEF CreatingOK
<1>7. /\ task' \in [Tasks -> [step : Steps, arg : Nat, pid : Pids \cup {0}]]
      /\ task'[t].step = x /\ task'[t].arg = a /\ task'[t].pid = task[t].pid
      /\ \A u \in Tasks : u # t => task'[u] = task[u]
  <2>1. x \in Steps
    BY DEF Steps
  <2>2. QED BY <1>1, <1>2, <1>3, <2>1, GotoTask
<1>8. \A s : SessionExists(s)' <=> SessionExists(s)
  BY <1>4 DEF SessionExists
<1>9. /\ signals' \in [SessionIds -> [new : Nat, removed : Nat]]
      /\ signals'[a].new <= 1 /\ signals'[a].removed = signals[a].removed
      /\ \A s \in SessionIds : s # a => signals'[s] = signals[s]
  <2>1. signals \in [SessionIds -> [new : Nat, removed : Nat]]
    BY <1>1 DEF LogindTypeOK
  <2>2. CASE signals' = signals
    BY <1>5, <1>6, <2>1, <2>2
  <2>3. CASE signals' = [signals EXCEPT ![a].new = @ + 1]
    <3>1. /\ DOMAIN signals' = SessionIds /\ signals'[a].new = 1
          /\ signals'[a] = [signals[a] EXCEPT !.new = 1]
          /\ \A s \in SessionIds : s # a => signals'[s] = signals[s]
      BY <1>5, <1>6, <2>1, <2>3
    <3>2. signals'[a] \in [new : Nat, removed : Nat] /\ signals'[a].removed = signals[a].removed
      BY <1>5, <2>1, <3>1
    <3>3. QED BY <1>5, <2>1, <2>3, <3>1, <3>2
  <2>4. QED BY <1>3, <2>2, <2>3
<1>10. LogindTypeOK'
  BY <1>1, <1>4, <1>7, <1>9 DEF LogindTypeOK, inhibitorVars
<1>11. RecordInv'
  <2>1. ASSUME NEW s \in SessionIds, s >= nextSession
        PROVE  signals'[s] = signals[s]
    <3>1. s # a
      BY <1>1, <1>5, <2>1 DEF LogindTypeOK, SessionIds
    <3>2. QED BY <1>9, <3>1
  <2>2. QED BY <1>1, <1>4, <1>8, <2>1 DEF RecordInv
<1>12. CallsInv'
  <2>1. ASSUME NEW u \in Tasks, task'[u].step \in Creating
        PROVE  CreatingOK(u)'
    <3>1. CASE u = t
      BY <1>2, <1>4, <1>5, <1>7, <1>8, <3>1 DEF CreatingOK
    <3>2. CASE u # t
      <4>1. task'[u] = task[u] /\ CreatingOK(u)
        BY <1>1, <1>7, <2>1, <3>2 DEF CallsInv
      <4>2. task[u].step \in {"at", "announce"} => task[u].arg # a
        BY <1>1, <1>2, <1>4, <3>2 DEF CallsInv, SameSignal
      <4>3. QED BY <1>4, <1>8, <1>9, <4>1, <4>2 DEF CreatingOK
    <3>3. QED BY <3>1, <3>2
  <2>2. ASSUME NEW u \in Tasks, task'[u].step \in Releasing
        PROVE  ReleasingOK(u)'
    <3>1. task'[u] = task[u] /\ ReleasingOK(u)
      BY <1>1, <1>7, <2>2 DEF CallsInv, Releasing
    <3>2. QED BY <1>4, <1>8, <1>9, <3>1 DEF ReleasingOK
  <2>3. ASSUME NEW u \in Tasks, NEW v \in Tasks, SameSignal(u, v)'
        PROVE  u = v
    <3>1. SameSignal(u, v)
      BY <1>2, <1>4, <1>7, <2>3 DEF SameSignal, Releasing
    <3>2. QED BY <1>1, <3>1 DEF CallsInv
  <2>4. \A s \in SessionIds : signals'[s].removed = signals[s].removed
    BY <1>9
  <2>5. QED BY <1>1, <1>8, <2>1, <2>2, <2>3, <2>4 DEF CallsInv
<1>13. ObjectsMatchSessions'
  <2>1. \A u \in Tasks : task[u].step = "remove" => task'[u] = task[u]
    BY <1>4, <1>7
  <2>2. \A s \in SessionIds : signals'[s].new > 0 /\ SessionExists(s)' => s \in objects'
    BY <1>1, <1>4, <1>6, <1>8, <1>9 DEF ObjectsMatchSessions
  <2>3. \A s \in SessionIds : signals'[s].new <= 1 /\ signals'[s].removed <= 1
    BY <1>1, <1>5, <1>9 DEF ObjectsMatchSessions
  <2>4. QED BY <1>1, <1>4, <1>8, <2>1, <2>2, <2>3 DEF ObjectsMatchSessions
<1>14. WatcherInv'
  BY <1>1, <1>4, <1>7, WatcherFrame
<1>15. QED BY <1>10, <1>11, <1>12, <1>13, <1>14 DEF LogindInv, SessionInv

\* The record goes, for good.
LEMMA ReleaseSessionInv ==
  ASSUME LogindInv, NEW t \in Tasks, NEW a \in SessionIds, ReleaseSession(t, a)
  PROVE  LogindInv'
<1>1. LogindTypeOK /\ RecordInv /\ CallsInv /\ ObjectsMatchSessions /\ WatcherInv
  BY DEF LogindInv, SessionInv
<1>2. /\ task[t] = Idle /\ SessionExists(a)
      /\ sessions' = [sessions EXCEPT ![a] = NoSession]
      /\ task' = [task EXCEPT ![t] = [step |-> "remove", arg |-> a, pid |-> 0]]
      /\ overtaken' = overtaken \cup {r \in {a} : \E u \in Tasks : Serving(u, r)}
      /\ nextSession' = nextSession /\ objects' = objects /\ inhibitorVars' = inhibitorVars
      /\ signals' = signals
  BY DEF ReleaseSession
<1>3. a \in Nat /\ a < nextSession /\ signals[a].removed = 0
  <2>1. ~(a >= nextSession) /\ ~(signals[a].removed > 0)
    BY <1>1, <1>2 DEF RecordInv, CallsInv
  <2>2. a \in Nat /\ nextSession \in Nat /\ signals[a].removed \in Nat
    BY <1>1, LogindAssumption DEF LogindTypeOK, SessionIds
  <2>3. QED BY <2>1, <2>2
<1>4. /\ task' \in [Tasks -> [step : Steps, arg : Nat, pid : Pids \cup {0}]]
      /\ task[t].step = "idle" /\ task'[t].step = "remove" /\ task'[t].arg = a
      /\ \A u \in Tasks : u # t => task'[u] = task[u]
  <2>1. "remove" \in Steps /\ 0 \in Pids \cup {0}
    BY DEF Steps
  <2>2. QED BY <1>1, <1>2, <1>3, <2>1, StartTask
<1>5. overtaken \subseteq overtaken' /\ overtaken' \subseteq overtaken \cup {a}
  BY <1>2
<1>6. /\ sessions'[a] = NoSession
      /\ \A s \in SessionIds : s # a => sessions'[s] = sessions[s]
  BY <1>1, <1>2 DEF LogindTypeOK
<1>7. ~SessionExists(a)' /\ \A s \in SessionIds : s # a => (SessionExists(s)' <=> SessionExists(s))
  BY <1>6 DEF SessionExists
<1>8. LogindTypeOK'
  <2>1. NoSession \in [leader : Pids \cup {0}, idle : BOOLEAN]
    BY DEF NoSession
  <2>2. sessions' \in [SessionIds -> [leader : Pids \cup {0}, idle : BOOLEAN]]
    BY <1>1, <1>2, <2>1 DEF LogindTypeOK
  <2>3. QED BY <1>1, <1>2, <1>4, <1>5, <2>2 DEF LogindTypeOK, inhibitorVars
<1>9. RecordInv'
  BY <1>1, <1>2, <1>6, <1>7 DEF RecordInv
<1>10. CallsInv'
  <2>1. ASSUME NEW u \in Tasks, task'[u].step \in Creating
        PROVE  CreatingOK(u)'
    <3>1. task'[u] = task[u] /\ CreatingOK(u)
      BY <1>1, <1>4, <2>1 DEF CallsInv, Creating
    <3>2. task[u].step = "at" /\ task[u].arg = a => a \in overtaken'
      BY <1>2 DEF Serving
    <3>3. QED BY <1>2, <1>5, <1>6, <1>7, <3>1, <3>2 DEF CreatingOK
  <2>2. ASSUME NEW u \in Tasks, task'[u].step \in Releasing
        PROVE  ReleasingOK(u)'
    <3>1. CASE u = t
      BY <1>2, <1>3, <1>4, <1>7, <3>1 DEF ReleasingOK
    <3>2. CASE u # t
      <4>1. task'[u] = task[u] /\ ReleasingOK(u)
        BY <1>1, <1>4, <2>2, <3>2 DEF CallsInv
      <4>2. QED BY <1>2, <1>7, <4>1 DEF ReleasingOK
    <3>3. QED BY <3>1, <3>2
  <2>3. ASSUME NEW u \in Tasks, NEW v \in Tasks, SameSignal(u, v)'
        PROVE  u = v
    <3>1. \A w \in Tasks : task[w].step \in Releasing => task[w].arg # a
      BY <1>1, <1>2 DEF CallsInv, ReleasingOK
    <3>2. CASE u # t /\ v # t
      <4>1. SameSignal(u, v)
        BY <1>4, <2>3, <3>2 DEF SameSignal
      <4>2. QED BY <1>1, <4>1 DEF CallsInv
    <3>3. CASE u = t \/ v = t
      BY <1>4, <2>3, <3>1, <3>3 DEF SameSignal, Releasing
    <3>4. QED BY <3>2, <3>3
  <2>4. QED BY <1>1, <1>2, <1>7, <2>1, <2>2, <2>3 DEF CallsInv
<1>11. ObjectsMatchSessions'
  <2>1. \A u \in Tasks : task[u].step = "remove" => task'[u] = task[u]
    BY <1>4
  <2>2. \A s \in objects : s \in SessionIds
    BY <1>1 DEF LogindTypeOK
  <2>3. ASSUME NEW s \in objects
        PROVE  \/ SessionExists(s)'
               \/ s \in overtaken'
               \/ \E u \in Tasks : task'[u].step = "remove" /\ task'[u].arg = s
    <3>1. CASE s = a
      BY <1>4, <3>1
    <3>2. CASE s # a
      BY <1>1, <1>5, <1>7, <2>1, <2>2, <3>2 DEF ObjectsMatchSessions
    <3>3. QED BY <3>1, <3>2
  <2>4. QED BY <1>1, <1>2, <1>7, <2>3 DEF ObjectsMatchSessions
<1>12. WatcherInv'
  BY <1>1, <1>2, <1>4, WatcherFrame
<1>13. QED BY <1>8, <1>9, <1>10, <1>11, <1>12 DEF LogindInv, SessionInv

\* The object goes after its record.
LEMMA UnserveSessionInv ==
  ASSUME LogindInv, NEW t \in Tasks, UnserveSession(t)
  PROVE  LogindInv'
<1>1. LogindTypeOK /\ RecordInv /\ CallsInv /\ ObjectsMatchSessions /\ WatcherInv
  BY DEF LogindInv, SessionInv
<1>2. PICK a : a = task[t].arg
  OBVIOUS
<1>3. /\ task[t].step = "remove" /\ objects' = objects \ {a} /\ Goto(t, "removed")
      /\ sessions' = sessions /\ nextSession' = nextSession /\ signals' = signals
      /\ overtaken' = overtaken /\ inhibitorVars' = inhibitorVars
  BY <1>2 DEF UnserveSession
<1>4. ReleasingOK(t) /\ ~SessionExists(a)
  BY <1>1, <1>2, <1>3 DEF CallsInv, ReleasingOK, Releasing
<1>5. /\ task' \in [Tasks -> [step : Steps, arg : Nat, pid : Pids \cup {0}]]
      /\ task'[t].step = "removed" /\ task'[t].arg = a
      /\ \A u \in Tasks : u # t => task'[u] = task[u]
  <2>1. "removed" \in Steps
    BY DEF Steps
  <2>2. QED BY <1>1, <1>2, <1>3, <2>1, GotoTask
<1>6. \A s : SessionExists(s)' <=> SessionExists(s)
  BY <1>3 DEF SessionExists
<1>7. LogindTypeOK'
  BY <1>1, <1>3, <1>5 DEF LogindTypeOK, inhibitorVars
<1>8. RecordInv'
  BY <1>1, <1>3, <1>6 DEF RecordInv
<1>9. CallsInv'
  <2>1. ASSUME NEW u \in Tasks, task'[u].step \in Creating
        PROVE  CreatingOK(u)'
    <3>1. task'[u] = task[u] /\ CreatingOK(u)
      BY <1>1, <1>5, <2>1 DEF CallsInv, Creating
    <3>2. SessionExists(task[u].arg) => task[u].arg # a
      BY <1>4
    <3>3. QED BY <1>3, <1>6, <3>1, <3>2 DEF CreatingOK
  <2>2. ASSUME NEW u \in Tasks, task'[u].step \in Releasing
        PROVE  ReleasingOK(u)'
    <3>1. task'[u].arg = task[u].arg /\ ReleasingOK(u)
      BY <1>1, <1>2, <1>4, <1>5, <2>2 DEF CallsInv
    <3>2. QED BY <1>3, <1>6, <3>1 DEF ReleasingOK
  <2>3. ASSUME NEW u \in Tasks, NEW v \in Tasks, SameSignal(u, v)'
        PROVE  u = v
    <3>1. SameSignal(u, v)
      BY <1>2, <1>3, <1>5, <2>3 DEF SameSignal, Releasing
    <3>2. QED BY <1>1, <3>1 DEF CallsInv
  <2>4. QED BY <1>1, <1>3, <1>6, <2>1, <2>2, <2>3 DEF CallsInv
<1>10. ObjectsMatchSessions'
  <2>1. \A u \in Tasks : task[u].step = "remove" /\ task[u].arg # a => task'[u] = task[u]
    BY <1>2, <1>5
  <2>2. \A s \in objects' :
          \/ SessionExists(s)'
          \/ s \in overtaken'
          \/ \E u \in Tasks : task'[u].step = "remove" /\ task'[u].arg = s
    BY <1>1, <1>3, <1>6, <2>1 DEF ObjectsMatchSessions
  <2>3. QED BY <1>1, <1>3, <1>4, <1>6, <2>2 DEF ObjectsMatchSessions
<1>11. WatcherInv'
  BY <1>1, <1>3, <1>5, WatcherFrame
<1>12. QED BY <1>7, <1>8, <1>9, <1>10, <1>11 DEF LogindInv, SessionInv

\* The removal is announced.
LEMMA AnnounceRemovedInv ==
  ASSUME LogindInv, NEW t \in Tasks, AnnounceRemoved(t)
  PROVE  LogindInv'
<1>1. LogindTypeOK /\ RecordInv /\ CallsInv /\ ObjectsMatchSessions /\ WatcherInv
  BY DEF LogindInv, SessionInv
<1>2. PICK a : a = task[t].arg
  OBVIOUS
<1>3. /\ task[t].step = "removed" /\ Finish(t)
      /\ signals' = [signals EXCEPT ![a].removed = @ + 1] \/ signals' = signals
      /\ sessions' = sessions /\ nextSession' = nextSession /\ objects' = objects
      /\ overtaken' = overtaken /\ inhibitorVars' = inhibitorVars
  BY <1>2 DEF AnnounceRemoved, sessionVars
<1>4. /\ ReleasingOK(t) /\ a \in SessionIds /\ a < nextSession /\ ~SessionExists(a)
      /\ signals[a].removed = 0
  BY <1>1, <1>2, <1>3 DEF CallsInv, ReleasingOK, Releasing
<1>5. /\ task' \in [Tasks -> [step : Steps, arg : Nat, pid : Pids \cup {0}]]
      /\ task'[t].step = "idle"
      /\ \A u \in Tasks : u # t => task'[u] = task[u]
  BY <1>1, <1>3, FinishTask
<1>6. \A s : SessionExists(s)' <=> SessionExists(s)
  BY <1>3 DEF SessionExists
<1>7. /\ signals' \in [SessionIds -> [new : Nat, removed : Nat]]
      /\ signals'[a].removed <= 1 /\ signals'[a].new = signals[a].new
      /\ \A s \in SessionIds : s # a => signals'[s] = signals[s]
  <2>1. signals \in [SessionIds -> [new : Nat, removed : Nat]]
    BY <1>1 DEF LogindTypeOK
  <2>2. CASE signals' = signals
    BY <1>4, <2>1, <2>2
  <2>3. CASE signals' = [signals EXCEPT ![a].removed = @ + 1]
    <3>1. /\ DOMAIN signals' = SessionIds /\ signals'[a].removed = 1
          /\ signals'[a] = [signals[a] EXCEPT !.removed = 1]
          /\ \A s \in SessionIds : s # a => signals'[s] = signals[s]
      BY <1>4, <2>1, <2>3
    <3>2. signals'[a] \in [new : Nat, removed : Nat] /\ signals'[a].new = signals[a].new
      BY <1>4, <2>1, <3>1
    <3>3. QED BY <1>4, <2>1, <2>3, <3>1, <3>2
  <2>4. QED BY <1>3, <2>2, <2>3
<1>8. LogindTypeOK'
  BY <1>1, <1>3, <1>5, <1>7 DEF LogindTypeOK, inhibitorVars
<1>9. RecordInv'
  <2>1. ASSUME NEW s \in SessionIds, s >= nextSession
        PROVE  signals'[s] = signals[s]
    <3>1. s # a
      BY <1>1, <1>4, <2>1 DEF LogindTypeOK, SessionIds
    <3>2. QED BY <1>7, <3>1
  <2>2. QED BY <1>1, <1>3, <1>6, <2>1 DEF RecordInv
<1>10. CallsInv'
  <2>1. ASSUME NEW u \in Tasks, task'[u].step \in Creating
        PROVE  CreatingOK(u)'
    <3>1. task'[u] = task[u] /\ CreatingOK(u)
      BY <1>1, <1>5, <2>1 DEF CallsInv, Creating
    <3>2. task[u].arg \in SessionIds => signals'[task[u].arg].new = signals[task[u].arg].new
      BY <1>7
    <3>3. QED BY <1>3, <1>6, <3>1, <3>2 DEF CreatingOK
  <2>2. ASSUME NEW u \in Tasks, task'[u].step \in Releasing
        PROVE  ReleasingOK(u)'
    <3>1. u # t
      BY <1>5, <2>2 DEF Releasing
    <3>2. task'[u] = task[u] /\ ReleasingOK(u)
      BY <1>1, <1>5, <2>2, <3>1 DEF CallsInv
    <3>3. task[u].arg # a
      BY <1>1, <1>2, <1>3, <2>2, <3>1, <3>2 DEF CallsInv, SameSignal, Releasing
    <3>4. QED BY <1>3, <1>6, <1>7, <3>2, <3>3 DEF ReleasingOK
  <2>3. ASSUME NEW u \in Tasks, NEW v \in Tasks, SameSignal(u, v)'
        PROVE  u = v
    <3>1. SameSignal(u, v)
      BY <1>5, <2>3 DEF SameSignal, Releasing
    <3>2. QED BY <1>1, <3>1 DEF CallsInv
  <2>4. \A s \in SessionIds : signals'[s].removed > 0 => ~SessionExists(s)
    BY <1>1, <1>4, <1>7 DEF CallsInv
  <2>5. QED BY <1>6, <2>1, <2>2, <2>3, <2>4 DEF CallsInv
<1>11. ObjectsMatchSessions'
  <2>1. \A u \in Tasks : task[u].step = "remove" => task'[u] = task[u]
    BY <1>3, <1>5
  <2>2. \A s \in SessionIds : signals'[s].new = signals[s].new /\ signals'[s].removed <= 1
    BY <1>1, <1>7 DEF ObjectsMatchSessions
  <2>3. QED BY <1>1, <1>3, <1>6, <2>1, <2>2 DEF ObjectsMatchSessions
<1>12. WatcherInv'
  BY <1>1, <1>3, <1>5, WatcherFrame
<1>13. QED BY <1>8, <1>9, <1>10, <1>11, <1>12 DEF LogindInv, SessionInv

\* The idle hint changes no id.
LEMMA SetIdleHintInv ==
  ASSUME LogindInv, NEW a \in SessionIds, NEW idle \in Hints, SetIdleHint(a, idle)
  PROVE  LogindInv'
<1>1. LogindTypeOK /\ RecordInv /\ CallsInv /\ ObjectsMatchSessions /\ WatcherInv
  BY DEF LogindInv, SessionInv
<1>2. /\ SessionExists(a)
      /\ sessions' = [sessions EXCEPT ![a].idle = idle]
      /\ nextSession' = nextSession /\ objects' = objects /\ inhibitorVars' = inhibitorVars
      /\ task' = task /\ signals' = signals /\ overtaken' = overtaken
  BY DEF SetIdleHint
<1>3. sessions' \in [SessionIds -> [leader : Pids \cup {0}, idle : BOOLEAN]]
  BY <1>1, <1>2, LogindAssumption DEF LogindTypeOK
<1>4. /\ sessions'[a].leader = sessions[a].leader
      /\ \A s \in SessionIds : s # a => sessions'[s] = sessions[s]
  BY <1>1, <1>2 DEF LogindTypeOK
<1>5. sessions[a].leader # 0
  BY <1>1, <1>2 DEF RecordInv
<1>6. \A s : SessionExists(s)' <=> SessionExists(s)
  <2>1. sessions'[a] # NoSession
    BY <1>4, <1>5 DEF NoSession
  <2>2. QED BY <1>2, <1>4, <2>1 DEF SessionExists
<1>7. \A s \in SessionIds : sessions'[s].leader = sessions[s].leader
  BY <1>4
<1>8. LogindTypeOK'
  BY <1>1, <1>2, <1>3 DEF LogindTypeOK, inhibitorVars
<1>9. RecordInv'
  BY <1>1, <1>2, <1>6, <1>7 DEF RecordInv
<1>10. CallsInv'
  <2>1. ASSUME NEW u \in Tasks, task[u].step \in Creating
        PROVE  CreatingOK(u)'
    <3>1. CreatingOK(u)
      BY <1>1, <2>1 DEF CallsInv
    <3>2. QED BY <1>2, <1>6, <1>7, <3>1 DEF CreatingOK
  <2>2. QED BY <1>1, <1>2, <1>6, <2>1 DEF CallsInv, ReleasingOK, SameSignal
<1>11. ObjectsMatchSessions'
  BY <1>1, <1>2, <1>6 DEF ObjectsMatchSessions
<1>12. WatcherInv'
  BY <1>1, <1>2, WatcherFrame
<1>13. QED BY <1>8, <1>9, <1>10, <1>11, <1>12 DEF LogindInv, SessionInv

\* A reply ends the call.
LEMMA AnyReplyInv ==
  ASSUME LogindInv, NEW t \in Tasks, AnyReply(t)
  PROVE  LogindInv'
<1>1. LogindTypeOK /\ SessionInv /\ WatcherInv
  BY DEF LogindInv
<1>2. /\ task[t].step \in {"created", "refused"} /\ Finish(t)
      /\ UNCHANGED <<sessionVars, signals, overtaken>> /\ UNCHANGED inhibitorVars
  BY DEF AnyReply
<1>3. /\ task' \in [Tasks -> [step : Steps, arg : Nat, pid : Pids \cup {0}]]
      /\ task'[t].step = "idle"
      /\ \A u \in Tasks : u # t => task'[u] = task[u]
  BY <1>1, <1>2, FinishTask
<1>4. LogindTypeOK'
  BY <1>1, <1>2, <1>3 DEF LogindTypeOK, sessionVars, inhibitorVars
<1>5. SessionInv'
  <2>1. "idle" \notin Creating \cup Releasing
    BY DEF Creating, Releasing
  <2>2. QED BY <1>1, <1>2, <1>3, <2>1, SessionFrame
<1>6. WatcherInv'
  BY <1>1, <1>2, <1>3, WatcherFrame
<1>7. QED BY <1>4, <1>5, <1>6 DEF LogindInv

------------------------------------------------------------------------------
\* Inhibitors

\* A new lock and its pipe.
LEMMA InhibitInv ==
  ASSUME LogindInv, NEW t \in Tasks, NEW mode \in Modes, Inhibit(t, mode)
  PROVE  LogindInv'
<1>1. LogindTypeOK /\ SessionInv /\ WatcherInv
  BY DEF LogindInv
<1>2. PICK n : n = nextInhibitor
  OBVIOUS
<1>3. /\ task[t] = Idle
      /\ inhibitors' = [inhibitors EXCEPT ![n] = [mode |-> mode]]
      /\ nextInhibitor' = n + 1
      /\ \/ /\ open' = open \cup {n}
            /\ task' = [task EXCEPT ![t] = [step |-> "register", arg |-> n, pid |-> 0]]
         \/ open' = open /\ task' = task
      /\ UNCHANGED <<sessionVars, signals, overtaken>>
      /\ pending' = pending /\ wakeByte' = wakeByte /\ fds' = fds /\ watcher' = watcher
  BY <1>2 DEF Inhibit
<1>4. n \in InhibitorIds /\ n \in Nat
  BY <1>1, <1>2, LogindAssumption DEF LogindTypeOK, InhibitorIds, Inhibit
<1>5. /\ task' \in [Tasks -> [step : Steps, arg : Nat, pid : Pids \cup {0}]]
      /\ task[t].step = "idle"
      /\ task'[t] = task[t] \/ (task'[t].step = "register" /\ task'[t].arg = n)
      /\ \A u \in Tasks : u # t => task'[u] = task[u]
  <2>1. "register" \in Steps /\ 0 \in Pids \cup {0} /\ task[t].step = "idle"
    BY <1>3 DEF Steps, Idle
  <2>2. CASE task' = [task EXCEPT ![t] = [step |-> "register", arg |-> n, pid |-> 0]]
    BY <1>1, <1>3, <1>4, <2>1, <2>2, StartTask
  <2>3. CASE task' = task
    BY <1>1, <2>1, <2>3 DEF LogindTypeOK
  <2>4. QED BY <1>3, <2>2, <2>3
<1>6. LogindTypeOK'
  <2>1. inhibitors' \in [InhibitorIds -> [mode : Modes \cup {"none"}]]
    BY <1>1, <1>3, <1>4 DEF LogindTypeOK
  <2>2. nextInhibitor' \in 1..(MaxInhibitors + 1) /\ open' \subseteq InhibitorIds
    BY <1>1, <1>3, <1>4, LogindAssumption DEF LogindTypeOK, InhibitorIds
  <2>3. QED BY <1>1, <1>3, <1>5, <2>1, <2>2 DEF LogindTypeOK, sessionVars
<1>7. SessionInv'
  <2>1. "register" \notin Creating \cup Releasing
    BY DEF Creating, Releasing
  <2>2. QED BY <1>1, <1>3, <1>5, <2>1, SessionFrame
<1>8. WatcherInv'
  <2>1. pending \cup watcher.batch \cup fds \cup open \subseteq InhibitorIds
    BY <1>1 DEF LogindTypeOK
  <2>2. ASSUME NEW i \in InhibitorIds, i < n
        PROVE  i < n + 1 /\ i # n
    BY <1>4, <2>2 DEF InhibitorIds
  <2>3. n \notin fds
    BY <1>1, <1>2, <2>1, <2>2 DEF WatcherInv
  <2>4. \A i \in pending' \cup watcher'.batch \cup fds' \cup open' : i < n + 1
    <3>1. n < n + 1
      BY <1>4
    <3>2. \A i \in pending \cup watcher.batch \cup fds \cup open : i < n + 1
      BY <1>1, <1>2, <2>1, <2>2 DEF WatcherInv
    <3>3. open' \subseteq open \cup {n}
      BY <1>3
    <3>4. QED BY <1>3, <3>1, <3>2, <3>3
  <2>5. \A u \in Tasks : task'[u].step \in {"register", "wake"} =>
          task'[u].arg \in InhibitorIds /\ task'[u].arg < n + 1
    <3>1. n < n + 1
      BY <1>4
    <3>2. \A u \in Tasks : task[u].step \in {"register", "wake"} =>
            task[u].arg \in InhibitorIds /\ task[u].arg < n + 1
      BY <1>1, <1>2, <2>2 DEF WatcherInv
    <3>3. QED BY <1>4, <1>5, <3>1, <3>2
  <2>6. \A i \in watcher.events : i # Wake => i \in fds /\ i \notin open'
    BY <1>1, <1>3, <2>3 DEF WatcherInv
  <2>7. QED BY <1>1, <1>3, <2>4, <2>5, <2>6 DEF WatcherInv
<1>9. QED BY <1>6, <1>7, <1>8 DEF LogindInv

\* The lock is queued for the watcher.
LEMMA RegisterPushInv ==
  ASSUME LogindInv, NEW t \in Tasks, RegisterPush(t)
  PROVE  LogindInv'
<1>1. LogindTypeOK /\ SessionInv /\ WatcherInv
  BY DEF LogindInv
<1>2. /\ task[t].step = "register" /\ pending' = pending \cup {task[t].arg} /\ Goto(t, "wake")
      /\ UNCHANGED <<sessionVars, signals, overtaken>>
      /\ inhibitors' = inhibitors /\ nextInhibitor' = nextInhibitor /\ wakeByte' = wakeByte
      /\ fds' = fds /\ watcher' = watcher /\ open' = open
  BY DEF RegisterPush
<1>3. /\ task' \in [Tasks -> [step : Steps, arg : Nat, pid : Pids \cup {0}]]
      /\ task'[t].step = "wake" /\ task'[t].arg = task[t].arg
      /\ \A u \in Tasks : u # t => task'[u] = task[u]
  <2>1. "wake" \in Steps
    BY DEF Steps
  <2>2. QED BY <1>1, <1>2, <2>1, GotoTask
<1>4. task[t].arg \in InhibitorIds /\ task[t].arg < nextInhibitor
  BY <1>1, <1>2 DEF WatcherInv
<1>5. LogindTypeOK'
  BY <1>1, <1>2, <1>3, <1>4 DEF LogindTypeOK, sessionVars
<1>6. SessionInv'
  <2>1. "wake" \notin Creating \cup Releasing
    BY DEF Creating, Releasing
  <2>2. QED BY <1>1, <1>2, <1>3, <2>1, SessionFrame
<1>7. WatcherInv'
  BY <1>1, <1>2, <1>3, <1>4 DEF WatcherInv
<1>8. QED BY <1>5, <1>6, <1>7 DEF LogindInv

\* The watcher is woken.
LEMMA RegisterWakeInv ==
  ASSUME LogindInv, NEW t \in Tasks, RegisterWake(t)
  PROVE  LogindInv'
<1>1. LogindTypeOK /\ SessionInv /\ WatcherInv
  BY DEF LogindInv
<1>2. /\ task[t].step = "wake" /\ wakeByte' = TRUE /\ Finish(t)
      /\ UNCHANGED <<sessionVars, signals, overtaken>>
      /\ inhibitors' = inhibitors /\ nextInhibitor' = nextInhibitor /\ pending' = pending
      /\ fds' = fds /\ watcher' = watcher /\ open' = open
  BY DEF RegisterWake
<1>3. /\ task' \in [Tasks -> [step : Steps, arg : Nat, pid : Pids \cup {0}]]
      /\ task'[t].step = "idle"
      /\ \A u \in Tasks : u # t => task'[u] = task[u]
  BY <1>1, <1>2, FinishTask
<1>4. LogindTypeOK'
  BY <1>1, <1>2, <1>3 DEF LogindTypeOK, sessionVars
<1>5. SessionInv'
  <2>1. "idle" \notin Creating \cup Releasing
    BY DEF Creating, Releasing
  <2>2. QED BY <1>1, <1>2, <1>3, <2>1, SessionFrame
<1>6. WatcherInv'
  BY <1>1, <1>2, <1>3 DEF WatcherInv
<1>7. QED BY <1>4, <1>5, <1>6 DEF LogindInv

\* The holder lets go.
LEMMA CloseHandleInv ==
  ASSUME LogindInv, NEW i \in InhibitorIds, CloseHandle(i)
  PROVE  LogindInv'
<1>1. LogindTypeOK /\ SessionInv /\ WatcherInv
  BY DEF LogindInv
<1>2. /\ open' = open \ {i} /\ UNCHANGED <<sessionVars, signals, overtaken>>
      /\ inhibitors' = inhibitors /\ nextInhibitor' = nextInhibitor /\ task' = task
      /\ pending' = pending /\ wakeByte' = wakeByte /\ fds' = fds /\ watcher' = watcher
  BY DEF CloseHandle
<1>3. LogindTypeOK'
  BY <1>1, <1>2 DEF LogindTypeOK, sessionVars
<1>4. SessionInv'
  BY <1>1, <1>2, SessionFrame
<1>5. WatcherInv'
  BY <1>1, <1>2 DEF WatcherInv
<1>6. QED BY <1>3, <1>4, <1>5 DEF LogindInv

\* The watcher takes the queue.
LEMMA DrainPendingInv ==
  ASSUME LogindInv, DrainPending
  PROVE  LogindInv'
<1>1. LogindTypeOK /\ SessionInv /\ WatcherInv
  BY DEF LogindInv
<1>2. /\ watcher' = [watcher EXCEPT !.at = "add", !.batch = pending] /\ pending' = {}
      /\ UNCHANGED <<sessionVars, signals, overtaken>>
      /\ inhibitors' = inhibitors /\ nextInhibitor' = nextInhibitor /\ task' = task
      /\ wakeByte' = wakeByte /\ fds' = fds /\ open' = open
  BY DEF DrainPending
<1>3. watcher'.at = "add" /\ watcher'.batch = pending /\ watcher'.events = watcher.events
  BY <1>1, <1>2 DEF LogindTypeOK
<1>4. LogindTypeOK'
  BY <1>1, <1>2 DEF LogindTypeOK, sessionVars
<1>5. SessionInv'
  BY <1>1, <1>2, SessionFrame
<1>6. WatcherInv'
  BY <1>1, <1>2, <1>3 DEF WatcherInv
<1>7. QED BY <1>4, <1>5, <1>6 DEF LogindInv

\* The watcher watches one more pipe, or cannot.
LEMMA AddToEpollInv ==
  ASSUME LogindInv, NEW i \in InhibitorIds, AddToEpoll(i)
  PROVE  LogindInv'
<1>1. LogindTypeOK /\ SessionInv /\ WatcherInv
  BY DEF LogindInv
<1>2. /\ watcher.at = "add" /\ i \in watcher.batch
      /\ watcher' = [watcher EXCEPT !.batch = @ \ {i}]
      /\ fds' = fds \cup {i} \/ fds' = fds
      /\ UNCHANGED <<sessionVars, signals, overtaken>>
      /\ inhibitors' = inhibitors /\ nextInhibitor' = nextInhibitor /\ task' = task
      /\ wakeByte' = wakeByte /\ pending' = pending /\ open' = open
  BY DEF AddToEpoll
<1>3. watcher'.at = "add" /\ watcher'.batch = watcher.batch \ {i} /\ watcher'.events = watcher.events
  BY <1>1, <1>2 DEF LogindTypeOK
<1>4. LogindTypeOK'
  BY <1>1, <1>2 DEF LogindTypeOK, sessionVars
<1>5. SessionInv'
  BY <1>1, <1>2, SessionFrame
<1>6. WatcherInv'
  BY <1>1, <1>2, <1>3 DEF WatcherInv
<1>7. QED BY <1>4, <1>5, <1>6 DEF LogindInv

\* The watcher gets a batch of events.
LEMMA EpollWaitInv ==
  ASSUME LogindInv, EpollWait
  PROVE  LogindInv'
<1>1. LogindTypeOK /\ SessionInv /\ WatcherInv
  BY DEF LogindInv
<1>2. PICK events \in SUBSET Ready : watcher' = [watcher EXCEPT !.at = "handle", !.events = events]
  BY DEF EpollWait
<1>3. /\ watcher.batch = {} /\ UNCHANGED <<sessionVars, signals, overtaken>>
      /\ inhibitors' = inhibitors /\ nextInhibitor' = nextInhibitor /\ task' = task
      /\ pending' = pending /\ wakeByte' = wakeByte /\ fds' = fds /\ open' = open
  BY DEF EpollWait
<1>4. \A i \in events : i = Wake \/ (i \in fds /\ i \notin open)
  BY <1>2 DEF Ready
<1>5. watcher'.at = "handle" /\ watcher'.batch = watcher.batch /\ watcher'.events = events
  BY <1>1, <1>2 DEF LogindTypeOK
<1>6. LogindTypeOK'
  <2>1. events \subseteq InhibitorIds \cup {Wake}
    BY <1>1, <1>4 DEF LogindTypeOK
  <2>2. QED BY <1>1, <1>2, <1>3, <2>1 DEF LogindTypeOK, sessionVars
<1>7. SessionInv'
  BY <1>1, <1>3, SessionFrame
<1>8. WatcherInv'
  BY <1>1, <1>3, <1>4, <1>5 DEF WatcherInv
<1>9. QED BY <1>6, <1>7, <1>8 DEF LogindInv

\* The watcher handles one event.
LEMMA HandleEventInv ==
  ASSUME LogindInv, NEW e \in InhibitorIds \cup {Wake}, HandleEvent(e)
  PROVE  LogindInv'
<1>1. LogindTypeOK /\ SessionInv /\ WatcherInv
  BY DEF LogindInv
<1>2. /\ watcher.at = "handle" /\ e \in watcher.events
      /\ watcher' = [watcher EXCEPT !.events = @ \ {e},
                                    !.at = IF watcher.events = {e} THEN "drain" ELSE @]
      /\ UNCHANGED <<sessionVars, signals, overtaken>>
      /\ nextInhibitor' = nextInhibitor /\ task' = task /\ pending' = pending /\ open' = open
  BY DEF HandleEvent
<1>3. /\ watcher'.at # "add" /\ watcher'.batch = watcher.batch
      /\ watcher'.events = watcher.events \ {e}
      /\ watcher' \in [at : {"drain", "add", "handle"}, batch : SUBSET InhibitorIds,
                       events : SUBSET (InhibitorIds \cup {Wake})]
  BY <1>1, <1>2 DEF LogindTypeOK
<1>4. /\ wakeByte' \in BOOLEAN
      /\ inhibitors' \in [InhibitorIds -> [mode : Modes \cup {"none"}]]
      /\ fds' \subseteq fds /\ \A i \in fds : i # e => i \in fds'
  <2>1. CASE e = Wake
    BY <1>1, <2>1 DEF HandleEvent, DrainWakePipe, LogindTypeOK
  <2>2. CASE e # Wake
    <3>1. e \in InhibitorIds /\ NoInhibitor \in [mode : Modes \cup {"none"}]
      BY <2>2 DEF NoInhibitor
    <3>2. QED BY <1>1, <2>2, <3>1 DEF HandleEvent, Release, LogindTypeOK
  <2>3. QED BY <2>1, <2>2
<1>5. LogindTypeOK'
  BY <1>1, <1>2, <1>3, <1>4 DEF LogindTypeOK, sessionVars
<1>6. SessionInv'
  BY <1>1, <1>2, SessionFrame
<1>7. WatcherInv'
  <2>1. \A i \in watcher'.events : i # Wake => i \in fds' /\ i \notin open'
    BY <1>1, <1>2, <1>3, <1>4 DEF WatcherInv
  <2>2. watcher'.batch = {}
    BY <1>1, <1>2, <1>3 DEF WatcherInv
  <2>3. QED BY <1>1, <1>2, <1>4, <2>1, <2>2 DEF WatcherInv
<1>8. QED BY <1>5, <1>6, <1>7 DEF LogindInv

------------------------------------------------------------------------------
\* The whole daemon

\* Each of the daemon's own steps keeps the invariant.
LEMMA LogindStep ==
  ASSUME LogindInv, LogindNext
  PROVE  LogindInv'
<1>1. CASE Watch
  BY <1>1, DrainPendingInv, AddToEpollInv, EpollWaitInv, HandleEventInv DEF Watch
<1>2. ASSUME NEW t \in Tasks, Resume(t)
      PROVE  LogindInv'
  BY <1>2, ServeSessionInv, AnnounceSessionInv, UnserveSessionInv, AnnounceRemovedInv,
     RegisterPushInv, RegisterWakeInv DEF Resume
<1>3. CASE ClientCall
  BY <1>3, ReleaseSessionInv, SetIdleHintInv, InhibitInv, CloseHandleInv DEF ClientCall
<1>4. QED BY <1>1, <1>2, <1>3 DEF LogindNext

\* An idle step keeps the invariant.
LEMMA LogindStutter ==
  ASSUME LogindInv, UNCHANGED logindVars
  PROVE  LogindInv'
<1>1. /\ UNCHANGED <<sessionVars, signals, overtaken>> /\ UNCHANGED inhibitorVars
      /\ task' = task
  BY DEF logindVars
<1>2. LogindTypeOK'
  BY <1>1 DEF LogindInv, LogindTypeOK, sessionVars, inhibitorVars
<1>3. SessionInv'
  BY <1>1, SessionFrame DEF LogindInv
<1>4. WatcherInv'
  BY <1>1, WatcherFrame DEF LogindInv
<1>5. QED BY <1>2, <1>3, <1>4 DEF LogindInv

\* The inductive invariant holds in every reachable state.
THEOREM LogindInvariance == LogindSpec => []LogindInv
<1>1. LogindInit => LogindInv
  BY LogindInitInv
<1>2. LogindInv /\ [LogindNext \/ AnyCreate \/ \E t \in Tasks : AnyReply(t)]_logindVars => LogindInv'
  BY LogindStep, CreateSessionInv, AnyReplyInv, LogindStutter DEF AnyCreate
<1>3. QED BY <1>1, <1>2, PTL DEF LogindSpec

\* However the calls of several clients interleave at their awaits, and
\* whatever fails, the objects on the bus follow the session records
\* (manager.rs, create_session and release_session).
THEOREM ObjectsCorrect == LogindSpec => []ObjectsMatchSessions
<1>1. LogindInv => ObjectsMatchSessions
  BY DEF LogindInv, SessionInv
<1>2. QED BY <1>1, LogindInvariance, PTL

------------------------------------------------------------------------------
\* Released sessions

\* Only CreateSession makes a record, and for a fresh id.
LEMMA RecordStep ==
  ASSUME LogindInv, [LogindNext \/ AnyCreate \/ \E t \in Tasks : AnyReply(t)]_logindVars,
         NEW s \in SessionIds, s < nextSession, ~SessionExists(s)
  PROVE  ~SessionExists(s)'
<1>1. sessions[s] = NoSession /\ LogindTypeOK
  BY DEF SessionExists, LogindInv
<1>2. sessions' = sessions => ~SessionExists(s)'
  BY <1>1 DEF SessionExists
<1>3. CASE UNCHANGED logindVars
  BY <1>2, <1>3 DEF logindVars, sessionVars
<1>4. CASE Watch
  BY <1>2, <1>4 DEF Watch, DrainPending, AddToEpoll, EpollWait, HandleEvent, sessionVars
<1>5. ASSUME NEW t \in Tasks, Resume(t)
      PROVE  ~SessionExists(s)'
  BY <1>2, <1>5 DEF Resume, ServeSession, AnnounceSession, UnserveSession, AnnounceRemoved,
     RegisterPush, RegisterWake, sessionVars
<1>6. ASSUME NEW t \in Tasks, NEW a \in SessionIds, ReleaseSession(t, a)
      PROVE  ~SessionExists(s)'
  BY <1>1, <1>6 DEF ReleaseSession, SessionExists, LogindTypeOK
<1>7. ASSUME NEW a \in SessionIds, NEW idle \in Hints, SetIdleHint(a, idle)
      PROVE  ~SessionExists(s)'
  <2>1. s # a
    BY <1>7 DEF SetIdleHint
  <2>2. QED BY <1>1, <1>7, <2>1 DEF SetIdleHint, SessionExists, LogindTypeOK
<1>8. ASSUME NEW t \in Tasks, NEW mode \in Modes, Inhibit(t, mode)
      PROVE  ~SessionExists(s)'
  BY <1>2, <1>8 DEF Inhibit, sessionVars
<1>9. ASSUME NEW i \in InhibitorIds, CloseHandle(i)
      PROVE  ~SessionExists(s)'
  BY <1>2, <1>9 DEF CloseHandle, sessionVars
<1>10. ASSUME NEW t \in Tasks, NEW p \in Pids, CreateSession(t, p)
       PROVE  ~SessionExists(s)'
  <2>1. s # nextSession
    BY <1>1 DEF LogindTypeOK, SessionIds
  <2>2. QED BY <1>1, <1>10, <2>1 DEF CreateSession, SessionExists, LogindTypeOK
<1>11. ASSUME NEW t \in Tasks, AnyReply(t)
       PROVE  ~SessionExists(s)'
  BY <1>2, <1>11 DEF AnyReply, sessionVars
<1>12. QED
  BY <1>3, <1>4, <1>5, <1>6, <1>7, <1>8, <1>9, <1>10, <1>11 DEF LogindNext, ClientCall, AnyCreate

\* No id is reused, and no call on a stale object revives a session (state.rs,
\* allocate_session_id; session.rs, set_idle_hint).
THEOREM ReleasedCorrect == LogindSpec => ReleasedStaysReleased
<1>1. LogindInv /\ [LogindNext \/ AnyCreate \/ \E t \in Tasks : AnyReply(t)]_logindVars
        => [\A s \in SessionIds :
              s < nextSession /\ ~SessionExists(s) => ~SessionExists(s)']_logindVars
  BY RecordStep
<1>2. QED BY <1>1, LogindInvariance, PTL DEF LogindSpec, ReleasedStaysReleased

------------------------------------------------------------------------------
\* Inhibit implements the lock

\* Nothing the lock's stage depends on has moved.
LEMMA LockFrame ==
  ASSUME inhibitors' = inhibitors, nextInhibitor' = nextInhibitor, open' = open,
         \A i \in InhibitorIds : Tracked(i)' <=> Tracked(i)
  PROVE  LockStage' = LockStage
<1>1. \A i \in InhibitorIds : Stage(i)' = Stage(i)
  BY DEF Stage
<1>2. QED BY <1>1 DEF LockStage

\* The queue, the batch and epoll stay, and no task starts or ends registering.
LEMMA TrackedFrame ==
  ASSUME pending' = pending, watcher'.batch = watcher.batch, fds' = fds,
         \A u \in Tasks : \/ task'[u] = task[u]
                          \/ task[u].step # "register" /\ task'[u].step # "register"
  PROVE  \A i \in InhibitorIds : Tracked(i)' <=> Tracked(i)
  BY DEF Tracked

\* One lock moves and the others stay.
LEMMA OneLock ==
  ASSUME NEW i \in InhibitorIds, \A j \in InhibitorIds : j # i => Stage(j)' = Stage(j)
  PROVE  LockStage[i] = Stage(i) /\ LockStage' = [LockStage EXCEPT ![i] = Stage(i)']
  BY DEF LockStage

\* The session methods do not touch a lock.
LEMMA SessionStepLock ==
  ASSUME LogindInv, NEW t \in Tasks,
         \/ \E p \in Pids : CreateSession(t, p)
         \/ ServeSession(t) \/ AnnounceSession(t) \/ UnserveSession(t) \/ AnnounceRemoved(t)
         \/ \E s \in SessionIds : ReleaseSession(t, s)
         \/ AnyReply(t)
  PROVE  LockStage' = LockStage
<1>1. LogindTypeOK
  BY DEF LogindInv
<1>2. UNCHANGED inhibitorVars
  BY DEF CreateSession, ServeSession, AnnounceSession, UnserveSession, AnnounceRemoved,
     ReleaseSession, AnyReply
<1>3. \A u \in Tasks : \/ task'[u] = task[u]
                       \/ task[u].step # "register" /\ task'[u].step # "register"
  <2>1. task[t].step # "register"
    BY DEF CreateSession, ServeSession, AnnounceSession, UnserveSession, AnnounceRemoved,
       ReleaseSession, AnyReply, Idle
  <2>2. ASSUME NEW x \in Steps, x # "register", Goto(t, x)
        PROVE  \A u \in Tasks : task'[u] = task[u] \/ (u = t /\ task'[u].step # "register")
    BY <1>1, <2>2, GotoTask
  <2>3. CASE Finish(t)
    BY <1>1, <2>1, <2>3, FinishTask
  <2>4. ASSUME NEW x \in {"announce", "refused", "created", "removed"}, Goto(t, x)
        PROVE  \A u \in Tasks : task'[u] = task[u] \/ (u = t /\ task'[u].step # "register")
    <3>1. x \in Steps /\ x # "register"
      BY DEF Steps
    <3>2. QED BY <2>2, <2>4, <3>1
  <2>5. CASE ServeSession(t) \/ AnnounceSession(t) \/ UnserveSession(t)
    BY <2>1, <2>4, <2>5 DEF ServeSession, AnnounceSession, UnserveSession
  <2>6. ASSUME NEW x \in {"at", "remove"}, NEW a, NEW p,
               task' = [task EXCEPT ![t] = [step |-> x, arg |-> a, pid |-> p]]
        PROVE  \A u \in Tasks : task'[u] = task[u] \/ (u = t /\ task'[u].step # "register")
    <3>1. task'[t] = [step |-> x, arg |-> a, pid |-> p]
      BY <1>1, <2>6 DEF LogindTypeOK
    <3>2. task'[t].step # "register"
      BY <3>1
    <3>3. QED BY <1>1, <2>6, <3>2 DEF LogindTypeOK
  <2>7. CASE \E p \in Pids : CreateSession(t, p)
    BY <2>1, <2>6, <2>7 DEF CreateSession
  <2>8. CASE \E s \in SessionIds : ReleaseSession(t, s)
    BY <2>1, <2>6, <2>8 DEF ReleaseSession
  <2>9. QED BY <2>3, <2>5, <2>7, <2>8 DEF AnnounceRemoved, AnyReply
<1>4. QED BY <1>2, <1>3, LockFrame, TrackedFrame DEF inhibitorVars

\* A new lock is held, in the abstract too.
LEMMA InhibitMovesLock ==
  ASSUME LogindInv, NEW t \in Tasks, NEW mode \in Modes, Inhibit(t, mode)
  PROVE  Lock!Next
<1>1. LogindTypeOK /\ WatcherInv
  BY DEF LogindInv
<1>2. PICK n : n = nextInhibitor
  OBVIOUS
<1>3. /\ task[t] = Idle
      /\ inhibitors' = [inhibitors EXCEPT ![n] = [mode |-> mode]]
      /\ nextInhibitor' = n + 1
      /\ \/ /\ open' = open \cup {n}
            /\ task' = [task EXCEPT ![t] = [step |-> "register", arg |-> n, pid |-> 0]]
         \/ open' = open /\ task' = task
      /\ pending' = pending /\ fds' = fds /\ watcher' = watcher
  BY <1>2 DEF Inhibit
<1>4. n \in InhibitorIds /\ n \in Nat
  BY <1>1, <1>2, LogindAssumption DEF LogindTypeOK, InhibitorIds, Inhibit
<1>5. /\ inhibitors'[n] = [mode |-> mode]
      /\ \A j \in InhibitorIds : j # n => inhibitors'[j] = inhibitors[j]
  BY <1>1, <1>3, <1>4 DEF LogindTypeOK
<1>6. inhibitors'[n] # NoInhibitor
  BY <1>5 DEF NoInhibitor, Modes
<1>7. ~Tracked(n)
  <2>1. \A i \in InhibitorIds : i < n => i # n
    BY <1>4 DEF InhibitorIds
  <2>2. pending \cup watcher.batch \cup fds \subseteq InhibitorIds
    BY <1>1 DEF LogindTypeOK
  <2>3. QED BY <1>1, <1>2, <2>1, <2>2 DEF Tracked, WatcherInv
<1>8. Stage(n) = "free"
  BY <1>2, <1>4 DEF Stage
<1>9. ASSUME NEW j \in InhibitorIds, j # n, Tracked(j)' <=> Tracked(j)
      PROVE  Stage(j)' = Stage(j)
  <2>1. j >= n + 1 <=> j >= n
    BY <1>4, <1>9 DEF InhibitorIds
  <2>2. j \in open' <=> j \in open
    BY <1>3, <1>9
  <2>3. QED BY <1>2, <1>3, <1>5, <1>9, <2>1, <2>2 DEF Stage
<1>10. ~(n >= n + 1)
  BY <1>4
<1>11. CASE open' = open \cup {n} /\
            task' = [task EXCEPT ![t] = [step |-> "register", arg |-> n, pid |-> 0]]
  <2>1. /\ task[t].step = "idle" /\ task'[t].step = "register" /\ task'[t].arg = n
        /\ \A u \in Tasks : u # t => task'[u] = task[u]
    <3>1. "register" \in Steps /\ 0 \in Pids \cup {0}
      BY DEF Steps
    <3>2. QED BY <1>1, <1>3, <1>4, <1>11, <3>1, StartTask
  <2>2. Tracked(n)' /\ \A j \in InhibitorIds : j # n => (Tracked(j)' <=> Tracked(j))
    BY <1>3, <2>1 DEF Tracked
  <2>3. Stage(n)' = "held"
    BY <1>3, <1>6, <1>10, <1>11, <2>2 DEF Stage
  <2>4. LockStage[n] = "free" /\ LockStage' = [LockStage EXCEPT ![n] = "held"]
    BY <1>4, <1>8, <1>9, <2>2, <2>3, OneLock
  <2>5. QED BY <1>4, <2>4 DEF Lock!Next, Lock!Acquire, Lock!Move
<1>12. CASE open' = open /\ task' = task
  <2>1. \A j \in InhibitorIds : Tracked(j)' <=> Tracked(j)
    BY <1>3, <1>12, TrackedFrame
  <2>2. Stage(n)' = "stuck"
    BY <1>3, <1>4, <1>6, <1>7, <1>10, <2>1 DEF Stage
  <2>3. LockStage[n] = "free" /\ LockStage' = [LockStage EXCEPT ![n] = "stuck"]
    BY <1>4, <1>8, <1>9, <2>1, <2>2, OneLock
  <2>4. QED BY <1>4, <2>3 DEF Lock!Next, Lock!Lose, Lock!Move
<1>13. QED BY <1>3, <1>11, <1>12

\* The way to the watcher is invisible in the abstract.
LEMMA RegisterLock ==
  ASSUME LogindInv, NEW t \in Tasks, RegisterPush(t) \/ RegisterWake(t)
  PROVE  LockStage' = LockStage
<1>1. LogindTypeOK
  BY DEF LogindInv
<1>2. \A i \in InhibitorIds : Tracked(i)' <=> Tracked(i)
  <2>1. CASE RegisterPush(t)
    <3>1. /\ task[t].step = "register" /\ pending' = pending \cup {task[t].arg}
          /\ fds' = fds /\ watcher' = watcher
      BY <2>1 DEF RegisterPush
    <3>2. task'[t].step = "wake" /\ \A u \in Tasks : u # t => task'[u] = task[u]
      <4>1. "wake" \in Steps
        BY DEF Steps
      <4>2. QED BY <1>1, <2>1, <4>1, GotoTask DEF RegisterPush
    <3>3. QED BY <3>1, <3>2 DEF Tracked
  <2>2. CASE RegisterWake(t)
    <3>1. task'[t].step = "idle" /\ \A u \in Tasks : u # t => task'[u] = task[u]
      BY <1>1, <2>2, FinishTask DEF RegisterWake
    <3>2. task[t].step = "wake" /\ pending' = pending /\ fds' = fds /\ watcher' = watcher
      BY <2>2 DEF RegisterWake
    <3>3. QED BY <3>1, <3>2, TrackedFrame
  <2>3. QED BY <2>1, <2>2
<1>3. QED BY <1>2, LockFrame DEF RegisterPush, RegisterWake

\* A lock its holder lets go of is closing.
LEMMA CloseHandleLock ==
  ASSUME LogindInv, NEW i \in InhibitorIds, CloseHandle(i)
  PROVE  [Lock!Next]_LockStage
<1>1. /\ i \in open /\ open' = open \ {i} /\ inhibitors' = inhibitors
      /\ nextInhibitor' = nextInhibitor
      /\ \A j \in InhibitorIds : Tracked(j)' <=> Tracked(j)
  BY DEF CloseHandle, Tracked
<1>2. ~(i >= nextInhibitor)
  <2>1. i < nextInhibitor /\ i \in Nat /\ nextInhibitor \in Nat
    BY <1>1, LogindAssumption DEF LogindInv, WatcherInv, LogindTypeOK, InhibitorIds
  <2>2. QED BY <2>1
<1>3. \A j \in InhibitorIds : j # i => Stage(j)' = Stage(j)
  BY <1>1 DEF Stage
<1>4. Stage(i)' = Stage(i) \/ (Stage(i) = "held" /\ Stage(i)' = "closing")
  BY <1>1, <1>2 DEF Stage
<1>5. LockStage[i] = Stage(i) /\ LockStage' = [LockStage EXCEPT ![i] = Stage(i)']
  BY <1>3, OneLock
<1>6. CASE Stage(i)' = Stage(i)
  <2>1. LockStage' = LockStage
    BY <1>3, <1>6 DEF LockStage
  <2>2. QED BY <2>1
<1>7. CASE Stage(i) = "held" /\ Stage(i)' = "closing"
  BY <1>5, <1>7 DEF Lock!Next, Lock!Close, Lock!Move
<1>8. QED BY <1>4, <1>6, <1>7

\* Taking the queue and asking epoll leave every lock where it is.
LEMMA DrainPendingLock ==
  ASSUME LogindInv, DrainPending \/ EpollWait
  PROVE  LockStage' = LockStage
<1>1. LogindTypeOK /\ WatcherInv
  BY DEF LogindInv
<1>2. CASE DrainPending
  <2>1. watcher.batch = {} /\ pending' = {} /\ task' = task /\ fds' = fds
    BY <1>1, <1>2 DEF DrainPending, WatcherInv
  <2>2. watcher'.batch = pending
    BY <1>1, <1>2 DEF DrainPending, LogindTypeOK
  <2>3. \A i \in InhibitorIds : Tracked(i)' <=> Tracked(i)
    BY <2>1, <2>2 DEF Tracked
  <2>4. QED BY <1>2, <2>3, LockFrame DEF DrainPending
<1>3. CASE EpollWait
  <2>1. watcher'.batch = watcher.batch
    BY <1>1, <1>3 DEF EpollWait, LogindTypeOK
  <2>2. \A i \in InhibitorIds : Tracked(i)' <=> Tracked(i)
    BY <1>3, <2>1, TrackedFrame DEF EpollWait
  <2>3. QED BY <1>3, <2>2, LockFrame DEF EpollWait
<1>4. QED BY <1>2, <1>3

\* A lock that cannot be watched is stuck.
LEMMA AddToEpollLock ==
  ASSUME LogindInv, NEW i \in InhibitorIds, AddToEpoll(i)
  PROVE  [Lock!Next]_LockStage
<1>1. LogindTypeOK /\ WatcherInv
  BY DEF LogindInv
<1>2. /\ i \in watcher.batch /\ (fds' = fds \cup {i} \/ fds' = fds)
      /\ inhibitors' = inhibitors /\ nextInhibitor' = nextInhibitor /\ task' = task
      /\ pending' = pending /\ open' = open
  BY DEF AddToEpoll
<1>3. watcher'.batch = watcher.batch \ {i}
  BY <1>1 DEF LogindTypeOK, AddToEpoll
<1>4. ~(i >= nextInhibitor)
  <2>1. i < nextInhibitor /\ i \in Nat /\ nextInhibitor \in Nat
    BY <1>1, <1>2, LogindAssumption DEF WatcherInv, LogindTypeOK, InhibitorIds
  <2>2. QED BY <2>1
<1>5. Tracked(i)
  BY <1>2 DEF Tracked
<1>6. \A j \in InhibitorIds : j # i => (Tracked(j)' <=> Tracked(j))
  BY <1>2, <1>3 DEF Tracked
<1>7. \A j \in InhibitorIds : j # i => Stage(j)' = Stage(j)
  BY <1>2, <1>6 DEF Stage
<1>8. \/ Stage(i)' = Stage(i)
      \/ Stage(i) \in {"held", "closing"} /\ Stage(i)' = "stuck"
  BY <1>2, <1>4, <1>5 DEF Stage
<1>9. LockStage[i] = Stage(i) /\ LockStage' = [LockStage EXCEPT ![i] = Stage(i)']
  BY <1>7, OneLock
<1>10. CASE Stage(i)' = Stage(i)
  <2>1. LockStage' = LockStage
    BY <1>7, <1>10 DEF LockStage
  <2>2. QED BY <2>1
<1>11. CASE Stage(i) \in {"held", "closing"} /\ Stage(i)' = "stuck"
  BY <1>9, <1>11 DEF Lock!Next, Lock!Lose, Lock!Move
<1>12. QED BY <1>8, <1>10, <1>11

\* A lock whose event is handled is gone.
LEMMA HandleEventLock ==
  ASSUME LogindInv, NEW e \in InhibitorIds \cup {Wake}, HandleEvent(e)
  PROVE  [Lock!Next]_LockStage
<1>1. LogindTypeOK /\ WatcherInv
  BY DEF LogindInv
<1>2. /\ e \in watcher.events /\ nextInhibitor' = nextInhibitor /\ task' = task
      /\ pending' = pending /\ open' = open
  BY DEF HandleEvent
<1>3. watcher'.batch = watcher.batch
  BY <1>1 DEF LogindTypeOK, HandleEvent
<1>4. CASE e = Wake
  <2>1. fds' = fds /\ inhibitors' = inhibitors
    BY <1>4 DEF HandleEvent, DrainWakePipe
  <2>2. \A i \in InhibitorIds : Tracked(i)' <=> Tracked(i)
    BY <1>2, <1>3, <2>1, TrackedFrame
  <2>3. QED BY <1>2, <2>1, <2>2, LockFrame
<1>5. CASE e # Wake
  <2>1. e \in InhibitorIds /\ e \in fds /\ e \notin open
    BY <1>1, <1>2, <1>5 DEF WatcherInv
  <2>2. fds' = fds \ {e} /\ inhibitors' = [inhibitors EXCEPT ![e] = NoInhibitor]
    BY <1>5 DEF HandleEvent, Release
  <2>3. /\ inhibitors'[e] = NoInhibitor
        /\ \A j \in InhibitorIds : j # e => inhibitors'[j] = inhibitors[j]
    BY <1>1, <2>1, <2>2 DEF LogindTypeOK
  <2>4. ~(e >= nextInhibitor)
    <3>1. e < nextInhibitor /\ e \in Nat /\ nextInhibitor \in Nat
      BY <1>1, <2>1, LogindAssumption DEF WatcherInv, LogindTypeOK, InhibitorIds
    <3>2. QED BY <3>1
  <2>5. \A j \in InhibitorIds : j # e => (Tracked(j)' <=> Tracked(j))
    BY <1>2, <1>3, <2>2 DEF Tracked
  <2>6. \A j \in InhibitorIds : j # e => Stage(j)' = Stage(j)
    BY <1>2, <2>3, <2>5 DEF Stage
  <2>7. Stage(e) \in {"gone", "closing"} /\ Stage(e)' = "gone"
    BY <1>2, <2>1, <2>3, <2>4 DEF Stage, Tracked
  <2>8. LockStage[e] = Stage(e) /\ LockStage' = [LockStage EXCEPT ![e] = "gone"]
    BY <2>1, <2>6, <2>7, OneLock
  <2>9. CASE Stage(e) = "gone"
    <3>1. LockStage' = LockStage
      BY <2>6, <2>7, <2>9 DEF LockStage
    <3>2. QED BY <3>1
  <2>10. CASE Stage(e) = "closing"
    BY <2>1, <2>8, <2>10 DEF Lock!Next, Lock!Release, Lock!Move
  <2>11. QED BY <2>7, <2>9, <2>10
<1>6. QED BY <1>4, <1>5

\* Every step of the daemon is a step of the lock or leaves the locks alone.
LEMMA LockStep ==
  ASSUME LogindInv, LogindNext
  PROVE  [Lock!Next]_LockStage
<1>1. CASE Watch
  BY <1>1, DrainPendingLock, AddToEpollLock, HandleEventLock DEF Watch
<1>2. ASSUME NEW t \in Tasks, Resume(t)
      PROVE  [Lock!Next]_LockStage
  <2>1. LockStage' = LockStage
    BY <1>2, SessionStepLock, RegisterLock DEF Resume
  <2>2. QED BY <2>1
<1>3. ASSUME NEW s \in SessionIds, NEW idle \in Hints, SetIdleHint(s, idle)
      PROVE  LockStage' = LockStage
  <2>1. \A i \in InhibitorIds : Tracked(i)' <=> Tracked(i)
    BY <1>3, TrackedFrame DEF SetIdleHint, inhibitorVars
  <2>2. QED BY <1>3, <2>1, LockFrame DEF SetIdleHint, inhibitorVars
<1>4. ASSUME NEW t \in Tasks, NEW s \in SessionIds, ReleaseSession(t, s)
      PROVE  LockStage' = LockStage
  BY <1>4, SessionStepLock
<1>5. CASE ClientCall
  BY <1>3, <1>4, <1>5, InhibitMovesLock, CloseHandleLock DEF ClientCall
<1>6. QED BY <1>1, <1>2, <1>5 DEF LogindNext

\* Inhibit with its pipes, its queue, its wake byte and its thread implements
\* the lock it promises: a lock is listed from the call on, it leaves the list
\* only after its holder closed its descriptor, and one that could not be
\* watched stays (inhibitor.rs; manager.rs, inhibit).
THEOREM LockSafety == LogindSpec => Lock!Safety
<1>1. LogindInit => Lock!Init
  <2> SUFFICES ASSUME LogindInit PROVE LockStage = [i \in InhibitorIds |-> "free"]
    BY DEF Lock!Init
  <2>1. \A i \in InhibitorIds : Stage(i) = "free"
    BY LogindAssumption DEF LogindInit, Stage, InhibitorIds
  <2>2. QED BY <2>1 DEF LockStage
<1>2. LogindInv /\ [LogindNext \/ AnyCreate \/ \E t \in Tasks : AnyReply(t)]_logindVars
        => [Lock!Next]_LockStage
  <2>1. ASSUME UNCHANGED logindVars PROVE LockStage' = LockStage
    <3>1. \A i \in InhibitorIds : Tracked(i)' <=> Tracked(i)
      BY <2>1, TrackedFrame DEF logindVars, inhibitorVars
    <3>2. QED BY <2>1, <3>1, LockFrame DEF logindVars, inhibitorVars
  <2>2. QED BY <2>1, LockStep, SessionStepLock DEF AnyCreate
<1>3. QED BY <1>1, <1>2, LogindInvariance, PTL DEF LogindSpec, Lock!Safety

==============================================================================
