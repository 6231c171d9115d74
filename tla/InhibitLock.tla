---------------------------- MODULE InhibitLock ------------------------------
(***************************************************************************)
(* What Manager.Inhibit promises its callers, without pipes, queues and    *)
(* threads: a lock is held from the call until its holder closes its file  *)
(* descriptor, it is released after that and not before, and it is         *)
(* released in the end unless the daemon failed to watch it.               *)
(***************************************************************************)
CONSTANT Locks

VARIABLE lock

Stages == {"free", "held", "closing", "gone", "stuck"}

Init == lock = [i \in Locks |-> "free"]

Move(i, from, to) ==
  /\ lock[i] \in from
  /\ lock' = [lock EXCEPT ![i] = to]

Acquire(i) == Move(i, {"free"}, "held")

\* The holder closes its descriptor, or dies.
Close(i) == Move(i, {"held"}, "closing")

Release(i) == Move(i, {"closing"}, "gone")

\* The daemon cannot watch the lock: it stays listed for good.
Lose(i) == Move(i, {"free", "held", "closing"}, "stuck")

Next == \E i \in Locks : Acquire(i) \/ Close(i) \/ Release(i) \/ Lose(i)

Fairness == \A i \in Locks : WF_lock(Release(i))

Safety == Init /\ [][Next]_lock

Spec == Safety /\ Fairness

==============================================================================
