----------------------------- MODULE Transaction -----------------------------
(***************************************************************************)
(* UnitRegistry::build_transaction and build_stop_transaction, step by     *)
(* step: look the anchor up, close it breadth-first under the requirement  *)
(* edges (or their reverse), count the ordering edges inside the closure,  *)
(* and sort it with Kahn's algorithm.  Both functions run the same steps;  *)
(* kind tells which edges the closure follows and whether the order is     *)
(* reversed at the end.                                                    *)
(***************************************************************************)
EXTENDS UnitGraph

CONSTANT Registries   \* the registries a transaction may be asked of

ASSUME RegistriesAssumption == \A r \in Registries : r \in Registry

VARIABLES
  reg,       \* the registry, never changed by the function
  kind,      \* "start": build_transaction, "stop": build_stop_transaction
  anchor,    \* the requested name
  pc,        \* next phase of the function
  unitSet,   \* unit_set / close
  pending,   \* breadth-first queue
  edges,     \* order_out, as the set of the entries it was built from
  inDegree,  \* order_in_degree
  ready,     \* Kahn's queue
  sorted,    \* the units in the order they left the queue
  result     \* what is returned

vars == <<reg, kind, anchor, pc, unitSet, pending, edges, inDegree, ready, sorted, result>>

request == <<reg, kind, anchor>>

Outcome(tag, plan) == [tag |-> tag, plan |-> plan]

TypeOK ==
  /\ reg \in Registry
  /\ kind \in {"start", "stop"}
  /\ anchor \in Names
  /\ pc \in {"lookup", "closure", "ready", "sort", "done"}
  /\ unitSet \in SUBSET Units
  /\ pending \in Seq(Units)
  /\ edges \in SUBSET OrderEntries(reg)
  /\ inDegree \in [Units -> Nat]
  /\ ready \in Seq(Units)
  /\ sorted \in Seq(Units)
  /\ result \in [tag : {"none", "unknown", "cycle", "ok"}, plan : Seq(Units)]

Init ==
  /\ reg \in Registries
  /\ kind \in {"start", "stop"}
  /\ anchor \in Names
  /\ pc = "lookup"
  /\ unitSet = {}
  /\ pending = <<>>
  /\ edges = {}
  /\ inDegree = [u \in Units |-> 0]
  /\ ready = <<>>
  /\ sorted = <<>>
  /\ result = Outcome("none", <<>>)

\* TransactionError::UnknownUnit.
LookupFails ==
  /\ pc = "lookup"
  /\ anchor \notin Units
  /\ pc' = "done"
  /\ result' = Outcome("unknown", <<>>)
  /\ UNCHANGED <<request, unitSet, pending, edges, inDegree, ready, sorted>>

LookupAnchor ==
  /\ pc = "lookup"
  /\ anchor \in Units
  /\ pc' = "closure"
  /\ unitSet' = {anchor}
  /\ pending' = <<anchor>>
  /\ UNCHANGED <<request, edges, inDegree, ready, sorted, result>>

\* Mutant: the neighbours found are not expanded in turn.
ExpandAnchorOnly ==
  /\ pc = "closure"
  /\ pending # <<>>
  /\ unitSet' = unitSet \cup Neighbours(reg, kind, Head(pending))
  /\ pending' = Tail(pending)
  /\ UNCHANGED <<request, pc, edges, inDegree, ready, sorted, result>>

\* Mutant: the front of the queue is read and not removed.
ExpandWithoutPop ==
  /\ pc = "closure"
  /\ pending # <<>>
  /\ LET new == Neighbours(reg, kind, Head(pending)) \ unitSet
     IN  /\ unitSet' = unitSet \cup new
         /\ \E s \in Ascending(new) : pending' = pending \o s
  /\ UNCHANGED <<request, pc, edges, inDegree, ready, sorted, result>>

\* Pop a unit and enqueue, in id order, the neighbours not seen before.
ExpandClosure ==
  /\ pc = "closure"
  /\ pending # <<>>
  /\ LET new == Neighbours(reg, kind, Head(pending)) \ unitSet
     IN  /\ unitSet' = unitSet \cup new
         /\ \E s \in Ascending(new) : pending' = Tail(pending) \o s
  /\ UNCHANGED <<request, pc, edges, inDegree, ready, sorted, result>>

Entering(E, v) == {e \in E : Second(reg, e) = v}

\* One edge, and one in-degree, per After= or Before= entry inside the set.
BuildEdges ==
  /\ pc = "closure"
  /\ pending = <<>>
  /\ pc' = "ready"
  /\ edges' = OrderEdges(reg, unitSet)
  /\ inDegree' = [v \in Units |-> Cardinality(Entering(OrderEdges(reg, unitSet), v))]
  /\ UNCHANGED <<request, unitSet, pending, ready, sorted, result>>

InitReady ==
  /\ pc = "ready"
  /\ pc' = "sort"
  /\ ready' \in Ascending({v \in unitSet : inDegree[v] = 0})
  /\ UNCHANGED <<request, unitSet, pending, edges, inDegree, sorted, result>>

Leaving(u) == {e \in edges : First(reg, e) = u}

\* Mutant: successors are kept in a set, so a repeated entry counts once here
\* and as often as it occurs in the in-degree.
PopReadyOncePerPair ==
  /\ pc = "sort"
  /\ ready # <<>>
  /\ LET u    == Head(ready)
         Hits(v) == IF Entering(Leaving(u), v) = {} THEN 0 ELSE 1
         next == {v \in unitSet : Hits(v) > 0 /\ inDegree[v] = Hits(v)}
     IN  /\ sorted' = Append(sorted, u)
         /\ inDegree' = [v \in Units |-> inDegree[v] - Hits(v)]
         /\ \E s \in Ascending(next) : ready' = Tail(ready) \o s
  /\ UNCHANGED <<request, pc, unitSet, pending, edges, result>>

\* Pop a unit, decrement the in-degree of its successors once per edge, and
\* enqueue in id order those that reach zero.
PopReady ==
  /\ pc = "sort"
  /\ ready # <<>>
  /\ LET u    == Head(ready)
         Hits(v) == Cardinality(Entering(Leaving(u), v))
         next == {v \in unitSet : Hits(v) > 0 /\ inDegree[v] = Hits(v)}
     IN  /\ sorted' = Append(sorted, u)
         /\ inDegree' = [v \in Units |-> inDegree[v] - Hits(v)]
         /\ \E s \in Ascending(next) : ready' = Tail(ready) \o s
  /\ UNCHANGED <<request, pc, unitSet, pending, edges, result>>

\* Mutant: a stop plan is not reversed.
FinishUnreversed ==
  /\ pc = "sort"
  /\ ready = <<>>
  /\ pc' = "done"
  /\ result' = IF Len(sorted) # Cardinality(unitSet) THEN Outcome("cycle", <<>>)
               ELSE Outcome("ok", sorted)
  /\ UNCHANGED <<request, unitSet, pending, edges, inDegree, ready, sorted>>

\* Units left over mean an ordering cycle; otherwise emit the plan.
Finish ==
  /\ pc = "sort"
  /\ ready = <<>>
  /\ pc' = "done"
  /\ result' =
       IF Len(sorted) # Cardinality(unitSet) THEN Outcome("cycle", <<>>)
       ELSE Outcome("ok", IF kind = "start" THEN sorted ELSE Reversed(sorted))
  /\ UNCHANGED <<request, unitSet, pending, edges, inDegree, ready, sorted>>

Next ==
  \/ LookupFails
  \/ LookupAnchor
  \/ ExpandClosure
  \/ BuildEdges
  \/ InitReady
  \/ PopReady
  \/ Finish

Spec == Init /\ [][Next]_vars /\ WF_vars(Next)

------------------------------------------------------------------------------
Closed(S) == \A u \in S : Neighbours(reg, kind, u) \subseteq S

\* Units pulled in are exactly those reachable from the anchor: the set is
\* closed under the edges and contained in every closed set with the anchor.
\* (the breadth-first loops, graph.rs 192-203 and 299-311)
ClosureIsReachability ==
  pc \in {"ready", "sort"} =>
    /\ anchor \in unitSet
    /\ Closed(unitSet)
    /\ \A S \in SUBSET Units : anchor \in S /\ Closed(S) => unitSet \subseteq S

\* x comes before y in the plan.
PlannedBefore(x, y) ==
  \E i, j \in DOMAIN result.plan : i < j /\ result.plan[i] = x /\ result.plan[j] = y

\* A returned plan lists every unit of the closure once and violates no
\* After= or Before= between its units, however often an entry is repeated;
\* a stop plan has every such pair the other way round.
PlanRespectsOrdering ==
  result.tag = "ok" =>
    /\ Elements(result.plan) = unitSet
    /\ Len(result.plan) = Cardinality(unitSet)
    /\ \A e \in OrderEdges(reg, unitSet) :
         IF kind = "start" THEN PlannedBefore(First(reg, e), Second(reg, e))
                           ELSE PlannedBefore(Second(reg, e), First(reg, e))

\* Units every one of which must wait for another of them: no order exists.
Deadlocked(S) ==
  /\ S # {}
  /\ \A v \in S : \E x \in S : Precedes(reg, unitSet, x, v)

\* OrderingCycle is reported exactly when no order of the closure exists: the
\* leftovers of Kahn's loop really wait on each other, and a plan is never
\* returned when some units do.
CycleErrorIsReal ==
  /\ result.tag = "cycle" => Deadlocked(unitSet \ Elements(sorted))
  /\ result.tag = "ok" => \A S \in SUBSET unitSet : ~Deadlocked(S)

\* Whatever order the hash maps are iterated in, the plan is the one plan of
\* the reference definition ("so output is deterministic", graph.rs 238).
PlanIsDeterministic ==
  pc = "done" =>
    LET p == Plan(reg, kind, anchor)
    IN  /\ p.ok <=> result.tag = "ok"
        /\ result.plan = p.units

\* Every request is answered: both loops end.
Terminates == <>(pc = "done")

------------------------------------------------------------------------------
\* x requires y through one or more units of the closure.
RequirementCycle ==
  \E S \in SUBSET unitSet :
    S # {} /\ \A u \in S : \E v \in S : v \in RequirementTargets(reg, u)

\* graph.rs 12: "Reject requirement cycles".
RequirementCyclesRejected == kind = "start" /\ result.tag = "ok" => ~RequirementCycle

==============================================================================
