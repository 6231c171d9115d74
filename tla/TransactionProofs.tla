-------------------------- MODULE TransactionProofs --------------------------
(***************************************************************************)
(* For every set of units and every registry: the types of Transaction,    *)
(* that the closure is reachability, that a returned plan respects every   *)
(* After= and Before=, that a cycle is reported only and always when no    *)
(* order exists, that the answer is the one of the reference definition,   *)
(* and that it is reached in a bounded number of steps.                    *)
(*                                                                         *)
(* The heart is Kahn's invariant: the in-degree of a unit is the number of *)
(* its incoming edges from units not sorted yet, so it is zero exactly for *)
(* the units that are sorted or ready.                                     *)
(***************************************************************************)
EXTENDS Transaction, UnitGraphProofs

\* The edges a unit still waits for.
Waiting(v) == {e \in edges : Second(reg, e) = v /\ First(reg, e) \notin Elements(sorted)}

Sorting == pc = "sort" \/ result.tag \in {"ok", "cycle"}

\* What each phase of the function has not touched yet.
PhaseInv ==
  /\ pc = "lookup" => unitSet = {} /\ pending = <<>>
  /\ pc \notin {"lookup", "closure"} => pending = <<>>
  /\ pc \in {"lookup", "closure", "ready"} => ready = <<>> /\ sorted = <<>>
  /\ pc # "done" <=> result.tag = "none"
  /\ pc # "lookup" /\ result.tag # "unknown" => anchor \in unitSet

\* Of the collected units only the queued ones are still to be expanded, and
\* all of them are reachable.
ClosureInv ==
  /\ Elements(pending) \subseteq unitSet
  /\ \A u \in unitSet \ Elements(pending) : Neighbours(reg, kind, u) \subseteq unitSet
  /\ \A S \in SUBSET Units : anchor \in S /\ Closed(S) => unitSet \subseteq S

\* An in-degree is the number of edges still waited for.
DegreeInv ==
  pc = "ready" \/ Sorting =>
    /\ edges = OrderEdges(reg, unitSet)
    /\ \A v \in Units : inDegree[v] = Cardinality(Waiting(v))

\* The units waiting for nothing are the ready and the sorted ones, each once,
\* and the sorted ones are in order.
KahnInv ==
  Sorting =>
    /\ Elements(ready) \cup Elements(sorted) \subseteq unitSet
    /\ \A v \in unitSet : inDegree[v] = 0 <=> v \in Elements(ready) \cup Elements(sorted)
    /\ Elements(ready) \cap Elements(sorted) = {}
    /\ Injective(ready)
    /\ Injective(sorted)
    /\ \A e \in edges : \A j \in DOMAIN sorted :
         sorted[j] = Second(reg, e) => \E i \in DOMAIN sorted : i < j /\ sorted[i] = First(reg, e)

\* What was returned, in terms of what was sorted.
ResultInv ==
  pc = "done" /\ result.tag # "unknown" =>
    /\ ready = <<>>
    /\ result.tag = "ok" <=> Len(sorted) = Cardinality(unitSet)
    /\ result.tag = "ok" =>
         result.plan = (IF kind = "start" THEN sorted ELSE Reversed(sorted))

\* The inductive invariant.
IInv == TypeOK /\ PhaseInv /\ ClosureInv /\ DegreeInv /\ KahnInv /\ ResultInv

\* Queue and order are those of the reference definition after as many turns,
\* and an error carries no plan.
ReferenceInv ==
  /\ result.tag = "unknown" => anchor \notin Units
  /\ result.tag # "ok" => result.plan = <<>>
  /\ Sorting => Turns(reg, unitSet)[Len(sorted)] = [ready |-> ready, sorted |-> sorted]

------------------------------------------------------------------------------
(***************************************************************************)
(* Every step preserves IInv.  One lemma per action that does real work.   *)
(***************************************************************************)

\* The call starts with empty queues and nothing counted.
LEMMA InitIInv == Init => IInv
<1> SUFFICES ASSUME Init PROVE IInv
  OBVIOUS
<1>1. TypeOK
  BY RegistriesAssumption DEF Init, TypeOK, Outcome
<1>2. PhaseInv
  BY DEF Init, PhaseInv, Outcome
<1>3. ClosureInv
  BY DEF Init, ClosureInv, Elements
<1>4. DegreeInv /\ KahnInv /\ ResultInv
  BY DEF Init, DegreeInv, KahnInv, ResultInv, Sorting, Outcome
<1>5. QED BY <1>1, <1>2, <1>3, <1>4 DEF IInv

\* An unknown anchor ends the call with nothing collected.
LEMMA LookupFailsStep == IInv /\ LookupFails => IInv'
<1> SUFFICES ASSUME IInv, LookupFails PROVE IInv'
  OBVIOUS
<1> USE DEF LookupFails, request
<1>1. TypeOK'
  BY DEF IInv, TypeOK, Outcome
<1>2. PhaseInv'
  BY DEF IInv, PhaseInv, Outcome
<1>3. ClosureInv'
  BY DEF IInv, ClosureInv, Closed
<1>4. DegreeInv' /\ KahnInv' /\ ResultInv'
  BY DEF DegreeInv, KahnInv, ResultInv, Sorting, Outcome
<1>5. QED BY <1>1, <1>2, <1>3, <1>4 DEF IInv

\* The anchor alone is in the set and waits to be expanded.
LEMMA LookupAnchorStep == IInv /\ LookupAnchor => IInv'
<1> SUFFICES ASSUME IInv, LookupAnchor PROVE IInv'
  OBVIOUS
<1> USE DEF LookupAnchor, request
<1>1. TypeOK'
  BY DEF IInv, TypeOK
<1>2. PhaseInv'
  BY DEF IInv, PhaseInv
<1>3. ClosureInv'
  BY DEF IInv, ClosureInv, Closed, Elements
<1>4. DegreeInv' /\ KahnInv' /\ ResultInv'
  BY DEF IInv, PhaseInv, DegreeInv, KahnInv, ResultInv, Sorting
<1>5. QED BY <1>1, <1>2, <1>3, <1>4 DEF IInv

\* A unit leaves the queue with all its neighbours collected, and every
\* closed set with the anchor has them too.
LEMMA ExpandClosureStep == IInv /\ ExpandClosure => IInv'
<1> SUFFICES ASSUME IInv, ExpandClosure PROVE IInv'
  OBVIOUS
<1> DEFINE u   == Head(pending)
           new == Neighbours(reg, kind, u) \ unitSet
<1>1. PICK s \in Ascending(new) : pending' = Tail(pending) \o s
  BY DEF ExpandClosure
<1>2. /\ reg \in Registry /\ unitSet \in SUBSET Units /\ pending \in Seq(Units)
      /\ pending # <<>> /\ unitSet' = unitSet \cup new
      /\ <<reg, kind, anchor, pc, edges, inDegree, ready, sorted, result>>'
           = <<reg, kind, anchor, pc, edges, inDegree, ready, sorted, result>>
      /\ pc = "closure"
  BY DEF IInv, TypeOK, ExpandClosure, request
<1>3. u \in Units /\ Tail(pending) \in Seq(Units) /\ Elements(pending) = {u} \cup Elements(Tail(pending))
  BY <1>2, PopFront
<1>4. new \in SUBSET Units
  BY <1>2, <1>3, NeighboursAreUnits
<1>5. s \in Seq(Units) /\ Elements(s) = new
  BY <1>1, <1>4, AscendingSeq
<1>6. pending' \in Seq(Units) /\ Elements(pending') = Elements(Tail(pending)) \cup new
  <2>1. Elements(Tail(pending) \o s) = Elements(Tail(pending)) \cup Elements(s)
    <3>1. \A x, y \in Seq(Units) : Elements(x \o y) = Elements(x) \cup Elements(y)
      BY ElementsConcat
    <3>2. QED BY <1>3, <1>5, <3>1, Zenon
  <2>2. Tail(pending) \o s \in Seq(Units)
    BY <1>3, <1>5
  <2>3. QED BY <1>1, <1>5, <2>1, <2>2
<1> HIDE DEF u, new
<1>7. TypeOK'
  BY <1>2, <1>4, <1>6 DEF IInv, TypeOK
<1>8. PhaseInv'
  BY <1>2 DEF IInv, PhaseInv
<1>9. ClosureInv'
  <2>1. Elements(pending) \subseteq unitSet
    BY DEF IInv, ClosureInv
  <2>2. Elements(pending)' \subseteq unitSet'
    BY <1>2, <1>3, <1>6, <2>1 DEF Elements
  <2>3. ASSUME NEW x \in unitSet' \ Elements(pending)'
        PROVE  Neighbours(reg, kind, x) \subseteq unitSet'
    <3>1. CASE x = u
      BY <1>2, <3>1 DEF new
    <3>2. CASE x # u
      <4>1. x \in unitSet \ Elements(pending)
        BY <1>2, <1>3, <1>6, <2>3, <3>2 DEF Elements
      <4>2. QED BY <1>2, <4>1 DEF IInv, ClosureInv
    <3>3. QED BY <3>1, <3>2
  <2>4. ASSUME NEW S \in SUBSET Units, anchor \in S, Closed(S)
        PROVE  unitSet' \subseteq S
    <3>1. unitSet \subseteq S
      BY <2>4 DEF IInv, ClosureInv
    <3>2. u \in S
      BY <1>3, <2>1, <3>1
    <3>3. Neighbours(reg, kind, u) \subseteq S
      BY <2>4, <3>2 DEF Closed
    <3>4. QED BY <1>2, <3>1, <3>3 DEF new
  <2>5. QED BY <1>2, <2>2, <2>3, <2>4 DEF ClosureInv, Closed
<1>10. DegreeInv' /\ KahnInv' /\ ResultInv'
  BY <1>2 DEF IInv, PhaseInv, DegreeInv, KahnInv, ResultInv, Sorting
<1>11. QED BY <1>7, <1>8, <1>9, <1>10 DEF IInv

\* Nothing is sorted yet, so every unit waits for all its incoming edges.
LEMMA BuildEdgesStep == IInv /\ BuildEdges => IInv'
<1> SUFFICES ASSUME IInv, BuildEdges PROVE IInv'
  OBVIOUS
<1>1. /\ reg \in Registry /\ unitSet \in SUBSET Units /\ pc' = "ready"
      /\ pending = <<>> /\ sorted = <<>> /\ ready = <<>> /\ anchor \in unitSet
      /\ result.tag = "none"
      /\ edges' = OrderEdges(reg, unitSet)
      /\ inDegree' = [v \in Units |-> Cardinality(Entering(OrderEdges(reg, unitSet), v))]
      /\ <<reg, kind, anchor, unitSet, pending, ready, sorted, result>>'
           = <<reg, kind, anchor, unitSet, pending, ready, sorted, result>>
  BY DEF IInv, TypeOK, PhaseInv, BuildEdges, request
<1>2. /\ OrderEdges(reg, unitSet) \subseteq OrderEntries(reg)
      /\ IsFiniteSet(OrderEdges(reg, unitSet))
  BY <1>1, OrderEdgesInside
<1>3. ASSUME NEW v \in Units
      PROVE  Cardinality(Entering(OrderEdges(reg, unitSet), v)) \in Nat
  <2>1. Entering(OrderEdges(reg, unitSet), v) \subseteq OrderEdges(reg, unitSet)
    BY DEF Entering
  <2>2. QED BY <1>2, <2>1, FS_Subset, FS_CardinalityType
<1>4. TypeOK'
  BY <1>1, <1>2, <1>3 DEF IInv, TypeOK
<1>5. PhaseInv'
  BY <1>1 DEF PhaseInv
<1>6. ClosureInv'
  BY <1>1 DEF IInv, ClosureInv, Closed, Elements
<1>7. DegreeInv'
  <2>1. Elements(sorted') = {}
    BY <1>1 DEF Elements
  <2>2. ASSUME NEW v \in Units PROVE Waiting(v)' = Entering(OrderEdges(reg, unitSet), v)
    BY <1>1, <2>1 DEF Waiting, Entering
  <2>3. QED BY <1>1, <2>2 DEF DegreeInv
<1>8. KahnInv' /\ ResultInv'
  BY <1>1 DEF KahnInv, ResultInv, Sorting
<1>9. QED BY <1>4, <1>5, <1>6, <1>7, <1>8 DEF IInv

\* The first queue holds exactly the units without incoming edges.
LEMMA InitReadyStep == IInv /\ InitReady => IInv'
<1> SUFFICES ASSUME IInv, InitReady PROVE IInv'
  OBVIOUS
<1> DEFINE Z == {v \in unitSet : inDegree[v] = 0}
<1>1. /\ unitSet \in SUBSET Units /\ pc = "ready" /\ pc' = "sort"
      /\ sorted = <<>> /\ result.tag = "none" /\ ready' \in Ascending(Z)
      /\ <<reg, kind, anchor, unitSet, pending, edges, inDegree, sorted, result>>'
           = <<reg, kind, anchor, unitSet, pending, edges, inDegree, sorted, result>>
  BY DEF IInv, TypeOK, PhaseInv, InitReady, request
<1>2. ready' \in Seq(Units) /\ Elements(ready') = Z /\ Injective(ready')
  BY <1>1, AscendingSeq
<1>3. TypeOK'
  BY <1>1, <1>2 DEF IInv, TypeOK
<1>4. PhaseInv'
  BY <1>1 DEF IInv, PhaseInv
<1>5. ClosureInv'
  BY <1>1 DEF IInv, ClosureInv, Closed, Elements
<1>6. DegreeInv'
  BY <1>1 DEF IInv, DegreeInv, Waiting, Sorting, Elements
<1>7. KahnInv'
  <2>1. Elements(sorted') = {} /\ DOMAIN sorted' = {}
    BY <1>1 DEF Elements
  <2>2. Injective(sorted')
    BY <2>1 DEF Injective
  <2>3. QED BY <1>1, <1>2, <2>1, <2>2 DEF KahnInv
<1>8. ResultInv'
  BY <1>1 DEF ResultInv
<1>9. QED BY <1>3, <1>4, <1>5, <1>6, <1>7, <1>8 DEF IInv

\* What is returned is the sorted list, reversed for a stop plan.
LEMMA FinishStep == IInv /\ Finish => IInv'
<1> SUFFICES ASSUME IInv, Finish PROVE IInv'
  OBVIOUS
<1>1. /\ pc = "sort" /\ pc' = "done" /\ ready = <<>> /\ sorted \in Seq(Units)
      /\ result' = IF Len(sorted) # Cardinality(unitSet) THEN Outcome("cycle", <<>>)
                   ELSE Outcome("ok", IF kind = "start" THEN sorted ELSE Reversed(sorted))
      /\ <<reg, kind, anchor, unitSet, pending, edges, inDegree, ready, sorted>>'
           = <<reg, kind, anchor, unitSet, pending, edges, inDegree, ready, sorted>>
  BY DEF IInv, TypeOK, Finish, request
<1>2. Reversed(sorted) \in Seq(Units)
  BY <1>1 DEF Reversed
<1>3. TypeOK'
  BY <1>1, <1>2 DEF IInv, TypeOK, Outcome
<1>4. PhaseInv'
  BY <1>1 DEF IInv, PhaseInv, Outcome
<1>5. ClosureInv'
  BY <1>1 DEF IInv, ClosureInv, Closed, Elements
<1>6. DegreeInv'
  BY <1>1 DEF IInv, DegreeInv, Waiting, Sorting, Elements
<1>7. KahnInv'
  BY <1>1 DEF IInv, KahnInv, Sorting, Elements, Injective
<1>8. ResultInv'
  BY <1>1 DEF ResultInv, Outcome
<1>9. QED BY <1>3, <1>4, <1>5, <1>6, <1>7, <1>8 DEF IInv

\* One turn of Kahn's loop: the in-degree loses exactly the edges that leave
\* the unit taken from the queue, repeated entries included, and the units
\* enqueued are exactly those that waited for nothing else.
LEMMA PopReadyStep == IInv /\ PopReady => IInv'
<1> SUFFICES ASSUME IInv, PopReady PROVE IInv'
  OBVIOUS
<1> DEFINE u       == Head(ready)
           H(v)    == Entering(Leaving(u), v)
           Hits(v) == Cardinality(H(v))
           next    == {v \in unitSet : Hits(v) > 0 /\ inDegree[v] = Hits(v)}
<1>1. PICK s \in Ascending(next) : ready' = Tail(ready) \o s
  BY DEF PopReady
<1>2. /\ reg \in Registry /\ unitSet \in SUBSET Units
      /\ ready \in Seq(Units) /\ sorted \in Seq(Units) /\ inDegree \in [Units -> Nat]
      /\ pc = "sort" /\ Sorting /\ ready # <<>> /\ result.tag = "none"
  BY DEF IInv, TypeOK, PhaseInv, PopReady, Sorting
<1>3. /\ sorted' = Append(sorted, u)
      /\ inDegree' = [v \in Units |-> inDegree[v] - Hits(v)]
      /\ <<reg, kind, anchor, pc, unitSet, pending, edges, result>>'
           = <<reg, kind, anchor, pc, unitSet, pending, edges, result>>
  BY DEF PopReady, request
<1>4. /\ edges = OrderEdges(reg, unitSet)
      /\ \A v \in Units : inDegree[v] = Cardinality(Waiting(v))
      /\ Elements(ready) \cup Elements(sorted) \subseteq unitSet
      /\ \A v \in unitSet : inDegree[v] = 0 <=> v \in Elements(ready) \cup Elements(sorted)
      /\ Elements(ready) \cap Elements(sorted) = {}
      /\ Injective(ready) /\ Injective(sorted)
      /\ \A e \in edges : \A j \in DOMAIN sorted :
           sorted[j] = Second(reg, e) => \E i \in DOMAIN sorted : i < j /\ sorted[i] = First(reg, e)
  BY <1>2 DEF IInv, DegreeInv, KahnInv
<1>5. IsFiniteSet(edges)
  BY <1>2, <1>4, OrderEdgesInside
<1>6. /\ u \in Units /\ Tail(ready) \in Seq(Units)
      /\ Elements(ready) = {u} \cup Elements(Tail(ready))
      /\ Injective(Tail(ready)) /\ u \notin Elements(Tail(ready))
  BY <1>2, <1>4, PopFront
<1>7. u \in unitSet /\ u \notin Elements(sorted) /\ inDegree[u] = 0
  BY <1>4, <1>6
<1>8. next \in SUBSET Units
  BY <1>2
<1>9. s \in Seq(Units) /\ Elements(s) = next /\ Injective(s)
  <2> HIDE DEF next
  <2>1. QED BY <1>1, <1>8, AscendingSeq
<1>10. /\ ready' \in Seq(Units)
       /\ Elements(ready') = Elements(Tail(ready)) \cup next
  <2> HIDE DEF next
  <2>1. Elements(Tail(ready) \o s) = Elements(Tail(ready)) \cup Elements(s)
    <3>1. \A x, y \in Seq(Units) : Elements(x \o y) = Elements(x) \cup Elements(y)
      BY ElementsConcat
    <3>2. QED BY <1>6, <1>9, <3>1, Zenon
  <2>2. Tail(ready) \o s \in Seq(Units)
    BY <1>6, <1>9
  <2>3. QED BY <1>1, <1>9, <2>1, <2>2
<1>11. sorted' \in Seq(Units) /\ Elements(sorted') = Elements(sorted) \cup {u}
  BY <1>2, <1>3, <1>6, ElementsAppend
\* The edges counted by Hits are those that no longer block v.
<1>12. ASSUME NEW v \in Units
       PROVE  /\ Hits(v) \in Nat
              /\ Hits(v) <= inDegree[v]
              /\ inDegree[v] - Hits(v) = Cardinality(Waiting(v)')
  <2>1. H(v) \subseteq Waiting(v)
    BY <1>7 DEF Waiting, Entering, Leaving
  <2>2. IsFiniteSet(Waiting(v))
    <3>1. Waiting(v) \subseteq edges
      BY DEF Waiting
    <3>2. QED BY <1>5, <3>1, FS_Subset
  <2>3. Waiting(v)' = Waiting(v) \ H(v)
    BY <1>3, <1>11 DEF Waiting, Entering, Leaving
  <2>4. IsFiniteSet(H(v)) /\ Cardinality(H(v)) <= Cardinality(Waiting(v))
    BY <2>1, <2>2, FS_Subset
  <2>5. Cardinality(H(v)) \in Nat /\ Cardinality(Waiting(v)) \in Nat
    BY <2>2, <2>4, FS_CardinalityType
  <2>6. Waiting(v) \cap H(v) = H(v)
    BY <2>1
  <2>7. Cardinality(Waiting(v) \ H(v)) = Cardinality(Waiting(v)) - Cardinality(H(v))
    BY <2>2, <2>6, FS_Difference
  <2>8. QED BY <1>4, <2>3, <2>4, <2>5, <2>7
<1> HIDE DEF Hits
<1>13. TypeOK'
  <2>1. inDegree' \in [Units -> Nat]
    BY <1>2, <1>3, <1>12
  <2>2. TypeOK
    BY DEF IInv
  <2>3. QED BY <1>3, <1>10, <1>11, <2>1, <2>2 DEF TypeOK
<1>14. PhaseInv'
  BY <1>2, <1>3 DEF IInv, PhaseInv
<1>15. ClosureInv'
  BY <1>3 DEF IInv, ClosureInv, Closed, Elements
<1>16. DegreeInv'
  BY <1>3, <1>4, <1>12 DEF DegreeInv
<1>17. KahnInv'
  <2>1. Elements(ready') \cup Elements(sorted') = Elements(ready) \cup Elements(sorted) \cup next
    BY <1>6, <1>10, <1>11
  <2>2. next \cap (Elements(ready) \cup Elements(sorted)) = {}
    <3>1. ASSUME NEW v \in next PROVE inDegree[v] # 0
      BY <1>2, <1>12
    <3>2. QED BY <1>4, <3>1
  <2>3. Elements(ready') \cup Elements(sorted') \subseteq unitSet
    BY <1>4, <2>1
  <2>4. ASSUME NEW v \in unitSet
        PROVE  inDegree'[v] = 0 <=> v \in Elements(ready') \cup Elements(sorted')
    <3>1. v \in Units /\ inDegree'[v] = inDegree[v] - Hits(v)
      BY <1>2, <1>3
    <3>2. inDegree[v] \in Nat /\ Hits(v) \in Nat /\ Hits(v) <= inDegree[v]
      BY <1>2, <1>12, <3>1
    <3>3. inDegree'[v] = 0 <=> (inDegree[v] = 0 \/ v \in next)
      BY <3>1, <3>2
    <3>4. QED BY <1>4, <2>1, <3>3
  <2>5. Elements(ready') \cap Elements(sorted') = {}
    BY <1>4, <1>6, <1>7, <1>10, <1>11, <2>2
  <2>6. Injective(ready')
    <3>1. Elements(Tail(ready)) \cap Elements(s) = {}
      BY <1>6, <1>9, <2>2
    <3>2. \A x, y \in Seq(Units) :
            Injective(x) /\ Injective(y) /\ Elements(x) \cap Elements(y) = {} => Injective(x \o y)
      BY InjectiveConcat
    <3>3. Injective(Tail(ready) \o s)
      BY <1>6, <1>9, <3>1, <3>2, Zenon
    <3>4. QED BY <1>1, <3>3
  <2>7. Injective(sorted')
    <3>1. Injective(Append(sorted, u))
      BY <1>2, <1>4, <1>6, <1>7, InjectiveAppend
    <3>2. QED BY <1>3, <3>1
  <2>8. ASSUME NEW e \in edges, NEW j \in DOMAIN sorted', sorted'[j] = Second(reg, e)
        PROVE  \E i \in DOMAIN sorted' : i < j /\ sorted'[i] = First(reg, e)
    <3>1. /\ DOMAIN sorted' = DOMAIN sorted \cup {Len(sorted) + 1}
          /\ \A i \in DOMAIN sorted : sorted'[i] = sorted[i] /\ i < Len(sorted) + 1
          /\ sorted'[Len(sorted) + 1] = u
      BY <1>2, <1>3, <1>6
    <3>2. CASE j \in DOMAIN sorted
      BY <1>4, <2>8, <3>1, <3>2
    <3>3. CASE j = Len(sorted) + 1
      <4>1. Second(reg, e) = u
        BY <2>8, <3>1, <3>3
      <4>2. Waiting(u) = {}
        <5>1. IsFiniteSet(Waiting(u))
          <6>1. Waiting(u) \subseteq edges
            BY DEF Waiting
          <6>2. QED BY <1>5, <6>1, FS_Subset
        <5>2. Cardinality(Waiting(u)) = 0
          BY <1>4, <1>6, <1>7
        <5>3. QED BY <5>1, <5>2, FS_EmptySet
      <4>3. First(reg, e) \in Elements(sorted)
        BY <2>8, <4>1, <4>2 DEF Waiting
      <4>4. PICK i \in DOMAIN sorted : sorted[i] = First(reg, e)
        BY <4>3 DEF Elements
      <4>5. QED BY <3>1, <3>3, <4>4
    <3>4. QED BY <3>1, <3>2, <3>3
  <2>9. QED BY <1>3, <2>3, <2>4, <2>5, <2>6, <2>7, <2>8 DEF KahnInv
<1>18. ResultInv'
  BY <1>2, <1>3 DEF ResultInv
<1>19. QED BY <1>13, <1>14, <1>15, <1>16, <1>17, <1>18 DEF IInv

\* A step that changes nothing.
LEMMA StutterStep == IInv /\ UNCHANGED vars => IInv'
<1> SUFFICES ASSUME IInv, UNCHANGED vars PROVE IInv'
  OBVIOUS
<1> USE DEF vars
<1>1. TypeOK'
  BY DEF IInv, TypeOK
<1>2. PhaseInv'
  BY DEF IInv, PhaseInv
<1>3. ClosureInv'
  BY DEF IInv, ClosureInv, Closed
<1>4. DegreeInv'
  BY DEF IInv, DegreeInv, Waiting, Sorting
<1>5. KahnInv'
  BY DEF IInv, KahnInv, Sorting
<1>6. ResultInv'
  BY DEF IInv, ResultInv
<1>7. QED BY <1>1, <1>2, <1>3, <1>4, <1>5, <1>6 DEF IInv

\* Kahn's invariant and its companions hold throughout.
THEOREM Invariance == Spec => []IInv
<1>1. IInv /\ [Next]_vars => IInv'
  BY LookupFailsStep, LookupAnchorStep, ExpandClosureStep, BuildEdgesStep, InitReadyStep,
     PopReadyStep, FinishStep, StutterStep DEF Next
<1>2. QED BY InitIInv, <1>1, PTL DEF Spec

\* Every value the two functions compute has its type; in particular no
\* in-degree is ever decremented below zero.
THEOREM TypeCorrect == Spec => []TypeOK
<1>1. IInv => TypeOK
  BY DEF IInv
<1>2. QED BY Invariance, <1>1, PTL

------------------------------------------------------------------------------
\* The units pulled in are exactly those reachable from the anchor, for every
\* registry, with requirement cycles or without.
THEOREM ClosureCorrect == Spec => []ClosureIsReachability
<1>1. IInv => ClosureIsReachability
  <2> SUFFICES ASSUME IInv, pc \in {"ready", "sort"}
               PROVE  /\ anchor \in unitSet
                      /\ Closed(unitSet)
                      /\ \A S \in SUBSET Units : anchor \in S /\ Closed(S) => unitSet \subseteq S
    BY DEF ClosureIsReachability
  <2>1. anchor \in unitSet /\ pending = <<>>
    BY DEF IInv, PhaseInv
  <2>2. Elements(pending) = {}
    BY <2>1 DEF Elements
  <2>3. Closed(unitSet)
    BY <2>2 DEF IInv, ClosureInv, Closed
  <2>4. QED BY <2>1, <2>3 DEF IInv, ClosureInv
<1>2. QED BY Invariance, <1>1, PTL

\* The sort placed every unit iff it placed as many as there are.
LEMMA SortedAll ==
  ASSUME IInv, Sorting
  PROVE  Len(sorted) = Cardinality(unitSet) <=> Elements(sorted) = unitSet
<1>1. /\ sorted \in Seq(Units) /\ unitSet \in SUBSET Units /\ Injective(sorted)
      /\ Elements(sorted) \subseteq unitSet
  BY DEF IInv, TypeOK, KahnInv
<1>2. DOMAIN sorted = 1 .. Len(sorted) /\ Len(sorted) \in Nat
  BY <1>1
<1>3. sorted \in [1 .. Len(sorted) -> unitSet]
  <2>1. \A i \in 1 .. Len(sorted) : sorted[i] \in unitSet
    BY <1>1, <1>2 DEF Elements
  <2>2. sorted = [i \in 1 .. Len(sorted) |-> sorted[i]]
    BY <1>1
  <2>3. QED BY <2>1, <2>2
<1>4. sorted \in Injection(1 .. Len(sorted), unitSet)
  BY <1>1, <1>2, <1>3 DEF Injection, IsInjective, Injective
<1>5. IsFiniteSet(unitSet)
  BY <1>1, UnitsAssumption, FS_Subset
<1>6. Cardinality(1 .. Len(sorted)) = Len(sorted)
  <2> DEFINE n == Len(sorted)
  <2>1. n \in Nat /\ n \in Int /\ 1 \in Int
    BY <1>2
  <2> HIDE DEF n
  <2>2. Cardinality(1 .. n) = IF 1 > n THEN 0 ELSE n - 1 + 1
    BY <2>1, FS_Interval
  <2>3. Cardinality(1 .. n) = n
    BY <2>1, <2>2
  <2>4. QED BY <2>3 DEF n
<1>7. Len(sorted) = Cardinality(unitSet) <=> sorted \in Surjection(1 .. Len(sorted), unitSet)
  BY <1>4, <1>5, <1>6, FS_Injection
<1>8. sorted \in Surjection(1 .. Len(sorted), unitSet) <=> Elements(sorted) = unitSet
  BY <1>1, <1>2, <1>3 DEF Surjection, Elements
<1>9. QED BY <1>7, <1>8

\* A plan lists every unit of the closure once and breaks no After= or Before=,
\* however many units there are and however their directives are written.
THEOREM PlanCorrect == Spec => []PlanRespectsOrdering
<1>1. IInv => PlanRespectsOrdering
  <2> SUFFICES ASSUME IInv, result.tag = "ok"
               PROVE  /\ Elements(result.plan) = unitSet
                      /\ Len(result.plan) = Cardinality(unitSet)
                      /\ \A e \in OrderEdges(reg, unitSet) :
                           IF kind = "start" THEN PlannedBefore(First(reg, e), Second(reg, e))
                                             ELSE PlannedBefore(Second(reg, e), First(reg, e))
    BY DEF PlanRespectsOrdering
  <2>1. pc = "done" /\ Sorting
    BY DEF IInv, TypeOK, PhaseInv, Sorting
  <2>2. /\ Len(sorted) = Cardinality(unitSet)
        /\ result.plan = (IF kind = "start" THEN sorted ELSE Reversed(sorted))
        /\ sorted \in Seq(Units) /\ reg \in Registry /\ unitSet \in SUBSET Units
        /\ edges = OrderEdges(reg, unitSet)
    BY <2>1 DEF IInv, ResultInv, TypeOK, DegreeInv
  <2>3. Elements(sorted) = unitSet
    BY <2>1, <2>2, SortedAll
  <2>4. ASSUME NEW e \in OrderEdges(reg, unitSet)
        PROVE  \E i, j \in DOMAIN sorted : i < j /\ sorted[i] = First(reg, e) /\ sorted[j] = Second(reg, e)
    <3>1. Second(reg, e) \in unitSet
      BY <2>2, OrderEdgesInside
    <3>2. PICK j \in DOMAIN sorted : sorted[j] = Second(reg, e)
      BY <2>3, <3>1 DEF Elements
    <3>3. QED BY <2>1, <2>2, <3>2 DEF IInv, KahnInv
  <2>5. CASE kind = "start"
    BY <2>2, <2>3, <2>4, <2>5 DEF PlannedBefore
  <2>6. CASE kind # "start"
    <3> DEFINE n == Len(sorted)
    <3>1. /\ n \in Nat /\ DOMAIN sorted = 1 .. n /\ result.plan = [i \in 1 .. n |-> sorted[n + 1 - i]]
          /\ Len(result.plan) = n
      BY <2>2, <2>6 DEF Reversed
    <3>2. ASSUME NEW i \in DOMAIN sorted
          PROVE  n + 1 - i \in DOMAIN result.plan /\ result.plan[n + 1 - i] = sorted[i]
      <4>1. n + 1 - i \in 1 .. n /\ n + 1 - (n + 1 - i) = i
        BY <3>1
      <4>2. QED BY <3>1, <4>1
    <3>3. Elements(result.plan) = Elements(sorted)
      <4>1. ASSUME NEW i \in DOMAIN result.plan PROVE result.plan[i] \in Elements(sorted)
        BY <3>1 DEF Elements
      <4>2. ASSUME NEW i \in DOMAIN sorted PROVE sorted[i] \in Elements(result.plan)
        BY <3>2 DEF Elements
      <4>3. QED BY <4>1, <4>2 DEF Elements
    <3>4. ASSUME NEW e \in OrderEdges(reg, unitSet)
          PROVE  PlannedBefore(Second(reg, e), First(reg, e))
      <4>1. PICK i \in DOMAIN sorted, j \in DOMAIN sorted :
              i < j /\ sorted[i] = First(reg, e) /\ sorted[j] = Second(reg, e)
        BY <2>4
      <4>2. n + 1 - j < n + 1 - i
        BY <3>1, <4>1
      <4>3. QED BY <3>2, <4>1, <4>2 DEF PlannedBefore
    <3>5. QED BY <2>2, <2>3, <2>6, <3>1, <3>3, <3>4
  <2>7. QED BY <2>5, <2>6
<1>2. QED BY Invariance, <1>1, PTL

\* OrderingCycle is returned only when the units left over wait on each other,
\* and a plan only when no units do.
THEOREM CycleCorrect == Spec => []CycleErrorIsReal
<1>1. ASSUME IInv, result.tag = "cycle" PROVE Deadlocked(unitSet \ Elements(sorted))
  <2>1. pc = "done" /\ Sorting
    BY <1>1 DEF IInv, TypeOK, PhaseInv, Sorting
  <2>2. /\ ready = <<>> /\ Len(sorted) # Cardinality(unitSet)
        /\ reg \in Registry /\ unitSet \in SUBSET Units /\ edges = OrderEdges(reg, unitSet)
        /\ \A v \in Units : inDegree[v] = Cardinality(Waiting(v))
        /\ \A v \in unitSet : inDegree[v] = 0 <=> v \in Elements(ready) \cup Elements(sorted)
        /\ Elements(sorted) \subseteq unitSet
    BY <1>1, <2>1 DEF IInv, ResultInv, TypeOK, DegreeInv, KahnInv
  <2>3. unitSet \ Elements(sorted) # {}
    BY <1>1, <2>1, <2>2, SortedAll
  <2>4. ASSUME NEW v \in unitSet \ Elements(sorted)
        PROVE  \E x \in unitSet \ Elements(sorted) : Precedes(reg, unitSet, x, v)
    <3>1. Elements(ready) = {}
      BY <2>2 DEF Elements
    <3>2. Waiting(v) # {}
      BY <2>2, <3>1, FS_EmptySet
    <3>3. PICK e \in edges : Second(reg, e) = v /\ First(reg, e) \notin Elements(sorted)
      BY <3>2 DEF Waiting
    <3>4. First(reg, e) \in unitSet
      BY <2>2, <3>3, OrderEdgesInside
    <3>5. QED BY <2>2, <3>3, <3>4 DEF Precedes
  <2>5. QED BY <2>3, <2>4 DEF Deadlocked
<1>2. ASSUME IInv, result.tag = "ok", NEW S \in SUBSET unitSet, Deadlocked(S) PROVE FALSE
  <2>1. pc = "done" /\ Sorting
    BY <1>2 DEF IInv, TypeOK, PhaseInv, Sorting
  <2>2. Len(sorted) = Cardinality(unitSet) /\ edges = OrderEdges(reg, unitSet) /\ sorted \in Seq(Units)
    BY <1>2, <2>1 DEF IInv, ResultInv, DegreeInv, TypeOK
  <2>3. Elements(sorted) = unitSet
    BY <1>2, <2>1, <2>2, SortedAll
  <2> DEFINE T == {i \in DOMAIN sorted : sorted[i] \in S}
  <2>4. T \in SUBSET Nat /\ T # {}
    BY <1>2, <2>2, <2>3 DEF Elements, Deadlocked
  <2>5. PICK j \in T : \A i \in T : j <= i
    <3> HIDE DEF T
    <3>1. QED BY <2>4, FirstPosition
  <2>6. PICK x \in S : Precedes(reg, unitSet, x, sorted[j])
    BY <1>2, <2>5 DEF Deadlocked
  <2>7. PICK e \in edges : First(reg, e) = x /\ Second(reg, e) = sorted[j]
    BY <2>2, <2>6 DEF Precedes
  <2>8. PICK i \in DOMAIN sorted : i < j /\ sorted[i] = First(reg, e)
    BY <1>2, <2>1, <2>5, <2>7 DEF IInv, KahnInv
  <2>9. i \in T /\ i \in Nat /\ j \in Nat
    BY <2>4, <2>5, <2>6, <2>7, <2>8
  <2>10. QED BY <2>5, <2>8, <2>9
<1>3. IInv => CycleErrorIsReal
  BY <1>1, <1>2 DEF CycleErrorIsReal
<1>4. QED BY Invariance, <1>3, PTL

------------------------------------------------------------------------------
(***************************************************************************)
(* The plan is the one of the reference definition.                        *)
(***************************************************************************)

\* The sort places no more units than there are.
LEMMA SortedFits ==
  IInv /\ Sorting =>
    /\ Len(sorted) \in Nat /\ Cardinality(unitSet) \in Nat
    /\ Len(sorted) <= Cardinality(unitSet)
<1> SUFFICES ASSUME IInv, Sorting
             PROVE  /\ Len(sorted) \in Nat /\ Cardinality(unitSet) \in Nat
                    /\ Len(sorted) <= Cardinality(unitSet)
  OBVIOUS
<1>1. /\ sorted \in Seq(Units) /\ unitSet \in SUBSET Units /\ Injective(sorted)
      /\ Elements(sorted) \subseteq unitSet
  BY DEF IInv, TypeOK, KahnInv
<1> DEFINE n == Len(sorted)
<1>2. DOMAIN sorted = 1 .. n /\ n \in Nat
  BY <1>1
<1>3. sorted \in [1 .. n -> unitSet]
  <2>1. \A i \in 1 .. n : sorted[i] \in unitSet
    BY <1>1, <1>2 DEF Elements
  <2>2. sorted = [i \in 1 .. n |-> sorted[i]]
    BY <1>1
  <2>3. QED BY <2>1, <2>2
<1>4. sorted \in Injection(1 .. n, unitSet)
  BY <1>1, <1>2, <1>3 DEF Injection, IsInjective, Injective
<1>5. IsFiniteSet(unitSet) /\ Cardinality(unitSet) \in Nat
  BY <1>1, UnitsAssumption, FS_Subset, FS_CardinalityType
<1> HIDE DEF n
<1>6. Cardinality(1 .. n) = n
  <2>1. Cardinality(1 .. n) = IF 1 > n THEN 0 ELSE n - 1 + 1
    BY <1>2, FS_Interval
  <2>2. QED BY <1>2, <2>1
<1>7. Cardinality(1 .. n) <= Cardinality(unitSet)
  BY <1>4, <1>5, FS_Injection
<1>8. QED BY <1>2, <1>5, <1>6, <1>7 DEF n

\* An in-degree is zero when every predecessor is sorted.
LEMMA ZeroMeansPlaceable ==
  IInv /\ (pc = "ready" \/ Sorting) =>
    \A v \in unitSet : inDegree[v] = 0
      <=> \A x \in unitSet : Precedes(reg, unitSet, x, v) => x \in Elements(sorted)
<1> SUFFICES ASSUME IInv, pc = "ready" \/ Sorting, NEW v \in unitSet
             PROVE  inDegree[v] = 0
               <=> \A x \in unitSet : Precedes(reg, unitSet, x, v) => x \in Elements(sorted)
  OBVIOUS
<1>1. /\ reg \in Registry /\ unitSet \in SUBSET Units /\ edges = OrderEdges(reg, unitSet)
      /\ inDegree[v] = Cardinality(Waiting(v))
  BY DEF IInv, TypeOK, DegreeInv
<1>2. IsFiniteSet(Waiting(v))
  <2>1. Waiting(v) \subseteq OrderEdges(reg, unitSet)
    BY <1>1 DEF Waiting
  <2>2. IsFiniteSet(OrderEdges(reg, unitSet))
    BY <1>1, OrderEdgesInside
  <2>3. QED BY <2>1, <2>2, FS_Subset
<1>3. inDegree[v] = 0 <=> Waiting(v) = {}
  BY <1>1, <1>2, FS_EmptySet
<1>4. \A e \in edges : First(reg, e) \in unitSet
  BY <1>1, OrderEdgesInside
<1>5. QED BY <1>1, <1>3, <1>4 DEF Waiting, Precedes

\* The first queue is the reference's.
LEMMA InitReadyReference == IInv /\ IInv' /\ ReferenceInv /\ InitReady => ReferenceInv'
<1> SUFFICES ASSUME IInv, IInv', ReferenceInv, InitReady PROVE ReferenceInv'
  OBVIOUS
<1> DEFINE Z == {v \in unitSet : inDegree[v] = 0}
<1>1. /\ unitSet \in SUBSET Units /\ pc = "ready" /\ sorted = <<>>
      /\ ready' \in Ascending(Z)
      /\ reg' = reg /\ unitSet' = unitSet /\ sorted' = sorted /\ result' = result /\ anchor' = anchor
  BY DEF IInv, TypeOK, PhaseInv, InitReady, request
<1>2. Z = Placeable(reg, unitSet, {}, {})
  <2>1. Elements(sorted) = {}
    BY <1>1 DEF Elements
  <2>2. \A v \in unitSet : inDegree[v] = 0
          <=> \A x \in unitSet : Precedes(reg, unitSet, x, v) => x \in {}
    BY <1>1, <2>1, ZeroMeansPlaceable
  <2>3. QED BY <2>2 DEF Placeable
<1>3. ready' = InOrder(Z)
  <2>1. Z \in SUBSET Units
    BY <1>1
  <2> HIDE DEF Z
  <2>2. QED BY <1>1, <2>1, InOrderIsSort
<1>4. [ready |-> ready', sorted |-> sorted'] = FirstQueue(reg, unitSet)
  <2> HIDE DEF Z
  <2>1. QED BY <1>1, <1>2, <1>3 DEF FirstQueue
<1>5. Len(sorted') = 0
  BY <1>1
<1>6. Turns(reg, unitSet)[0] = FirstQueue(reg, unitSet)
  BY <1>1, TurnsUnfolds
<1>7. Turns(reg', unitSet')[Len(sorted')] = [ready |-> ready', sorted |-> sorted']
  BY <1>1, <1>4, <1>5, <1>6
<1>8. QED BY <1>1, <1>7 DEF ReferenceInv

\* A turn of the loop is a turn of the reference: what it enqueues, found by
\* counting edges, are the units whose predecessors are all placed.
LEMMA PopReadyReference == IInv /\ IInv' /\ ReferenceInv /\ PopReady => ReferenceInv'
<1> SUFFICES ASSUME IInv, IInv', ReferenceInv, PopReady PROVE ReferenceInv'
  OBVIOUS
<1> DEFINE u       == Head(ready)
           Hits(v) == Cardinality(Entering(Leaving(u), v))
           next    == {v \in unitSet : Hits(v) > 0 /\ inDegree[v] = Hits(v)}
<1>1. PICK s \in Ascending(next) : ready' = Tail(ready) \o s
  BY DEF PopReady
<1>2. /\ unitSet \in SUBSET Units /\ ready \in Seq(Units) /\ sorted \in Seq(Units)
      /\ Sorting /\ Sorting' /\ ready # <<>> /\ sorted' = Append(sorted, u)
      /\ reg' = reg /\ unitSet' = unitSet /\ result' = result /\ anchor' = anchor
  BY DEF IInv, TypeOK, PopReady, Sorting, request
<1>3. /\ Elements(ready) \cup Elements(sorted) \subseteq unitSet
      /\ \A v \in unitSet : inDegree[v] = 0 <=> v \in Elements(ready) \cup Elements(sorted)
  BY <1>2 DEF IInv, KahnInv
<1>4. \A v \in unitSet : inDegree'[v] = 0 <=> v \in Elements(ready') \cup Elements(sorted')
  BY <1>2 DEF IInv, KahnInv, Elements
<1>5. \A v \in unitSet : inDegree'[v] = 0
        <=> \A x \in unitSet : Precedes(reg, unitSet, x, v) => x \in Elements(sorted')
  <2>1. (IInv /\ (pc = "ready" \/ Sorting) =>
          \A v \in unitSet : inDegree[v] = 0
            <=> \A x \in unitSet : Precedes(reg, unitSet, x, v) => x \in Elements(sorted))'
    BY ZeroMeansPlaceable, PTL
  <2>2. QED BY <1>2, <2>1, SMTT(30) DEF Precedes, Elements
<1>6. /\ u \in Units /\ Tail(ready) \in Seq(Units)
      /\ Elements(ready) = {u} \cup Elements(Tail(ready))
  BY <1>2, PopFront
<1>7. next \in SUBSET Units /\ next \cap (Elements(ready) \cup Elements(sorted)) = {}
  <2>1. ASSUME NEW v \in next PROVE inDegree[v] # 0
    OBVIOUS
  <2>2. QED BY <1>2, <1>3, <2>1
<1>8. next \subseteq unitSet
  OBVIOUS
<1> HIDE DEF next
<1>9. s \in Seq(Units) /\ Elements(s) = next /\ s = InOrder(next)
  BY <1>1, <1>7, AscendingSeq, InOrderIsSort
<1>10. Elements(ready') = Elements(Tail(ready)) \cup next
  <2>1. \A x, y \in Seq(Units) : Elements(x \o y) = Elements(x) \cup Elements(y)
    BY ElementsConcat
  <2>2. Elements(Tail(ready) \o s) = Elements(Tail(ready)) \cup Elements(s)
    BY <1>6, <1>9, <2>1, Zenon
  <2>3. QED BY <1>1, <1>9, <2>2
<1>11. Elements(sorted') = Elements(sorted) \cup {u}
  BY <1>2, <1>6, ElementsAppend
<1>12. next = Placeable(reg, unitSet, Elements(sorted'), Elements(sorted') \cup Elements(ready))
  <2> DEFINE seen == Elements(sorted') \cup Elements(ready)
  <2>1. seen = Elements(ready) \cup Elements(sorted)
    BY <1>6, <1>11
  <2>2. \A v \in unitSet : v \in next <=> v \notin seen /\ inDegree'[v] = 0
    BY <1>4, <1>6, <1>7, <1>10, <1>11, <2>1
  <2> HIDE DEF seen
  <2>3. \A v \in unitSet : v \in next
          <=> v \notin seen /\ \A x \in unitSet : Precedes(reg, unitSet, x, v) => x \in Elements(sorted')
    BY <1>5, <2>2
  <2>4. next = Placeable(reg, unitSet, Elements(sorted'), seen)
    BY <1>8, <2>3 DEF Placeable
  <2>5. QED BY <2>4 DEF seen
<1> DEFINE k == [ready |-> ready, sorted |-> sorted]
<1>13. Turn(reg, unitSet, k) = [ready |-> ready', sorted |-> sorted']
  <2>1. k.ready = ready /\ k.sorted = sorted
    OBVIOUS
  <2> HIDE DEF k
  <2>2. Turn(reg, unitSet, k) =
          [ready  |-> Tail(ready) \o InOrder(Placeable(reg, unitSet, Elements(sorted'),
                                                       Elements(sorted') \cup Elements(ready))),
           sorted |-> sorted']
    BY <1>2, <2>1 DEF Turn
  <2>3. QED BY <1>1, <1>9, <1>12, <2>2
<1>14. Turns(reg, unitSet)[Len(sorted)] = k
  BY <1>2 DEF ReferenceInv
<1> HIDE DEF k
<1>15. Len(sorted) \in 0 .. Cardinality(unitSet) /\ Len(sorted) # Cardinality(unitSet)
  <2>1. (IInv /\ Sorting =>
          /\ Len(sorted) \in Nat /\ Cardinality(unitSet) \in Nat
          /\ Len(sorted) <= Cardinality(unitSet))'
    BY SortedFits, PTL
  <2>2. Len(sorted') <= Cardinality(unitSet) /\ Len(sorted) \in Nat /\ Cardinality(unitSet) \in Nat
    BY <1>2, <2>1, SortedFits
  <2>3. Len(sorted') = Len(sorted) + 1
    BY <1>2, <1>6
  <2>4. QED BY <2>2, <2>3
<1>16. Turns(reg, unitSet)[Len(sorted) + 1] = Turn(reg, unitSet, Turns(reg, unitSet)[Len(sorted)])
  BY <1>2, <1>15, TurnsUnfolds
<1>17. Len(sorted') = Len(sorted) + 1
  BY <1>2, <1>6
<1>18. Turns(reg', unitSet')[Len(sorted')] = [ready |-> ready', sorted |-> sorted']
  BY <1>2, <1>13, <1>14, <1>16, <1>17
<1>19. QED BY <1>2, <1>18 DEF ReferenceInv

\* The other steps leave the sort alone.
LEMMA OtherReference ==
  ASSUME IInv, ReferenceInv,
         LookupFails \/ LookupAnchor \/ ExpandClosure \/ BuildEdges \/ Finish \/ UNCHANGED vars
  PROVE  ReferenceInv'
<1>1. CASE LookupFails
  BY <1>1 DEF ReferenceInv, LookupFails, Sorting, Outcome, request
<1>2. CASE LookupAnchor
  BY <1>2 DEF IInv, PhaseInv, ReferenceInv, LookupAnchor, Sorting, request
<1>3. CASE ExpandClosure
  BY <1>3 DEF IInv, PhaseInv, ReferenceInv, ExpandClosure, Sorting, request
<1>4. CASE BuildEdges
  BY <1>4 DEF IInv, PhaseInv, ReferenceInv, BuildEdges, Sorting, request
<1>5. CASE Finish
  BY <1>5 DEF ReferenceInv, Finish, Sorting, Outcome, request
<1>6. CASE UNCHANGED vars
  BY <1>6 DEF ReferenceInv, vars, Sorting
<1>7. QED BY <1>1, <1>2, <1>3, <1>4, <1>5, <1>6

\* Whatever order the hash maps are iterated in, for every registry and every
\* anchor, the answer is the one the reference definition gives.
THEOREM PlanDetermined == Spec => []PlanIsDeterministic
<1>1. Init => ReferenceInv
  BY DEF Init, ReferenceInv, Sorting, Outcome
<1>2. IInv /\ IInv' /\ ReferenceInv /\ [Next]_vars => ReferenceInv'
  BY InitReadyReference, PopReadyReference, OtherReference DEF Next
<1>3. IInv /\ ReferenceInv => PlanIsDeterministic
  <2> SUFFICES ASSUME IInv, ReferenceInv, pc = "done"
               PROVE  LET p == Plan(reg, kind, anchor)
                      IN  (p.ok <=> result.tag = "ok") /\ result.plan = p.units
    BY DEF PlanIsDeterministic
  <2>1. CASE result.tag = "unknown"
    BY <2>1 DEF ReferenceInv, Plan, NoPlan
  <2>2. CASE result.tag # "unknown"
    <3> DEFINE C == ClosureOf(reg, kind, anchor)
               p == Plan(reg, kind, anchor)
    <3>1. /\ reg \in Registry /\ unitSet \in SUBSET Units /\ anchor \in unitSet /\ pending = <<>>
          /\ result.tag \in {"ok", "cycle"} /\ Sorting /\ anchor \in Units /\ ready = <<>>
      BY <2>2 DEF IInv, TypeOK, PhaseInv, ResultInv, Sorting
    <3>2. unitSet = C
      <4>1. ClosedUnder(reg, kind, unitSet)
        <5>1. Elements(pending) = {}
          BY <3>1 DEF Elements
        <5>2. QED BY <5>1 DEF IInv, ClosureInv, ClosedUnder
      <4>2. C \in SUBSET Units /\ anchor \in C /\ ClosedUnder(reg, kind, C) /\ C \subseteq unitSet
        BY <3>1, <4>1, ClosureOfIsLeast
      <4> HIDE DEF C
      <4>3. unitSet \subseteq C
        BY <4>2 DEF IInv, ClosureInv, Closed, ClosedUnder
      <4>4. QED BY <4>2, <4>3
    <3>3. TopologicalOrder(reg, unitSet) = sorted
      <4>1. Turns(reg, unitSet)[Len(sorted)] = [ready |-> ready, sorted |-> sorted]
        BY <3>1 DEF ReferenceInv
      <4>2. Len(sorted) \in 0 .. Cardinality(unitSet)
        BY <3>1, SortedFits
      <4>3. Turns(reg, unitSet)[Len(sorted)].ready = <<>> /\ Turns(reg, unitSet)[Len(sorted)].sorted = sorted
        BY <3>1, <4>1
      <4>4. QED BY <3>1, <4>2, <4>3, TurnsSettle
    <3>4. p = IF Len(sorted) # Cardinality(unitSet) THEN NoPlan
              ELSE [ok |-> TRUE, units |-> IF kind = "start" THEN sorted ELSE Reversed(sorted)]
      <4> HIDE DEF C
      <4>1. p = LET s == TopologicalOrder(reg, C)
                IN  IF Len(s) # Cardinality(C) THEN NoPlan
                    ELSE [ok |-> TRUE, units |-> IF kind = "start" THEN s ELSE Reversed(s)]
        BY <3>1 DEF Plan, C
      <4>2. QED BY <3>2, <3>3, <4>1
    <3> HIDE DEF p
    <3>5. ASSUME result.tag = "ok" PROVE (p.ok <=> result.tag = "ok") /\ result.plan = p.units
      <4>1. Len(sorted) = Cardinality(unitSet)
            /\ result.plan = (IF kind = "start" THEN sorted ELSE Reversed(sorted))
        BY <3>5 DEF IInv, ResultInv
      <4>2. QED BY <3>4, <3>5, <4>1
    <3>6. ASSUME result.tag = "cycle" PROVE (p.ok <=> result.tag = "ok") /\ result.plan = p.units
      <4>1. Len(sorted) # Cardinality(unitSet) /\ result.plan = <<>>
        BY <3>6 DEF IInv, ResultInv, ReferenceInv
      <4>2. QED BY <3>4, <3>6, <4>1 DEF NoPlan
    <3>7. QED BY <3>1, <3>5, <3>6 DEF p
  <2>3. QED BY <2>1, <2>2
<1>4. QED BY Invariance, <1>1, <1>2, <1>3, PTL DEF Spec


------------------------------------------------------------------------------
\* Both loops end

\* A unit is queued once, and nothing is sorted before the sort.
QueueInv ==
  /\ Injective(pending)
  /\ ~Sorting => sorted = <<>>

\* The units whose neighbours have been collected.
Expanded == unitSet \ Elements(pending)

PhasesLeft ==
  IF pc = "lookup" THEN 4 ELSE IF pc = "closure" THEN 3 ELSE IF pc = "ready" THEN 2
  ELSE IF pc = "sort" THEN 1 ELSE 0

\* What is left to do: phases, units to expand and units to sort.
Work ==
  PhasesLeft + (Cardinality(Units) - Cardinality(Expanded)) + (Cardinality(Units) - Len(sorted))

\* What is expanded is a set of units.
LEMMA ExpandedFinite ==
  ASSUME TypeOK
  PROVE  /\ Expanded \in SUBSET Units /\ IsFiniteSet(Expanded)
         /\ Cardinality(Expanded) \in Nat /\ Cardinality(Units) \in Nat
         /\ Cardinality(Expanded) <= Cardinality(Units)
<1>1. Expanded \in SUBSET Units
  BY DEF TypeOK, Expanded
<1>2. QED BY <1>1, UnitsAssumption, FS_Subset, FS_CardinalityType

\* A turn of the breadth-first loop expands one unit more, for good.
LEMMA ExpandClosureWorks ==
  IInv /\ QueueInv /\ ExpandClosure =>
    Injective(pending)' /\ Cardinality(Expanded)' = Cardinality(Expanded) + 1
<1> SUFFICES ASSUME IInv, QueueInv, ExpandClosure
             PROVE  Injective(pending)' /\ Cardinality(Expanded)' = Cardinality(Expanded) + 1
  OBVIOUS
<1> DEFINE u   == Head(pending)
           new == Neighbours(reg, kind, u) \ unitSet
<1>1. PICK s \in Ascending(new) : pending' = Tail(pending) \o s
  BY DEF ExpandClosure
<1>2. /\ TypeOK /\ reg \in Registry /\ unitSet \in SUBSET Units /\ pending \in Seq(Units)
      /\ pending # <<>> /\ unitSet' = unitSet \cup new /\ Elements(pending) \subseteq unitSet
  BY DEF IInv, TypeOK, ClosureInv, ExpandClosure
<1>3. /\ u \in Units /\ Tail(pending) \in Seq(Units)
      /\ Elements(pending) = {u} \cup Elements(Tail(pending))
      /\ Injective(Tail(pending)) /\ u \notin Elements(Tail(pending))
  BY <1>2, PopFront DEF QueueInv
<1>4. new \in SUBSET Units
  BY <1>2, <1>3, NeighboursAreUnits
<1>5. s \in Seq(Units) /\ Elements(s) = new /\ Injective(s)
  BY <1>1, <1>4, AscendingSeq
<1>6. new \cap unitSet = {}
  OBVIOUS
<1> HIDE DEF u, new
<1>7. Injective(pending')
  <2>1. Elements(Tail(pending)) \cap Elements(s) = {}
    BY <1>2, <1>3, <1>5, <1>6
  <2>2. QED BY <1>1, <1>3, <1>5, <2>1, InjectiveConcat
<1>8. Elements(pending') = Elements(Tail(pending)) \cup new
  <2>1. \A x, y \in Seq(Units) : Elements(x \o y) = Elements(x) \cup Elements(y)
    BY ElementsConcat
  <2>2. QED BY <1>1, <1>3, <1>5, <2>1, Zenon
<1>9. Expanded' = Expanded \cup {u} /\ u \notin Expanded
  <2>1. Expanded' = unitSet' \ Elements(pending')
    BY DEF Expanded, Elements
  <2>2. QED BY <1>2, <1>3, <1>6, <1>8, <2>1 DEF Expanded
<1>10. Cardinality(Expanded \cup {u}) = Cardinality(Expanded) + 1
  BY <1>2, <1>9, ExpandedFinite, FS_AddElement
<1>11. Cardinality(Expanded)' = Cardinality(Expanded')
  OBVIOUS
<1>12. QED BY <1>7, <1>9, <1>10, <1>11 DEF Injective

\* Queues stay queues.
LEMMA NextQueueInv == IInv /\ IInv' /\ QueueInv /\ [Next]_vars => QueueInv'
<1> SUFFICES ASSUME IInv, IInv', QueueInv, [Next]_vars PROVE QueueInv'
  OBVIOUS
<1>1. ASSUME UNCHANGED <<pending, sorted>>, Sorting => Sorting' PROVE QueueInv'
  BY <1>1 DEF QueueInv, Injective
<1>2. CASE ExpandClosure
  <2>1. Injective(pending)' /\ UNCHANGED <<sorted, pc, result>>
    BY <1>2, ExpandClosureWorks DEF ExpandClosure
  <2>2. QED BY <2>1 DEF QueueInv, Sorting
<1>3. CASE LookupAnchor
  <2>1. pending' = <<anchor>> /\ UNCHANGED <<sorted, result>> /\ pc = "lookup"
    BY <1>3 DEF LookupAnchor
  <2>2. Injective(pending')
    BY <2>1 DEF Injective
  <2>3. sorted = <<>>
    BY <2>1 DEF IInv, PhaseInv
  <2>4. QED BY <2>1, <2>2, <2>3 DEF QueueInv, Injective
<1>4. CASE PopReady
  <2>1. pc' = "sort" /\ UNCHANGED pending
    BY <1>4 DEF PopReady
  <2>2. QED BY <2>1 DEF QueueInv, Sorting, Injective
<1>5. CASE LookupFails \/ BuildEdges
  BY <1>1, <1>5 DEF LookupFails, BuildEdges, Sorting, IInv, PhaseInv
<1>6. CASE InitReady \/ Finish
  BY <1>1, <1>6 DEF InitReady, Finish, Sorting, Outcome
<1>7. CASE UNCHANGED vars
  BY <1>1, <1>7 DEF vars, Sorting
<1>8. QED BY <1>2, <1>3, <1>4, <1>5, <1>6, <1>7 DEF Next

\* What is left to do is a number,
LEMMA WorkIsNumber == IInv /\ QueueInv => Work \in Nat
<1> SUFFICES ASSUME IInv, QueueInv PROVE Work \in Nat
  OBVIOUS
<1>1. /\ Cardinality(Expanded) \in Nat /\ Cardinality(Units) \in Nat
      /\ Cardinality(Expanded) <= Cardinality(Units)
  BY ExpandedFinite DEF IInv
<1>2. Len(sorted) \in Nat /\ Len(sorted) <= Cardinality(Units)
  <2>1. CASE Sorting
    <3>1. Len(sorted) \in 0 .. Cardinality(unitSet) /\ unitSet \in SUBSET Units
      BY <2>1, SortedFits DEF IInv, TypeOK
    <3>2. Cardinality(unitSet) \in Nat /\ Cardinality(unitSet) <= Cardinality(Units)
      BY <3>1, UnitsAssumption, FS_Subset, FS_CardinalityType
    <3>3. QED BY <1>1, <3>1, <3>2
  <2>2. CASE ~Sorting
    BY <1>1, <2>2 DEF QueueInv
  <2>3. QED BY <2>1, <2>2
<1>3. PhasesLeft \in Nat
  BY DEF PhasesLeft
<1>4. QED BY <1>1, <1>2, <1>3 DEF Work

\* and every step leaves less.
LEMMA NextWorks == IInv /\ QueueInv /\ Next => Work' < Work
<1> SUFFICES ASSUME IInv, QueueInv, Next PROVE Work' < Work
  OBVIOUS
<1>1. Cardinality(Expanded) \in Nat /\ Cardinality(Units) \in Nat /\ sorted \in Seq(Units)
  BY ExpandedFinite DEF IInv, TypeOK
<1>2. Len(sorted) \in Nat
  BY <1>1
<1>3. ASSUME UNCHANGED <<Expanded, sorted>>, PhasesLeft \in Nat, PhasesLeft' \in Nat,
             PhasesLeft' < PhasesLeft
      PROVE  Work' < Work
  BY <1>1, <1>2, <1>3 DEF Work
<1>4. CASE LookupFails \/ BuildEdges \/ InitReady \/ Finish
  <2>1. UNCHANGED <<Expanded, sorted>>
    BY <1>4 DEF LookupFails, BuildEdges, InitReady, Finish, Expanded, Elements
  <2>2. PhasesLeft \in Nat /\ PhasesLeft' \in Nat /\ PhasesLeft' < PhasesLeft
    BY <1>4 DEF LookupFails, BuildEdges, InitReady, Finish, PhasesLeft
  <2>3. QED BY <1>3, <2>1, <2>2
<1>5. CASE LookupAnchor
  <2>1. /\ pc = "lookup" /\ pc' = "closure" /\ unitSet' = {anchor} /\ pending' = <<anchor>>
        /\ UNCHANGED sorted /\ unitSet = {}
    BY <1>5 DEF LookupAnchor, IInv, PhaseInv
  <2>2. Elements(pending)' = {anchor}
    BY <2>1 DEF Elements
  <2>3. UNCHANGED Expanded
    BY <2>1, <2>2 DEF Expanded
  <2>4. QED BY <1>3, <2>1, <2>3 DEF PhasesLeft
<1>6. CASE ExpandClosure
  <2>1. Cardinality(Expanded)' = Cardinality(Expanded) + 1
    BY <1>6, ExpandClosureWorks
  <2>2. pc = "closure" /\ UNCHANGED <<pc, sorted>>
    BY <1>6 DEF ExpandClosure
  <2>3. PhasesLeft = 3 /\ PhasesLeft' = 3
    BY <2>2 DEF PhasesLeft
  <2>4. Work' = 3 + (Cardinality(Units) - (Cardinality(Expanded) + 1)) + (Cardinality(Units) - Len(sorted))
    BY <2>1, <2>2, <2>3 DEF Work
  <2>5. QED BY <1>1, <1>2, <2>3, <2>4 DEF Work
<1>7. CASE PopReady
  <2>1. /\ pc = "sort" /\ UNCHANGED <<pc, unitSet, pending>>
        /\ ready # <<>> /\ sorted' = Append(sorted, Head(ready))
    BY <1>7 DEF PopReady
  <2>2. Len(sorted') = Len(sorted) + 1
    BY <1>1, <2>1
  <2>3. UNCHANGED Expanded /\ PhasesLeft = 1 /\ PhasesLeft' = 1
    BY <2>1 DEF Expanded, Elements, PhasesLeft
  <2>4. QED BY <1>1, <1>2, <2>2, <2>3 DEF Work
<1>8. QED BY <1>4, <1>5, <1>6, <1>7 DEF Next

\* Both loops end, requirement cycles or not: every step of a request leaves
\* less to do, and what is left is a natural number, at most 2 |Units| + 4 at
\* the start.  This is Terminates without its fairness.
THEOREM StepsAreBounded == Spec => [](Work \in Nat) /\ [][Work' < Work]_vars
<1>1. Init => QueueInv
  BY DEF Init, QueueInv, Injective
<1>2. IInv /\ QueueInv /\ [Next]_vars => [Work' < Work]_vars
  BY NextWorks
<1>3. QED BY Invariance, <1>1, <1>2, NextQueueInv, WorkIsNumber, PTL DEF Spec

\* The bound at the start.
THEOREM WorkAtStart == Init => Work = 2 * Cardinality(Units) + 4
<1> SUFFICES ASSUME Init PROVE Work = 2 * Cardinality(Units) + 4
  OBVIOUS
<1>1. Expanded = {} /\ Len(sorted) = 0 /\ PhasesLeft = 4
  BY DEF Init, Expanded, PhasesLeft
<1>2. Cardinality(Expanded) = 0 /\ Cardinality(Units) \in Nat
  BY <1>1, UnitsAssumption, FS_EmptySet, FS_CardinalityType
<1>3. QED BY <1>1, <1>2 DEF Work

==============================================================================
