--------------------------- MODULE UnitGraphProofs ---------------------------
(***************************************************************************)
(* Facts about sequences, directives and the reference definition of the   *)
(* plans, for every set of units and every registry.                       *)
(*                                                                         *)
(* Reached and Turns are recursive functions.  Nothing is known of such a  *)
(* function until one is shown to exist that satisfies its equation; that, *)
(* and every fact about all its values, is proved by taking the least      *)
(* argument at which it fails (FirstPosition).                             *)
(***************************************************************************)
EXTENDS UnitGraph, FiniteSetTheorems, TLAPS

Injective(s) == \A i, j \in DOMAIN s : s[i] = s[j] => i = j

\* A set of positions has a first one.
LEMMA FirstPosition ==
  ASSUME NEW T \in SUBSET Nat, T # {}
  PROVE  \E i \in T : \A j \in T : i <= j
<1> DEFINE R == OpToRel(<, Nat)
<1>1. \E i \in T : \A j \in T : ~(<<j, i>> \in R)
  BY NatLessThanWellFounded, WFMin
<1>2. \A i, j \in Nat : <<j, i>> \in R <=> j < i
  BY DEF OpToRel
<1> HIDE DEF R
<1>3. PICK i \in T : \A j \in T : ~(<<j, i>> \in R)
  BY <1>1
<1>4. \A j \in T : j \in Nat /\ i \in Nat /\ ~(j < i)
  BY <1>2, <1>3
<1>5. \A j \in T : i <= j
  BY <1>4
<1>6. QED BY <1>5

------------------------------------------------------------------------------
\* Sequences and the set of their elements.

\* Appending adds one element to those of a queue.
LEMMA ElementsAppend ==
  ASSUME NEW S, NEW s \in Seq(S), NEW x \in S
  PROVE  Elements(Append(s, x)) = Elements(s) \cup {x}
<1>1. /\ DOMAIN Append(s, x) = DOMAIN s \cup {Len(s) + 1}
      /\ \A i \in DOMAIN s : Append(s, x)[i] = s[i]
      /\ Append(s, x)[Len(s) + 1] = x
  OBVIOUS
<1>2. Elements(Append(s, x)) \subseteq Elements(s) \cup {x}
  BY <1>1 DEF Elements
<1>3. Elements(s) \cup {x} \subseteq Elements(Append(s, x))
  BY <1>1 DEF Elements
<1>4. QED BY <1>2, <1>3

\* Concatenation unites the elements.
LEMMA ElementsConcat ==
  ASSUME NEW S, NEW s \in Seq(S), NEW t \in Seq(S)
  PROVE  Elements(s \o t) = Elements(s) \cup Elements(t)
<1>1. Elements(s \o t) \subseteq Elements(s) \cup Elements(t)
  BY DEF Elements
<1>2. ASSUME NEW i \in DOMAIN s PROVE s[i] \in Elements(s \o t)
  <2>1. i \in DOMAIN (s \o t) /\ (s \o t)[i] = s[i]
    OBVIOUS
  <2>2. QED BY <2>1 DEF Elements
<1>3. ASSUME NEW i \in DOMAIN t PROVE t[i] \in Elements(s \o t)
  <2>1. Len(s) + i \in DOMAIN (s \o t) /\ (s \o t)[Len(s) + i] = t[i]
    OBVIOUS
  <2>2. QED BY <2>1 DEF Elements
<1>4. QED BY <1>1, <1>2, <1>3 DEF Elements

\* What pop_front leaves of a queue without repetitions.
LEMMA PopFront ==
  ASSUME NEW S, NEW s \in Seq(S), s # <<>>
  PROVE  /\ Head(s) \in S
         /\ Tail(s) \in Seq(S)
         /\ Elements(s) = {Head(s)} \cup Elements(Tail(s))
         /\ Injective(s) => Injective(Tail(s)) /\ Head(s) \notin Elements(Tail(s))
<1>1. Head(s) \in S /\ Tail(s) \in Seq(S) /\ Len(s) >= 1
  OBVIOUS
<1>2. /\ Head(s) = s[1] /\ 1 \in DOMAIN s
      /\ \A i \in DOMAIN Tail(s) : i + 1 \in DOMAIN s /\ Tail(s)[i] = s[i + 1]
      /\ \A i \in DOMAIN s : i # 1 => i - 1 \in DOMAIN Tail(s) /\ Tail(s)[i - 1] = s[i]
      /\ DOMAIN Tail(s) \subseteq Nat /\ DOMAIN s \subseteq Nat /\ 0 \notin DOMAIN Tail(s)
  OBVIOUS
<1>3. Elements(s) = {Head(s)} \cup Elements(Tail(s))
  <2>1. ASSUME NEW i \in DOMAIN s PROVE s[i] \in {Head(s)} \cup Elements(Tail(s))
    <3>1. CASE i = 1
      BY <1>2, <3>1
    <3>2. CASE i # 1
      BY <1>2, <3>2 DEF Elements
    <3>3. QED BY <3>1, <3>2
  <2>2. {Head(s)} \cup Elements(Tail(s)) \subseteq Elements(s)
    BY <1>2 DEF Elements
  <2>3. QED BY <2>1, <2>2 DEF Elements
<1>4. ASSUME Injective(s) PROVE Injective(Tail(s)) /\ Head(s) \notin Elements(Tail(s))
  <2>1. ASSUME NEW i \in DOMAIN Tail(s), NEW j \in DOMAIN Tail(s), Tail(s)[i] = Tail(s)[j]
        PROVE  i = j
    <3>1. i + 1 = j + 1
      BY <1>2, <1>4, <2>1 DEF Injective
    <3>2. QED BY <3>1, <1>2
  <2>2. ASSUME NEW i \in DOMAIN Tail(s), Tail(s)[i] = Head(s)
        PROVE  FALSE
    <3>1. i + 1 = 1
      BY <1>2, <1>4, <2>2 DEF Injective
    <3>2. QED BY <3>1, <1>2
  <2>3. QED BY <2>1, <2>2 DEF Injective, Elements
<1>5. QED BY <1>1, <1>3, <1>4

\* A queue stays without repetitions when new units are enqueued.
LEMMA InjectiveConcat ==
  ASSUME NEW S, NEW s \in Seq(S), NEW t \in Seq(S), Injective(s), Injective(t),
         Elements(s) \cap Elements(t) = {}
  PROVE  Injective(s \o t)
<1> SUFFICES ASSUME NEW i \in DOMAIN (s \o t), NEW j \in DOMAIN (s \o t),
                    (s \o t)[i] = (s \o t)[j]
             PROVE  i = j
  BY DEF Injective
<1>1. /\ i \in Nat /\ j \in Nat /\ Len(s) \in Nat
      /\ i <= Len(s) => i \in DOMAIN s /\ (s \o t)[i] = s[i]
      /\ j <= Len(s) => j \in DOMAIN s /\ (s \o t)[j] = s[j]
      /\ i > Len(s) => i - Len(s) \in DOMAIN t /\ (s \o t)[i] = t[i - Len(s)]
      /\ j > Len(s) => j - Len(s) \in DOMAIN t /\ (s \o t)[j] = t[j - Len(s)]
  OBVIOUS
<1>2. CASE i <= Len(s) /\ j <= Len(s)
  BY <1>1, <1>2 DEF Injective
<1>3. CASE i > Len(s) /\ j > Len(s)
  <2>1. i - Len(s) = j - Len(s)
    BY <1>1, <1>3 DEF Injective
  <2>2. QED BY <2>1, <1>1
<1>4. CASE i <= Len(s) /\ j > Len(s)
  BY <1>1, <1>4 DEF Elements
<1>5. CASE i > Len(s) /\ j <= Len(s)
  BY <1>1, <1>5 DEF Elements
<1>6. QED BY <1>1, <1>2, <1>3, <1>4, <1>5

\* The same for one unit that was not there.
LEMMA InjectiveAppend ==
  ASSUME NEW S, NEW s \in Seq(S), NEW x \in S, Injective(s), x \notin Elements(s)
  PROVE  Injective(Append(s, x))
<1> SUFFICES ASSUME NEW i \in DOMAIN Append(s, x), NEW j \in DOMAIN Append(s, x),
                    Append(s, x)[i] = Append(s, x)[j]
             PROVE  i = j
  BY DEF Injective
<1>1. /\ i \in DOMAIN s => Append(s, x)[i] = s[i]
      /\ j \in DOMAIN s => Append(s, x)[j] = s[j]
      /\ i \notin DOMAIN s => i = Len(s) + 1 /\ Append(s, x)[i] = x
      /\ j \notin DOMAIN s => j = Len(s) + 1 /\ Append(s, x)[j] = x
  OBVIOUS
<1>2. QED BY <1>1 DEF Injective, Elements

\* The sorted enumeration of a set of units is a sequence of exactly these,
\* without repetitions.
LEMMA AscendingSeq ==
  ASSUME NEW S \in SUBSET Units, NEW s \in Ascending(S)
  PROVE  /\ s \in Seq(Units)
         /\ Elements(s) = S
         /\ Injective(s)
<1>1. IsFiniteSet(S) /\ Cardinality(S) \in Nat
  BY UnitsAssumption, FS_Subset, FS_CardinalityType
<1>2. s \in [1 .. Cardinality(S) -> S]
  BY DEF Ascending
<1>3. s \in Seq(Units)
  BY <1>1, <1>2
<1>4. Elements(s) = S
  BY <1>2 DEF Ascending, Elements
<1>5. Injective(s)
  <2> SUFFICES ASSUME NEW i \in DOMAIN s, NEW j \in DOMAIN s, s[i] = s[j], i # j
               PROVE  FALSE
    BY DEF Injective
  <2>1. i \in Nat /\ j \in Nat /\ s[i] \in Nat /\ s[j] \in Nat
    <3>1. i \in 1 .. Cardinality(S) /\ j \in 1 .. Cardinality(S)
      BY <1>2
    <3>2. s[i] \in S /\ s[j] \in S
      BY <1>2, <3>1
    <3>3. S \subseteq Nat
      BY UnitsAssumption
    <3>4. i \in Nat /\ j \in Nat
      BY <1>1, <3>1
    <3>5. QED BY <3>2, <3>3, <3>4
  <2>2. i < j \/ j < i
    BY <2>1
  <2>3. s[i] < s[j] \/ s[j] < s[i]
    BY <2>2 DEF Ascending
  <2>4. QED BY <2>1, <2>3
<1>6. QED BY <1>3, <1>4, <1>5

------------------------------------------------------------------------------
\* The edges of a registry.

\* Names that are no unit induce no requirement edge.
LEMMA NeighboursAreUnits ==
  ASSUME NEW r \in Registry, NEW k, NEW u \in Units
  PROVE  Neighbours(r, k, u) \subseteq Units
<1>1. RequirementTargets(r, u) \subseteq Units
  BY DEF RequirementTargets, Registry
<1>2. QED BY <1>1 DEF Neighbours, Dependents

EntriesOf(u, d, s) == {[unit |-> u, directive |-> d, i |-> i] : i \in DOMAIN s}

\* The entries of one directive of one unit are finitely many.
LEMMA DirectiveFinite ==
  ASSUME NEW u, NEW d, NEW s \in Seq(Names)
  PROVE  IsFiniteSet(EntriesOf(u, d, s))
<1> DEFINE T == EntriesOf(u, d, s)
           f == [i \in DOMAIN s |-> [unit |-> u, directive |-> d, i |-> i]]
<1>1. DOMAIN s = 1 .. Len(s) /\ Len(s) \in Nat
  OBVIOUS
<1>2. IsFiniteSet(DOMAIN s)
  BY <1>1, FS_Interval
<1>3. f \in Surjection(DOMAIN s, T)
  BY DEF Surjection, EntriesOf
<1>4. QED BY <1>2, <1>3, FS_Surjection

\* So are all After= and Before= entries.
LEMMA OrderEntriesFinite ==
  ASSUME NEW r \in Registry
  PROVE  IsFiniteSet(OrderEntries(r))
<1> DEFINE G(u) == EntriesOf(u, "after", r.after[u]) \cup EntriesOf(u, "before", r.before[u])
           T == {G(u) : u \in Units}
           f == [u \in Units |-> G(u)]
<1>1. ASSUME NEW u \in Units PROVE IsFiniteSet(G(u))
  <2>1. r.after[u] \in Seq(Names) /\ r.before[u] \in Seq(Names)
    BY DEF Registry
  <2>2. IsFiniteSet(EntriesOf(u, "after", r.after[u]))
    BY <2>1, DirectiveFinite
  <2>3. IsFiniteSet(EntriesOf(u, "before", r.before[u]))
    BY <2>1, DirectiveFinite
  <2>4. QED BY <2>2, <2>3, FS_Union
<1>2. IsFiniteSet(T)
  <2> HIDE DEF G
  <2>1. f \in Surjection(Units, T)
    BY DEF Surjection
  <2>2. QED BY <2>1, UnitsAssumption, FS_Surjection
<1>3. \A X \in T : IsFiniteSet(X)
  BY <1>1
<1>4. IsFiniteSet(UNION T)
  BY <1>2, <1>3, FS_UNION
<1>5. QED BY <1>4 DEF OrderEntries, EntriesOf

\* An ordering edge inside S is a finite matter and has both ends in S.
LEMMA OrderEdgesInside ==
  ASSUME NEW r \in Registry, NEW S \in SUBSET Units
  PROVE  /\ OrderEdges(r, S) \subseteq OrderEntries(r)
         /\ IsFiniteSet(OrderEdges(r, S))
         /\ \A e \in OrderEdges(r, S) : First(r, e) \in S /\ Second(r, e) \in S
<1>1. OrderEdges(r, S) \subseteq OrderEntries(r)
  BY DEF OrderEdges
<1>2. IsFiniteSet(OrderEdges(r, S))
  BY <1>1, OrderEntriesFinite, FS_Subset
<1>3. QED BY <1>1, <1>2 DEF OrderEdges, First, Second

------------------------------------------------------------------------------
\* Recursion on the number of turns of a loop.

\* Induction up to a bound, for a property given as the set of numbers with it.
LEMMA UpTo ==
  ASSUME NEW N \in Nat, NEW P \in SUBSET Nat, 0 \in P,
         \A n \in 0 .. N : n # N /\ n \in P => n + 1 \in P
  PROVE  \A n \in 0 .. N : n \in P
<1> DEFINE T == {n \in 0 .. N : n \notin P}
<1>1. ASSUME T # {} PROVE FALSE
  <2>1. T \in SUBSET Nat
    OBVIOUS
  <2>2. PICK m \in T : \A n \in T : m <= n
    <3> HIDE DEF T
    <3>1. QED BY <1>1, <2>1, FirstPosition
  <2>3. m \in 0 .. N /\ m # 0
    BY <2>2
  <2>4. m - 1 \in 0 .. N /\ m - 1 # N /\ m - 1 \notin T /\ (m - 1) + 1 = m
    BY <2>2, <2>3
  <2>5. m - 1 \in P
    BY <2>4
  <2>6. (m - 1) + 1 \in P
    BY <2>4, <2>5
  <2>7. QED BY <2>2, <2>4, <2>6
<1>2. QED BY <1>1

\* f lists a, F[a], F[F[a]] ... up to N applications.
Iteration(f, V, F, a, N) ==
  /\ f \in [0 .. N -> V]
  /\ \A n \in 0 .. N : f[n] = IF n = 0 THEN a ELSE F[f[n - 1]]

\* A function can be iterated any number of times.
LEMMA Iterates ==
  ASSUME NEW V, NEW F \in [V -> V], NEW a \in V, NEW N \in Nat
  PROVE  \E f : Iteration(f, V, F, a, N)
<1> DEFINE Runs(m, f) == \A n \in 0 .. m : f[n] = IF n = 0 THEN a ELSE F[f[n - 1]]
           P == {m \in Nat : \E f \in [0 .. m -> V] : Runs(m, f)}
<1>1. 0 \in P
  <2> DEFINE f == [n \in 0 .. 0 |-> a]
  <2>1. f \in [0 .. 0 -> V] /\ Runs(0, f)
    OBVIOUS
  <2> HIDE DEF f, Runs
  <2>2. QED BY <2>1
<1>2. ASSUME NEW m \in 0 .. N, m # N, m \in P PROVE m + 1 \in P
  <2>1. PICK f \in [0 .. m -> V] : Runs(m, f)
    BY <1>2
  <2> DEFINE g == [n \in 0 .. m + 1 |-> IF n <= m THEN f[n] ELSE F[f[m]]]
  <2>2. m \in Nat /\ m + 1 \in Nat
    OBVIOUS
  <2>3. g \in [0 .. m + 1 -> V]
    BY <2>2
  <2>4. ASSUME NEW n \in 0 .. m + 1 PROVE g[n] = IF n = 0 THEN a ELSE F[g[n - 1]]
    <3>1. CASE n <= m
      <4>1. n \in 0 .. m /\ g[n] = f[n]
        BY <2>2, <3>1
      <4>2. f[n] = IF n = 0 THEN a ELSE F[f[n - 1]]
        BY <2>1, <4>1
      <4>3. n # 0 => g[n - 1] = f[n - 1]
        BY <2>2, <4>1
      <4>4. QED BY <4>1, <4>2, <4>3
    <3>2. CASE n = m + 1
      BY <2>2, <3>2
    <3>3. QED BY <2>2, <3>1, <3>2
  <2>5. Runs(m + 1, g)
    BY <2>4
  <2> HIDE DEF g, Runs
  <2>6. QED BY <2>2, <2>3, <2>5
<1>3. P \in SUBSET Nat
  OBVIOUS
<1>4. \A n \in 0 .. N : n \in P
  <2> HIDE DEF P
  <2>1. QED BY <1>1, <1>2, <1>3, UpTo
<1>5. N \in P
  BY <1>4
<1>6. QED BY <1>5 DEF Iteration

------------------------------------------------------------------------------
\* The closure of the anchor.

\* One more edge never leaves the loaded units.
LEMMA SpreadUnits ==
  ASSUME NEW r \in Registry, NEW k, NEW T \in SUBSET Units
  PROVE  Spread(r, k, T) \in SUBSET Units
<1>1. \A u \in T : Neighbours(r, k, u) \subseteq Units
  BY NeighboursAreUnits
<1>2. QED BY <1>1 DEF Spread

\* The equation of Reached has a solution, so Reached satisfies it.
LEMMA ReachedUnfolds ==
  ASSUME NEW r \in Registry, NEW k, NEW a \in Units
  PROVE  LET R == Reached(r, k, a)
             N == Cardinality(Units)
         IN  /\ N \in Nat
             /\ R[0] = {a}
             /\ \A n \in 0 .. N : R[n] \in SUBSET Units
             /\ \A n \in 0 .. N : n # N => R[n + 1] = Spread(r, k, R[n])
<1> DEFINE N == Cardinality(Units)
           R == Reached(r, k, a)
           V == SUBSET Units
           F == [T \in V |-> Spread(r, k, T)]
           Solves(f) == f = [n \in 0 .. N |-> IF n = 0 THEN {a} ELSE Spread(r, k, f[n - 1])]
<1>1. N \in Nat
  BY UnitsAssumption, FS_CardinalityType
<1>2. \E f : Solves(f)
  <2>1. F \in [V -> V] /\ {a} \in V
    BY SpreadUnits
  <2>2. PICK f \in [0 .. N -> V] : \A n \in 0 .. N : f[n] = IF n = 0 THEN {a} ELSE F[f[n - 1]]
    <3> HIDE DEF F, N, V
    <3>1. \E f : Iteration(f, V, F, {a}, N)
      BY <1>1, <2>1, Iterates
    <3>2. QED BY <3>1 DEF Iteration
  <2>3. ASSUME NEW n \in 0 .. N, n # 0 PROVE F[f[n - 1]] = Spread(r, k, f[n - 1])
    <3>1. n - 1 \in 0 .. N
      BY <1>1, <2>3
    <3>2. QED BY <3>1
  <2>4. f = [n \in 0 .. N |-> IF n = 0 THEN {a} ELSE Spread(r, k, f[n - 1])]
    <3> HIDE DEF F, N, V
    <3>1. QED BY <2>2, <2>3
  <2>5. QED BY <2>4
<1>3. Solves(R)
  <2>1. R = CHOOSE f : Solves(f)
    BY DEF Reached
  <2> HIDE DEF Solves, R
  <2>2. QED BY <1>2, <2>1
<1>4. R[0] = {a}
  <2>1. 0 \in 0 .. N
    BY <1>1
  <2> HIDE DEF R, N
  <2>2. QED BY <1>3, <2>1
<1>5. ASSUME NEW n \in 0 .. N, n # N PROVE R[n + 1] = Spread(r, k, R[n])
  <2>1. n + 1 \in 0 .. N /\ n + 1 # 0 /\ (n + 1) - 1 = n
    BY <1>1, <1>5
  <2> HIDE DEF R, N
  <2>2. R[n + 1] = IF n + 1 = 0 THEN {a} ELSE Spread(r, k, R[(n + 1) - 1])
    BY <1>3, <2>1
  <2>3. QED BY <2>1, <2>2
<1>6. \A n \in 0 .. N : R[n] \in SUBSET Units
  <2> DEFINE P == {n \in Nat : R[n] \in SUBSET Units}
  <2>1. 0 \in P /\ P \in SUBSET Nat
    BY <1>4
  <2>2. ASSUME NEW n \in 0 .. N, n # N, n \in P PROVE n + 1 \in P
    BY <1>1, <1>5, <2>2, SpreadUnits
  <2> HIDE DEF P, N
  <2>3. \A n \in 0 .. N : n \in P
    BY <1>1, <2>1, <2>2, UpTo
  <2>4. QED BY <2>3 DEF P
<1>7. QED BY <1>1, <1>4, <1>5, <1>6

ClosedUnder(r, k, S) == \A u \in S : Neighbours(r, k, u) \subseteq S

\* The reference closure is the least set with the anchor that is closed under
\* the edges: after as many rounds as there are units nothing can be added.
LEMMA ClosureOfIsLeast ==
  ASSUME NEW r \in Registry, NEW k, NEW a \in Units
  PROVE  LET C == ClosureOf(r, k, a)
         IN  /\ C \in SUBSET Units
             /\ a \in C
             /\ ClosedUnder(r, k, C)
             /\ \A S \in SUBSET Units : a \in S /\ ClosedUnder(r, k, S) => C \subseteq S
<1> DEFINE N == Cardinality(Units)
           R == Reached(r, k, a)
<1>1. /\ N \in Nat
      /\ R[0] = {a}
      /\ \A n \in 0 .. N : R[n] \in SUBSET Units
      /\ \A n \in 0 .. N : n # N => R[n + 1] = Spread(r, k, R[n])
  BY ReachedUnfolds
<1>2. ClosureOf(r, k, a) = R[N] /\ N \in 0 .. N
  BY <1>1 DEF ClosureOf
<1> HIDE DEF N, R
<1>3. ASSUME NEW S \in SUBSET Units, a \in S, ClosedUnder(r, k, S) PROVE R[N] \subseteq S
  <2> DEFINE P == {n \in Nat : R[n] \subseteq S}
  <2>1. 0 \in P /\ P \in SUBSET Nat
    BY <1>1, <1>3
  <2>2. ASSUME NEW n \in 0 .. N, n # N, n \in P PROVE n + 1 \in P
    <3>1. R[n + 1] = Spread(r, k, R[n]) /\ n + 1 \in Nat
      BY <1>1, <2>2
    <3>2. Spread(r, k, R[n]) \subseteq S
      BY <1>3, <2>2 DEF Spread, ClosedUnder
    <3>3. QED BY <3>1, <3>2
  <2> HIDE DEF P
  <2>3. \A n \in 0 .. N : n \in P
    BY <1>1, <2>1, <2>2, UpTo
  <2>4. QED BY <1>2, <2>3 DEF P
\* Every round but the last ones adds a unit.
<1>4. \A n \in 0 .. N : a \in R[n] /\ (ClosedUnder(r, k, R[n]) \/ Cardinality(R[n]) >= n + 1)
  <2> DEFINE P == {n \in Nat : a \in R[n] /\ (ClosedUnder(r, k, R[n]) \/ Cardinality(R[n]) >= n + 1)}
  <2>1. 0 \in P
    <3>1. Cardinality({a}) = 1
      BY FS_Singleton
    <3>2. a \in R[0] /\ Cardinality(R[0]) >= 0 + 1
      BY <1>1, <3>1
    <3>3. QED BY <3>2
  <2>2. ASSUME NEW n \in 0 .. N, n # N, n \in P PROVE n + 1 \in P
    <3>1. /\ R[n + 1] = Spread(r, k, R[n]) /\ n + 1 \in Nat /\ n + 1 \in 0 .. N
          /\ R[n] \in SUBSET Units /\ R[n + 1] \in SUBSET Units
      BY <1>1, <2>2
    <3>2. a \in R[n + 1]
      BY <2>2, <3>1 DEF Spread
    <3>3. CASE ClosedUnder(r, k, R[n])
      <4>1. R[n + 1] = R[n]
        BY <3>1, <3>3 DEF Spread, ClosedUnder
      <4>2. QED BY <3>1, <3>2, <3>3, <4>1
    <3>4. CASE ~ClosedUnder(r, k, R[n])
      <4>1. R[n] \subseteq R[n + 1] /\ R[n] # R[n + 1]
        BY <3>1, <3>4 DEF Spread, ClosedUnder
      <4>2. IsFiniteSet(R[n + 1]) /\ IsFiniteSet(R[n])
        BY <3>1, UnitsAssumption, FS_Subset
      <4>3. Cardinality(R[n]) < Cardinality(R[n + 1])
        BY <4>1, <4>2, FS_Subset, FS_CardinalityType
      <4>4. Cardinality(R[n]) \in Nat /\ Cardinality(R[n + 1]) \in Nat
        BY <4>2, FS_CardinalityType
      <4>5. Cardinality(R[n]) >= n + 1
        BY <2>2, <3>4
      <4>6. Cardinality(R[n + 1]) >= (n + 1) + 1
        BY <3>1, <4>3, <4>4, <4>5
      <4>7. QED BY <3>1, <3>2, <4>6
    <3>5. QED BY <3>3, <3>4
  <2>3. P \in SUBSET Nat
    OBVIOUS
  <2> HIDE DEF P
  <2>4. \A n \in 0 .. N : n \in P
    BY <1>1, <2>1, <2>2, <2>3, UpTo
  <2>5. QED BY <2>4 DEF P
<1>5. ClosedUnder(r, k, R[N])
  <2>1. Cardinality(R[N]) <= N /\ Cardinality(R[N]) \in Nat
    <3>1. R[N] \subseteq Units
      BY <1>1, <1>2
    <3>2. QED BY <3>1, UnitsAssumption, FS_Subset, FS_CardinalityType DEF N
  <2>2. ~(Cardinality(R[N]) >= N + 1)
    BY <1>1, <2>1
  <2>3. QED BY <1>2, <1>4, <2>2
<1>6. QED BY <1>1, <1>2, <1>3, <1>4, <1>5

------------------------------------------------------------------------------
\* The sorted enumeration.

\* Sorting ids leaves one result: a set has one ascending enumeration.
LEMMA AscendingUnique ==
  ASSUME NEW S \in SUBSET Units, NEW s \in Ascending(S), NEW t \in Ascending(S)
  PROVE  s = t
<1> DEFINE D == 1 .. Cardinality(S)
           T == {i \in D : s[i] # t[i]}
<1>1. Cardinality(S) \in Nat /\ S \subseteq Nat
  BY UnitsAssumption, FS_Subset, FS_CardinalityType
<1>2. s \in [D -> S] /\ t \in [D -> S]
  BY DEF Ascending
<1>3. /\ \A i, j \in D : i < j => s[i] < s[j] /\ t[i] < t[j]
      /\ \A x \in S : (\E i \in D : s[i] = x) /\ (\E i \in D : t[i] = x)
  BY <1>2 DEF Ascending
<1>4. ASSUME T # {} PROVE FALSE
  <2>1. T \in SUBSET Nat
    BY <1>1
  <2>2. PICK m \in T : \A n \in T : m <= n
    <3> HIDE DEF T
    <3>1. QED BY <1>4, <2>1, FirstPosition
  <2>3. m \in D /\ s[m] \in S /\ t[m] \in S /\ s[m] # t[m]
    BY <1>2, <2>2
  <2>4. ASSUME NEW i \in D, i < m PROVE s[i] = t[i]
    BY <1>1, <2>2, <2>3, <2>4
  <2>5. D \subseteq Nat
    BY <1>1
  <2>6. PICK i \in D : t[i] = s[m]
    BY <1>3, <2>3
  <2>7. PICK j \in D : s[j] = t[m]
    BY <1>3, <2>3
  <2>8. s[m] \in Nat /\ t[m] \in Nat /\ m \in Nat /\ i \in Nat /\ j \in Nat
    BY <1>1, <2>3, <2>5
  <2> HIDE DEF D, T
  <2>9. ~(i < m) /\ i # m
    <3>1. i < m => s[i] < s[m] /\ s[i] = s[m]
      BY <1>3, <2>3, <2>4, <2>6
    <3>2. QED BY <2>3, <2>6, <2>8, <3>1
  <2>10. ~(j < m) /\ j # m
    <3>1. j < m => t[j] < t[m] /\ t[j] = t[m]
      BY <1>3, <2>3, <2>4, <2>7
    <3>2. QED BY <2>3, <2>7, <2>8, <3>1
  <2>11. t[m] < t[i] /\ s[m] < s[j]
    BY <1>3, <2>3, <2>8, <2>9, <2>10
  <2>12. QED BY <2>6, <2>7, <2>8, <2>11
<1>5. \A i \in D : s[i] = t[i]
  BY <1>4
<1> HIDE DEF D
<1>6. QED BY <1>2, <1>5

\* Every set of ids has one: put the least id in front of the others.
LEMMA AscendingExists ==
  ASSUME NEW S \in SUBSET Units
  PROVE  Ascending(S) # {}
<1> DEFINE P == {n \in Nat : \A T \in SUBSET Units : Cardinality(T) = n => Ascending(T) # {}}
<1>1. \A T \in SUBSET Units : IsFiniteSet(T) /\ Cardinality(T) \in Nat /\ T \subseteq Nat
  BY UnitsAssumption, FS_Subset, FS_CardinalityType
<1>2. 0 \in P
  <2> SUFFICES ASSUME NEW T \in SUBSET Units, Cardinality(T) = 0
               PROVE  Ascending(T) # {}
    OBVIOUS
  <2>1. T = {}
    BY <1>1, FS_EmptySet
  <2>2. <<>> \in [1 .. 0 -> T] /\ DOMAIN <<>> = {}
    OBVIOUS
  <2>3. <<>> \in Ascending(T)
    BY <2>1, <2>2 DEF Ascending
  <2>4. QED BY <2>3
<1>3. ASSUME NEW n \in Nat, n \in P PROVE n + 1 \in P
  <2> SUFFICES ASSUME NEW T \in SUBSET Units, Cardinality(T) = n + 1
               PROVE  Ascending(T) # {}
    OBVIOUS
  <2>1. T # {} /\ T \in SUBSET Nat /\ IsFiniteSet(T)
    BY <1>1, FS_EmptySet
  <2>2. PICK x \in T : \A y \in T : x <= y
    BY <2>1, FirstPosition
  <2> DEFINE U == T \ {x}
  <2>3. U \in SUBSET Units /\ Cardinality(U) = n
    <3>1. Cardinality(T \ {x}) = Cardinality(T) - 1
      BY <2>1, FS_RemoveElement
    <3>2. QED BY <3>1
  <2>4. PICK s \in Ascending(U) : TRUE
    <3> HIDE DEF U
    <3>1. QED BY <1>3, <2>3
  <2>5. /\ s \in [1 .. n -> U]
        /\ \A i, j \in 1 .. n : i < j => s[i] < s[j]
        /\ \A y \in U : \E i \in 1 .. n : s[i] = y
    <3> HIDE DEF U
    <3>1. QED BY <2>3, <2>4 DEF Ascending
  <2> DEFINE t == [i \in 1 .. n + 1 |-> IF i = 1 THEN x ELSE s[i - 1]]
  <2>6. \A i \in 1 .. n + 1 : i # 1 => i - 1 \in 1 .. n /\ t[i] = s[i - 1] /\ s[i - 1] \in U
    BY <2>5
  <2>7. 1 \in 1 .. n + 1 /\ t[1] = x
    OBVIOUS
  <2>8. t \in [1 .. Cardinality(T) -> T]
    BY <2>6, <2>7
  <2>9. ASSUME NEW i \in 1 .. n + 1, NEW j \in 1 .. n + 1, i < j PROVE t[i] < t[j]
    <3>1. j # 1
      BY <2>9
    <3>2. CASE i = 1
      <4>1. t[i] = x /\ t[j] \in U
        BY <2>6, <2>7, <3>1, <3>2
      <4>2. \A y \in U : y \in Nat /\ x \in Nat /\ x <= y /\ x # y
        BY <2>1, <2>2
      <4>3. QED BY <4>1, <4>2
    <3>3. CASE i # 1
      <4>1. i - 1 < j - 1
        BY <2>9
      <4>2. QED BY <2>5, <2>6, <3>1, <3>3, <4>1
    <3>4. QED BY <3>2, <3>3
  <2>10. ASSUME NEW y \in T PROVE \E i \in 1 .. n + 1 : t[i] = y
    <3>1. CASE y = x
      BY <2>7, <3>1
    <3>2. CASE y # x
      <4>1. PICK i \in 1 .. n : s[i] = y
        BY <2>5, <3>2
      <4>2. i + 1 \in 1 .. n + 1 /\ i + 1 # 1 /\ (i + 1) - 1 = i
        OBVIOUS
      <4>3. QED BY <2>6, <4>1, <4>2
    <3>3. QED BY <3>1, <3>2
  <2>11. t \in Ascending(T)
    <3>1. DOMAIN t = 1 .. n + 1
      OBVIOUS
    <3> HIDE DEF t
    <3>2. QED BY <2>8, <2>9, <2>10, <3>1 DEF Ascending
  <2>12. QED BY <2>11
<1>4. P \in SUBSET Nat
  OBVIOUS
<1>5. Cardinality(S) \in P
  <2> DEFINE N == Cardinality(S)
  <2>1. N \in Nat
    BY <1>1
  <2> HIDE DEF P, N
  <2>2. \A n \in 0 .. N : n \in P
    BY <1>2, <1>3, <1>4, <2>1, UpTo
  <2>3. QED BY <2>1, <2>2 DEF N
<1>6. QED BY <1>5

\* InOrder is the sort.
LEMMA InOrderIsSort ==
  ASSUME NEW S \in SUBSET Units
  PROVE  /\ InOrder(S) \in Seq(Units)
         /\ Elements(InOrder(S)) = S
         /\ Injective(InOrder(S))
         /\ \A s \in Ascending(S) : s = InOrder(S)
<1>1. InOrder(S) \in Ascending(S)
  <2>1. \E s \in Ascending(S) : TRUE
    BY AscendingExists
  <2>2. QED BY <2>1 DEF InOrder
<1>2. QED BY <1>1, AscendingSeq, AscendingUnique

------------------------------------------------------------------------------
\* The turns of the reference sort.

\* Queue and order hold units of S, none of them twice.
Queues(S) ==
  {k \in [ready : Seq(Units), sorted : Seq(Units)] :
     /\ Elements(k.ready) \cup Elements(k.sorted) \subseteq S
     /\ Elements(k.ready) \cap Elements(k.sorted) = {}
     /\ Injective(k.ready)
     /\ Injective(k.sorted)}

\* A turn moves the head of the queue and enqueues only units not seen yet.
LEMMA TurnKeepsQueues ==
  ASSUME NEW r, NEW S \in SUBSET Units, NEW k \in Queues(S)
  PROVE  Turn(r, S, k) \in Queues(S)
<1>1. CASE k.ready = <<>>
  BY <1>1 DEF Turn
<1>2. CASE k.ready # <<>>
  <2> DEFINE u      == Head(k.ready)
             tail   == Tail(k.ready)
             sorted == Append(k.sorted, u)
             next   == Placeable(r, S, Elements(sorted), Elements(sorted) \cup Elements(k.ready))
             fresh  == InOrder(next)
  <2>1. /\ k.ready \in Seq(Units) /\ k.sorted \in Seq(Units)
        /\ Elements(k.ready) \cup Elements(k.sorted) \subseteq S
        /\ Elements(k.ready) \cap Elements(k.sorted) = {}
        /\ Injective(k.ready) /\ Injective(k.sorted)
    BY DEF Queues
  <2>2. Turn(r, S, k) = [ready |-> tail \o fresh, sorted |-> sorted]
    BY <1>2 DEF Turn
  <2>3. /\ u \in Units /\ tail \in Seq(Units)
        /\ Elements(k.ready) = {u} \cup Elements(tail)
        /\ Injective(tail) /\ u \notin Elements(tail)
    BY <1>2, <2>1, PopFront
  <2>4. sorted \in Seq(Units) /\ Elements(sorted) = Elements(k.sorted) \cup {u}
    BY <2>1, <2>3, ElementsAppend
  <2>5. Injective(sorted)
    BY <2>1, <2>3, InjectiveAppend
  <2>6. next \in SUBSET Units /\ next \subseteq S
        /\ next \cap (Elements(sorted) \cup Elements(k.ready)) = {}
    BY DEF Placeable
  <2> HIDE DEF next, sorted, u, tail
  <2>7. fresh \in Seq(Units) /\ Elements(fresh) = next /\ Injective(fresh)
    BY <2>6, InOrderIsSort
  <2> HIDE DEF fresh
  <2>8. tail \o fresh \in Seq(Units) /\ Elements(tail \o fresh) = Elements(tail) \cup next
    BY <2>3, <2>7, ElementsConcat
  <2>9. Injective(tail \o fresh)
    BY <2>3, <2>6, <2>7, InjectiveConcat
  <2>10. Elements(tail \o fresh) \cup Elements(sorted) \subseteq S
    BY <2>1, <2>3, <2>4, <2>6, <2>8
  <2>11. Elements(tail \o fresh) \cap Elements(sorted) = {}
    BY <2>1, <2>3, <2>4, <2>6, <2>8
  <2> DEFINE q == tail \o fresh
             c == [ready |-> q, sorted |-> sorted]
  <2>12. q \in Seq(Units) /\ Turn(r, S, k) = c /\ Injective(q)
        /\ Elements(q) \cup Elements(sorted) \subseteq S /\ Elements(q) \cap Elements(sorted) = {}
    BY <2>2, <2>8, <2>9, <2>10, <2>11
  <2> HIDE DEF q
  <2>13. c.ready = q /\ c.sorted = sorted /\ c \in [ready : Seq(Units), sorted : Seq(Units)]
    BY <2>4, <2>12
  <2> HIDE DEF c
  <2>14. QED BY <2>5, <2>12, <2>13 DEF Queues
<1>3. QED BY <1>1, <1>2

\* The first queue holds the units without predecessors.
LEMMA FirstQueueIsQueue ==
  ASSUME NEW r, NEW S \in SUBSET Units
  PROVE  FirstQueue(r, S) \in Queues(S)
<1> DEFINE first == Placeable(r, S, {}, {})
<1>1. first \in SUBSET Units /\ first \subseteq S
  BY DEF Placeable
<1>2. FirstQueue(r, S) = [ready |-> InOrder(first), sorted |-> <<>>]
  BY DEF FirstQueue
<1> HIDE DEF first
<1>3. InOrder(first) \in Seq(Units) /\ Elements(InOrder(first)) = first /\ Injective(InOrder(first))
  BY <1>1, InOrderIsSort
<1>4. <<>> \in Seq(Units) /\ Elements(<<>>) = {} /\ Injective(<<>>)
  BY DEF Elements, Injective
<1>5. QED BY <1>1, <1>2, <1>3, <1>4 DEF Queues

\* The equation of Turns has a solution, so Turns satisfies it.
LEMMA TurnsUnfolds ==
  ASSUME NEW r, NEW S \in SUBSET Units
  PROVE  LET K == Turns(r, S)
             N == Cardinality(S)
         IN  /\ N \in Nat
             /\ K[0] = FirstQueue(r, S)
             /\ \A n \in 0 .. N : K[n] \in Queues(S)
             /\ \A n \in 0 .. N : n # N => K[n + 1] = Turn(r, S, K[n])
<1> DEFINE N == Cardinality(S)
           K == Turns(r, S)
           V == Queues(S)
           F == [k \in V |-> Turn(r, S, k)]
           a == FirstQueue(r, S)
           Solves(f) == f = [n \in 0 .. N |-> IF n = 0 THEN a ELSE Turn(r, S, f[n - 1])]
<1>1. N \in Nat
  BY UnitsAssumption, FS_Subset, FS_CardinalityType
<1> HIDE DEF N, V, a
<1>2. a \in V /\ \A k \in V : Turn(r, S, k) \in V
  BY FirstQueueIsQueue, TurnKeepsQueues DEF V, a
<1>3. \E f : Solves(f)
  <2>1. F \in [V -> V]
    BY <1>2
  <2>2. PICK f : Iteration(f, V, F, a, N)
    <3> HIDE DEF F
    <3>1. QED BY <1>1, <1>2, <2>1, Iterates
  <2>3. /\ f \in [0 .. N -> V]
        /\ \A n \in 0 .. N : f[n] = IF n = 0 THEN a ELSE F[f[n - 1]]
    <3> HIDE DEF F
    <3>1. QED BY <2>2 DEF Iteration
  <2>4. ASSUME NEW n \in 0 .. N, n # 0 PROVE F[f[n - 1]] = Turn(r, S, f[n - 1])
    <3>1. n - 1 \in 0 .. N
      BY <1>1, <2>4
    <3>2. QED BY <2>3, <3>1
  <2>5. f = [n \in 0 .. N |-> IF n = 0 THEN a ELSE Turn(r, S, f[n - 1])]
    <3> HIDE DEF F
    <3>1. QED BY <2>3, <2>4
  <2>6. QED BY <2>5
<1>4. Solves(K)
  <2>1. K = CHOOSE f : Solves(f)
    BY DEF Turns, N, a
  <2> HIDE DEF Solves, K
  <2>2. QED BY <1>3, <2>1
<1> HIDE DEF K
<1>5. K[0] = a
  <2>1. 0 \in 0 .. N
    BY <1>1
  <2>2. QED BY <1>4, <2>1
<1>6. ASSUME NEW n \in 0 .. N, n # N PROVE K[n + 1] = Turn(r, S, K[n])
  <2>1. n + 1 \in 0 .. N /\ n + 1 # 0 /\ (n + 1) - 1 = n
    BY <1>1, <1>6
  <2>2. K[n + 1] = IF n + 1 = 0 THEN a ELSE Turn(r, S, K[(n + 1) - 1])
    BY <1>4, <2>1
  <2>3. QED BY <2>1, <2>2
<1>7. \A n \in 0 .. N : K[n] \in V
  <2> DEFINE P == {n \in Nat : K[n] \in V}
  <2>1. 0 \in P /\ P \in SUBSET Nat
    BY <1>2, <1>5
  <2>2. ASSUME NEW n \in 0 .. N, n # N, n \in P PROVE n + 1 \in P
    BY <1>1, <1>2, <1>6, <2>2
  <2> HIDE DEF P
  <2>3. \A n \in 0 .. N : n \in P
    BY <1>1, <2>1, <2>2, UpTo
  <2>4. QED BY <2>3 DEF P
<1>8. QED BY <1>1, <1>5, <1>6, <1>7 DEF N, K, V, a

\* Once the queue is empty further turns change nothing.
LEMMA TurnsSettle ==
  ASSUME NEW r, NEW S \in SUBSET Units, NEW m \in 0 .. Cardinality(S),
         Turns(r, S)[m].ready = <<>>
  PROVE  TopologicalOrder(r, S) = Turns(r, S)[m].sorted
<1> DEFINE N == Cardinality(S)
           K == Turns(r, S)
           P == {n \in Nat : m <= n => K[n] = K[m]}
<1>1. /\ N \in Nat
      /\ \A n \in 0 .. N : n # N => K[n + 1] = Turn(r, S, K[n])
  BY TurnsUnfolds
<1>2. TopologicalOrder(r, S) = K[N].sorted /\ K[m].ready = <<>> /\ m \in 0 .. N
  BY DEF TopologicalOrder
<1> HIDE DEF K, N
<1>3. 0 \in P /\ P \in SUBSET Nat
  BY <1>1, <1>2
<1>4. ASSUME NEW n \in 0 .. N, n # N, n \in P PROVE n + 1 \in P
  <2>1. n + 1 \in Nat /\ K[n + 1] = Turn(r, S, K[n])
    BY <1>1, <1>4
  <2>2. CASE m <= n
    <3>1. K[n] = K[m]
      BY <1>4, <2>2
    <3>2. K[n + 1] = K[m]
      BY <1>2, <2>1, <3>1 DEF Turn
    <3>3. QED BY <2>1, <3>2
  <2>3. CASE ~(m <= n)
    <3>1. m <= n + 1 => m = n + 1
      BY <1>1, <1>2, <2>3
    <3>2. QED BY <2>1, <3>1
  <2>4. QED BY <2>2, <2>3
<1> HIDE DEF P
<1>5. \A n \in 0 .. N : n \in P
  BY <1>1, <1>3, <1>4, UpTo
<1>6. N \in 0 .. N /\ m <= N
  BY <1>1, <1>2
<1>7. K[N] = K[m]
  BY <1>5, <1>6 DEF P
<1>8. QED BY <1>2, <1>7 DEF K

\* Reversing a list leaves it a list of the same units, each as often.
LEMMA ReversedKeeps ==
  ASSUME NEW s \in Seq(Units), Injective(s)
  PROVE  Reversed(s) \in Seq(Units) /\ Injective(Reversed(s))
<1>1. /\ Len(s) \in Nat /\ DOMAIN s = 1 .. Len(s)
      /\ Reversed(s) = [i \in 1 .. Len(s) |-> s[Len(s) + 1 - i]]
  BY DEF Reversed
<1>2. \A i \in 1 .. Len(s) : Len(s) + 1 - i \in 1 .. Len(s)
  BY <1>1
<1>3. Reversed(s) \in Seq(Units)
  BY <1>1, <1>2
<1>4. ASSUME NEW i \in 1 .. Len(s), NEW j \in 1 .. Len(s), Reversed(s)[i] = Reversed(s)[j]
      PROVE  i = j
  <2>1. Len(s) + 1 - i = Len(s) + 1 - j
    BY <1>1, <1>2, <1>4 DEF Injective
  <2>2. QED BY <1>1, <2>1
<1>5. QED BY <1>1, <1>3, <1>4 DEF Injective

\* Whatever the unit files say, build_transaction and build_stop_transaction
\* answer every name with a plan as the supervisor expects it: a list of
\* loaded units in which no unit occurs twice.
THEOREM PlansAreLists ==
  \A r \in Registry, k \in {"start", "stop"}, a \in Names : Plan(r, k, a) \in Plans
<1> SUFFICES ASSUME NEW r \in Registry, NEW k \in {"start", "stop"}, NEW a \in Names
             PROVE  Plan(r, k, a) \in Plans
  OBVIOUS
<1>1. NoPlan \in Plans
  BY DEF NoPlan, Plans
<1>2. CASE a \notin Units
  BY <1>1, <1>2 DEF Plan
<1>3. CASE a \in Units
  <2> DEFINE S == ClosureOf(r, k, a)
             s == TopologicalOrder(r, S)
             t == IF k = "start" THEN s ELSE Reversed(s)
  <2>1. S \in SUBSET Units
    BY <1>3, ClosureOfIsLeast
  <2>2. Plan(r, k, a) = IF Len(s) # Cardinality(S) THEN NoPlan ELSE [ok |-> TRUE, units |-> t]
    BY <1>3 DEF Plan
  <2> HIDE DEF S
  <2>3. s \in Seq(Units) /\ Injective(s)
    <3>1. Turns(r, S)[Cardinality(S)] \in Queues(S)
      BY <2>1, TurnsUnfolds
    <3>2. QED BY <3>1 DEF TopologicalOrder, Queues
  <2> HIDE DEF s
  <2>4. t \in Seq(Units) /\ Injective(t)
    BY <2>3, ReversedKeeps
  <2> HIDE DEF t
  <2>5. [ok |-> TRUE, units |-> t] \in Plans
    BY <2>4 DEF Plans, Injective
  <2>6. QED BY <1>1, <2>2, <2>5
<1>4. QED BY <1>2, <1>3


\* Loading and enabling units makes registries: [install] sections and
\* enabled.d only add edges between loaded units.
LEMMA RegistriesAreMade ==
  /\ \A unit \in [wants : [Units -> SUBSET Names], requires : [Units -> SUBSET Names],
                  bindsTo : [Units -> SUBSET Names], after : [Units -> Seq(Names)],
                  before : [Units -> Seq(Names)]],
        install \in [wantedBy : [Units -> SUBSET Names], requiredBy : [Units -> SUBSET Names]] :
       FromLoaded(unit, install) \in Registry
  /\ \A r \in Registry, target \in Names, e \in SUBSET Units : AddWantedBy(r, target, e) \in Registry
<1>1. ASSUME NEW unit \in [wants : [Units -> SUBSET Names], requires : [Units -> SUBSET Names],
                           bindsTo : [Units -> SUBSET Names], after : [Units -> Seq(Names)],
                           before : [Units -> Seq(Names)]],
             NEW install \in [wantedBy : [Units -> SUBSET Names], requiredBy : [Units -> SUBSET Names]]
      PROVE  FromLoaded(unit, install) \in Registry
  <2>1. Lift(install.wantedBy) \in [Units -> SUBSET Units] /\ Lift(install.requiredBy) \in [Units -> SUBSET Units]
    BY DEF Lift
  <2>2. QED BY <2>1 DEF FromLoaded, Registry
<1>2. ASSUME NEW r \in Registry, NEW target \in Names, NEW e \in SUBSET Units
      PROVE  AddWantedBy(r, target, e) \in Registry
  <2>1. CASE target \notin Units
    BY <2>1 DEF AddWantedBy
  <2>2. CASE target \in Units
    <3>1. r.extraWants \in [Units -> SUBSET Units]
      BY DEF Registry
    <3>2. [r.extraWants EXCEPT ![target] = @ \cup e] \in [Units -> SUBSET Units]
      BY <2>2, <3>1
    <3>3. AddWantedBy(r, target, e) = [r EXCEPT !.extraWants = [r.extraWants EXCEPT ![target] = @ \cup e]]
      BY <2>2 DEF AddWantedBy
    <3>4. QED BY <3>2, <3>3 DEF Registry
  <2>3. QED BY <2>1, <2>2
<1>3. QED BY <1>1, <1>2

\* Whatever is loaded and whatever is enabled, the supervisor gets from the
\* plan builders what it takes for granted of them: the assumption of module
\* Supervisor holds when StartPlan and StopPlan are build_transaction and
\* build_stop_transaction of the registry with enabled.d injected.
THEOREM EnabledPlansAreLists ==
  \A r \in Registry, target \in Names, enabled \in SUBSET Units, k \in {"start", "stop"}, name \in Names :
    Plan(AddWantedBy(r, target, enabled), k, name) \in Plans
<1>1. \A r \in Registry, target \in Names, enabled \in SUBSET Units :
        AddWantedBy(r, target, enabled) \in Registry
  BY RegistriesAreMade
<1>2. QED BY <1>1, PlansAreLists

==============================================================================
