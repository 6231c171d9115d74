---------------------------- MODULE MCTransaction ----------------------------
(***************************************************************************)
(* Instances of Transaction for TLC.  Unit 9 is a name no unit file has.   *)
(***************************************************************************)
EXTENDS Transaction

Unknown == 9
MCNames == Units \cup {Unknown}

None == [u \in Units |-> {}]
NoList == [u \in Units |-> <<>>]

Directives(wants, requires, bindsTo, after, before) ==
  [wants |-> wants, requires |-> requires, bindsTo |-> bindsTo,
   after |-> after, before |-> before]

Install(wantedBy, requiredBy) == [wantedBy |-> wantedBy, requiredBy |-> requiredBy]

\* A set of ids as a list without repetitions.
AsList(S) == CHOOSE s \in Ascending(S) : TRUE

\* Every requirement graph over the units, split over the five directives,
\* with an order between some pairs and a dangling name.
RequirementRegistries ==
  {FromLoaded(
     Directives([u \in Units |-> req[u] \cap {u + 1, Unknown}],
                [u \in Units |-> req[u] \cap {u - 1, u - 2}],
                [u \in Units |-> req[u] \cap {u}],
                [u \in Units |-> IF u \in aft THEN AsList(req[u]) ELSE <<>>],
                NoList),
     Install([u \in Units |-> IF u = 0 /\ lift THEN {2, Unknown} ELSE {}],
             [u \in Units |-> IF u = 1 /\ ~lift THEN {0} ELSE {}]))
   : req \in [Units -> {{}, {0}, {1}, {2}, {0, 1}, {1, 2, Unknown}, {0, 2}}],
     aft \in {{}, Units},
     lift \in BOOLEAN}

\* Unit 0 pulls every other unit in, and every After= relation holds between
\* them; then repeated, dangling and self-referential entries, and After=
\* meeting Before=.
Star == [u \in Units |-> IF u = 0 THEN Units \ {0} ELSE {}]

AfterLists == {AsList(S) : S \in SUBSET Units}
MixedLists == {<<>>, <<1>>, <<0, 2>>, <<1, 1>>, <<2, 1, 2>>, <<Unknown, 0>>}

OrderRegistries ==
  {FromLoaded(Directives(None, Star, None, aft, bef), Install(None, None))
   : aft \in [Units -> MixedLists], bef \in [Units -> {<<>>, <<1>>, <<0, 0>>}]}
    \cup
  {FromLoaded(Directives(Star, None, None, aft, NoList), Install(None, None))
   : aft \in [Units -> AfterLists]}

MCRegistries == RequirementRegistries \cup OrderRegistries

\* A requirement cycle without any ordering.
CyclicRegistries ==
  {FromLoaded(Directives([u \in Units |-> {(u + 1) % Cardinality(Units)}], None, None,
                         NoList, NoList),
              Install(None, None))}

==============================================================================
