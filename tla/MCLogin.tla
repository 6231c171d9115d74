------------------------------- MODULE MCLogin -------------------------------
(***************************************************************************)
(* Instances of Login, SessionCreate and Logind for TLC.                   *)
(***************************************************************************)
EXTENDS Login, TLC

\* Pids are only compared.
Symmetry == Permutations(Pids)

==============================================================================
