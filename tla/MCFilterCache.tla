----------------------------- MODULE MCFilterCache -----------------------------
(***************************************************************************)
(* Instances of FilterCache for TLC.  Queries are interchangeable.         *)
(***************************************************************************)
EXTENDS FilterCache, TLC

Symmetry == Permutations(Queries) \cup Permutations(Exprs)

==============================================================================
