-------------------------------- MODULE MCScans --------------------------------
(* Two labels, with every kind of route beside one that may compete with it. *)
EXTENDS Scans, TLC

CONSTANTS k1, k2, l1, l2

\* The second scanner may not execute.
MCKeys == {<<k1, l1>>, <<k1, l2>>, <<k2, l1>>}

MCRouteTables ==
  {l1 :> p[1] @@ l2 :> p[2] :
     p \in {<<"simple", "open">>, <<"open", "double">>, <<"chain", "group">>}}

\* Requests, racks and cells are interchangeable.
Symmetry == Permutations(Sessions) \cup Permutations(Racks) \cup Permutations(Cells)
===============================================================================
