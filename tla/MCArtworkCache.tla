--------------------------- MODULE MCArtworkCache ---------------------------
(* ArtworkCache for TLC: runs, views and origins are interchangeable. *)
EXTENDS ArtworkCache, TLC

Symmetry == Permutations(Run) \cup Permutations(View) \cup Permutations(Origin)
=============================================================================
