------------------------------ MODULE MCMalloc ------------------------------
(***************************************************************************)
(* Malloc on an arena of four pages of four units.  Two sizes of request,  *)
(* one small and one beyond the small bins, are enough for every way       *)
(* malloc, free and realloc have to find, cut, join and move a chunk, with *)
(* chunks of different sizes in one large bin.  Users are interchangeable. *)
(***************************************************************************)
EXTENDS Malloc

Symmetry == Permutations(Ids)
=============================================================================
