-------------------------- MODULE MCAccessSampling --------------------------
(***************************************************************************)
(* AccessSampling for TLC: ids are interchangeable, and so are the metrics *)
(* of a type and the threads other than Main.  For safety properties only. *)
(***************************************************************************)
EXTENDS AccessSampling, TLC

Symmetry == Permutations(Ids) \cup Permutations(Loads) \cup Permutations(Stores)
              \cup Permutations(Threads \ {Main})
=============================================================================
