--------------------------- MODULE MCSpawnGuards ---------------------------
(* Instances of SpawnGuards for TLC.                                       *)
EXTENDS SpawnGuards, TLC

\* Calls are interchangeable, and so are thread identifiers.
CallSymmetry == Permutations(Call) \cup Permutations(Mate)
=============================================================================
