---------------------------- MODULE MCTeamStore ----------------------------
(* Instances of TeamStore for TLC.                                         *)
EXTENDS TeamStore, TLC

CallSymmetry == Permutations(Call)
=============================================================================
