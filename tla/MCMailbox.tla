----------------------------- MODULE MCMailbox -----------------------------
(* Instances of Mailbox for TLC.                                           *)
EXTENDS Mailbox, TLC

ThreadSymmetry == Permutations(Thread)

\* Ranks of two of the four priorities.
Ranks == {1, 2}

\* The version is compared with the one before, and no step reads it to decide.
BoundedVersion == version <= 2 * MaxMessages + 1
=============================================================================
