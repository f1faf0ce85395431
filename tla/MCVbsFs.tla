------------------------------ MODULE MCVbsFs ------------------------------
(* Values for checking VbsFs: two recordings whose names collide, and a    *)
(* third name that nobody records.                                         *)
EXTENDS VbsFs

MCHash == [n \in Names |-> 1]

\* Nothing tells the names of the recordings apart.
NameSymmetry == Permutations(Recorded)
=============================================================================
