---------------------------- MODULE MCRangeJoin -----------------------------
(***************************************************************************)
(* Instances of RangeJoin for TLC: two interchangeable processes.          *)
(***************************************************************************)
EXTENDS RangeJoin, TLC

CONSTANTS loop, shell

Symmetry == Permutations({loop, shell})
=============================================================================
