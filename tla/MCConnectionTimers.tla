------------------------- MODULE MCConnectionTimers -------------------------
(***************************************************************************)
(* ConnectionTimers with interchangeable connections.                      *)
(***************************************************************************)
EXTENDS ConnectionTimers, TLC

MCSymmetry == Permutations(Conns)
=============================================================================
