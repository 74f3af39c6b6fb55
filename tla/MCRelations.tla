---------------------------- MODULE MCRelations -----------------------------
(***************************************************************************)
(* Constants for the run of Relations.                                     *)
(***************************************************************************)
EXTENDS Relations, TLC

CONSTANTS worker, admin, a1, b1, c1

Symmetry == Permutations(Entries)

\* Of what two writers met on nothing is claimed: no states after that.
NobodyMet == met = {}
=============================================================================
