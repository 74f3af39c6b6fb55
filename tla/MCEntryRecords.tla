--------------------------- MODULE MCEntryRecords ---------------------------
(***************************************************************************)
(* Constants for the runs of EntryRecords.                                 *)
(***************************************************************************)
EXTENDS EntryRecords, TLC

CONSTANTS r1, r2, r3, b1, e1, e2, x1, x2, v1, v2

Symmetry == Permutations(Requests) \cup Permutations(Releases)
            \cup Permutations(Names)
=============================================================================
