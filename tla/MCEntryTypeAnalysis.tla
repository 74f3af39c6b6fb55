------------------------ MODULE MCEntryTypeAnalysis -------------------------
(***************************************************************************)
(* Constants for the runs of EntryTypeAnalysis.                            *)
(***************************************************************************)
EXTENDS EntryTypeAnalysis

CONSTANTS w1, w2, w3, a, b, t1

=============================================================================
