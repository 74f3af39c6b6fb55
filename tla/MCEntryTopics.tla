--------------------------- MODULE MCEntryTopics ----------------------------
(***************************************************************************)
(* Constants for the runs of EntryTopics.                                  *)
(***************************************************************************)
EXTENDS EntryTopics, TLC

CONSTANTS w1, w2, r1, r2, a, x, y, m, n

Symmetry == Permutations(Workers) \cup Permutations(Requests)
            \cup Permutations(TopicIDs) \cup Permutations(Titles)
=============================================================================
