------------------------------ MODULE MCVotes -------------------------------
(***************************************************************************)
(* Constants for the runs of Votes.                                        *)
(***************************************************************************)
EXTENDS Votes

CONSTANTS u1, u2, a, b

\* What the read-then-write toggle of old left behind: two rows of u1 on a, and
\* a row without a user.
FloodedRows == {[id |-> 11, user |-> u1, entry |-> a],
                [id |-> 12, user |-> u1, entry |-> a],
                [id |-> 13, user |-> Anonymous, entry |-> a]}
\* One vote of u1 on each entry, and two rows without a user.
SpreadRows == {[id |-> 11, user |-> u1, entry |-> a],
               [id |-> 12, user |-> u1, entry |-> b],
               [id |-> 13, user |-> Anonymous, entry |-> a],
               [id |-> 14, user |-> Anonymous, entry |-> b]}
NoDrift == {0}
=============================================================================
