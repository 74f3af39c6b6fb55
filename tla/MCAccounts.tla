----------------------------- MODULE MCAccounts ------------------------------
(***************************************************************************)
(* Constants for the runs of Accounts.                                     *)
(***************************************************************************)
EXTENDS Accounts, TLC

CONSTANTS uma, vic, pia, quin, r1, r2, r3

Member(id, roles, type, person) ==
    id :> [roles |-> roles, standing |-> "active", password |-> id,
           accounts |-> {[type |-> type, person |-> person,
                          email |-> "known"]}]

\* Two admins, one who signs in with a password and one with Google.
Teams == {Member(uma, {"admin"}, "email", pia)
          @@ Member(vic, {"admin"}, "google", quin)}

Symmetry == Permutations(Requests)
=============================================================================
