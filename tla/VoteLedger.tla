----------------------------- MODULE VoteLedger -----------------------------
(***************************************************************************)
(* What voting promises its users, with none of its mechanism: a ledger of *)
(* who votes for what, and requests each of which takes effect at most     *)
(* once, in one step, on the pair of the user who made it.  Nothing else   *)
(* ever touches the ledger: neither a failed request, nor the counters,    *)
(* nor the reconciliation passes are visible here.                         *)
(***************************************************************************)
CONSTANTS Users,          \* who can vote
          Entries,        \* what can be voted for
          Requests,       \* the toggle requests of one behaviour
          InitialLedger   \* the votes that stand at the start

VARIABLES ledger,   \* the set of <<user, entry>> pairs that stand
          asked,    \* what each request is about; {} until it is made
          spent     \* the requests that took effect or never will

vars == <<ledger, asked, spent>>

Init == /\ ledger = InitialLedger
        /\ asked = [r \in Requests |-> {}]
        /\ spent = {}

\* A user asks for the toggle of their vote on one entry.
Ask(r, u, e) == /\ asked[r] = {}
                /\ asked' = [asked EXCEPT ![r] = {<<u, e>>}]
                /\ UNCHANGED <<ledger, spent>>

\* The request takes effect: the vote is cast, or taken back.
Cast(r) == /\ asked[r] # {} /\ r \notin spent
           /\ ledger' = ledger \cup asked[r]
           /\ spent' = spent \cup {r}
           /\ UNCHANGED asked

Retract(r) == /\ asked[r] # {} /\ r \notin spent
              /\ ledger' = ledger \ asked[r]
              /\ spent' = spent \cup {r}
              /\ UNCHANGED asked

\* The request ends with no effect: it lost a race, or it failed.
Forfeit(r) == /\ r \notin spent
              /\ spent' = spent \cup {r}
              /\ UNCHANGED <<ledger, asked>>

Next == \E r \in Requests :
           \/ \E u \in Users, e \in Entries : Ask(r, u, e)
           \/ Cast(r)
           \/ Retract(r)
           \/ Forfeit(r)

Spec == Init /\ [][Next]_vars
=============================================================================
