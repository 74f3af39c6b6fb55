------------------------------- MODULE MCReads -------------------------------
(***************************************************************************)
(* Three entries, of which some exist at first, one comment and three     *)
(* users.  The stored entries differ in every field, and two share a       *)
(* moment.                                                                 *)
(***************************************************************************)
EXTENDS DemoStore

Called == {"ada", "bob", "eve", "dark", "light", "ui", "v1", "v2", "new", "top", "old", "entries",
           "all", "admin", "editor", "none", "active", "blocked", Empty}
            \cup NamedKinds \cup Statuses
AnEntry(user, kind, internal, votes, created, release) ==
  [user |-> user, kind |-> kind, status |-> "new", internal |-> internal,
   votes |-> votes, created |-> created, release |-> release, topics |-> {},
   words |-> {"dark"}]
Old == { AnEntry("ada", "bug", FALSE, 1, 1, "v1"), AnEntry("bob", "feature-request", TRUE, 1, 2, "v1"),
         [AnEntry("ada", "", FALSE, 0, 2, "") EXCEPT !.status = "completed", !.topics = {"ui"}],
         [AnEntry("", "support", FALSE, 2, 1, "v2") EXCEPT !.words = {"light"}] }
New == { [user |-> "bob", kind |-> "", words |-> {"light"}] }

User(name, roles, blocked, created) ==
  [keys |-> {name}, names |-> [email |-> {name}, custom |-> {}], roles |-> roles,
   blocked |-> blocked, deleted |-> FALSE, created |-> created]
Team == [ada |-> User("ada", {"admin"}, FALSE, 1), bob |-> User("bob", {}, FALSE, 3),
         cyd |-> User("cyd", {"editor"}, TRUE, 2)]

Unfiltered == [search |-> "", publicOnly |-> FALSE, include |-> "", owner |-> "", kind |-> "",
               status |-> "", openOnly |-> FALSE, topic |-> "", release |-> "",
               sort |-> "new", page |-> 0, limit |-> 1]
Listed == { [Unfiltered EXCEPT !.publicOnly = TRUE, !.openOnly = TRUE, !.limit = 0],
            [Unfiltered EXCEPT !.publicOnly = TRUE, !.sort = "top"],
            [Unfiltered EXCEPT !.publicOnly = TRUE, !.owner = "ada"],
            [Unfiltered EXCEPT !.sort = "top", !.limit = 3],
            [Unfiltered EXCEPT !.status = "new"], [Unfiltered EXCEPT !.status = "completed"] }
ByEntries == [search |-> "", role |-> "all", status |-> "all", sort |-> "entries",
              direction |-> "", page |-> 0, limit |-> 1]
Rostered == { ByEntries, [ByEntries EXCEPT !.sort = "old", !.limit = 3] }

(* Filters that set any two clauses, and pages of one and of two. *)
Set == [search |-> "dark", publicOnly |-> TRUE, include |-> "bob", owner |-> "ada", kind |-> "bug",
        status |-> "completed", openOnly |-> TRUE, topic |-> "ui", release |-> "v1",
        sort |-> "top", page |-> 2, limit |-> 2]
Asked == { [k \in DOMAIN Set |-> IF k \in K THEN Set[k] ELSE Unfiltered[k]] :
             K \in {{k, l} : k, l \in DOMAIN Set} }
AskedUsers == { [ByEntries EXCEPT !.search = s, !.role = r, !.status = b] :
                  s \in {"", "bob", "eve"}, r \in {"all", "admin", "editor", "none"},
                  b \in {"all", "active", "blocked"} }
(* Topics in either order, releases of either order of dates (one moment   *)
(* or two), two votes of which one may be gone, activities of one moment.  *)
Shelves ==
  { [topics |-> [i \in 1..2 |-> [order |-> IF up THEN i ELSE 3 - i, title |-> i, created |-> i]],
     releases |-> [i \in 1..3 |-> [date |-> IF up THEN 1 ELSE i % 2, created |-> i,
                                   state |-> IF i = 3 THEN "planned" ELSE "completed", name |-> i]],
     votes |-> [i \in 1..n |-> [user |-> "ada", entry |-> i]],
     activities |-> [i \in 1..3 |-> [entry |-> 1 + (i % 2), created |-> IF up THEN 1 ELSE 4 - i]]] :
    up \in BOOLEAN, n \in 1..2 }
===============================================================================
