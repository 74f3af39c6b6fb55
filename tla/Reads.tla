-------------------------------- MODULE Reads --------------------------------
(***************************************************************************)
(* What the two front ends read: the listings, page after page, an entry,  *)
(* its comments, the changelog, the similarity search, the dashboard and   *)
(* the list of users.  A handler makes several queries, and the entries    *)
(* change between them; so do they between the pages of one listing.  The  *)
(* other modules model how entries come to be written: here every write    *)
(* that a reader can notice is one step.                                   *)
(***************************************************************************)
EXTENDS Integers, FiniteSets, Sequences,
        SequencesExt,      \* ToSet
        FiniteSetsExt      \* Min, Max

CONSTANTS
  Names,         \* of users, kinds, statuses, releases, topics, words, sorts
  EntryIds,      \* positive integers: ids are compared
  Stored,        \* what an entry of an existing deployment may look like
  Drafts,        \* what may be submitted: [user, kind, words]
  CommentIds,
  Releases,
  Accounts,      \* the user documents: a function from ids
  Walks,         \* the listings that are walked through, as filters
  Rosters,       \* the user lists that are walked through
  DefaultLimit, MaxLimit,  \* 25 and 100 in the code
  MaxWrites      \* bound: writes while a reader is at work

VARIABLES entries, comments, reader, since, writes
vars == <<entries, comments, reader, since, writes>>

Empty == ""     \* an unset clause of a filter; no author, no type, no release
NamedKinds == {"feature-request", "bug", "support"}
Statuses == {"new", "evaluation", "in-progress", "completed", "cancelled"}
Closed == {"completed", "cancelled"}

Entry == [user : Names, kind : Names, status : Names, internal : BOOLEAN, votes : Int,
          created : Int, release : Names, topics : SUBSET Names, words : SUBSET Names]
EntryListFilter ==
  [search : Names, publicOnly : BOOLEAN, include : Names, owner : Names, kind : Names,
   status : Names, openOnly : BOOLEAN, topic : Names, release : Names,
   sort : Names, page : Int, limit : Int]
UserListFilter ==
  [search : Names, role : Names, status : Names, sort : Names, direction : Names,
   page : Int, limit : Int]
(* Who walks starts with the first page, and no handler widens what is     *)
(* public by somebody's own (IncludeOwnerID).  Users come in the order of  *)
(* their insertion, which created stands for.                              *)
ASSUME ConstantsAssumption ==
  /\ {Empty} \cup Statuses \subseteq Names
  /\ EntryIds \subseteq Int /\ CommentIds \subseteq Int /\ IsFiniteSet(CommentIds)
  /\ Stored \subseteq Entry /\ Drafts \subseteq [user : Names, kind : Names, words : SUBSET Names]
  /\ Walks \subseteq EntryListFilter
  /\ \A f \in Walks : f.page \in 0..1 /\ (f.publicOnly => f.include = Empty)
  /\ Rosters \subseteq UserListFilter /\ \A f \in Rosters : f.page \in 0..1
  /\ IsFiniteSet(DOMAIN Accounts)
  /\ \A u, v \in DOMAIN Accounts :
       /\ Accounts[u].created \in Int
       /\ Accounts[u].created = Accounts[v].created => u = v
  /\ MaxLimit \in Nat /\ DefaultLimit \in 1..MaxLimit /\ MaxWrites \in Nat

(* The elements of a finite set, each ahead of those it is to precede. *)
InOrder(S, Before(_, _)) ==
  CHOOSE s \in [1..Cardinality(S) -> S] :
    \A a, b \in 1..Cardinality(S) : a < b => Before(s[a], s[b])

-------------------------------------------------------------------------------
(* Queries, over a collection given as a function from ids.                *)

(* The clauses of a list filter, all of which must hold. *)
Matches(e, f) ==
  /\ f.search = Empty \/ f.search \in e.words
  /\ f.publicOnly => ~e.internal \/ (f.include # Empty /\ e.user = f.include)
  /\ f.owner = Empty \/ e.user = f.owner
  /\ f.kind = Empty \/ e.kind = f.kind
  /\ IF f.status # Empty THEN e.status = f.status
                          ELSE f.openOnly => e.status \notin Closed
  /\ f.topic = Empty \/ f.topic \in e.topics
  /\ f.release = Empty \/ e.release = f.release

Newer(c, i, j) == c[i].created > c[j].created \/ (c[i].created = c[j].created /\ i > j)
Higher(c, i, j) == c[i].votes > c[j].votes \/ (c[i].votes = c[j].votes /\ Newer(c, i, j))
Sorted(c, ids, sort) ==
  InOrder(ids, LAMBDA i, j : IF sort = "top" THEN Higher(c, i, j) ELSE Newer(c, i, j))

LimitOf(f) == IF f.limit \in 1..MaxLimit THEN f.limit ELSE DefaultLimit
PageOf(f) == IF f.page > 0 THEN f.page ELSE 1
(* One page of a result: a skip and a limit. *)
Slice(s, page, limit) == SubSeq(s, (page - 1) * limit + 1, Min({page * limit, Len(s)}))

Found(c, f) == {i \in DOMAIN c : Matches(c[i], f)}
Listing(c, f) == Sorted(c, Found(c, f), f.sort)
ListEntries(c, f) == Slice(Listing(c, f), PageOf(f), LimitOf(f))
CountEntries(c, f) == Cardinality(Found(c, f))

ListEntriesByReleaseID(c, r, publicOnly) ==
  Sorted(c, {i \in DOMAIN c : c[i].release = r /\ (publicOnly => ~c[i].internal)}, "new")
ListEntriesForSimilarity(c, publicOnly) ==
  Sorted(c, {i \in DOMAIN c : publicOnly => ~c[i].internal}, "new")
ListEntriesForRelationAnalysis(c, id) == Sorted(c, DOMAIN c \ {id}, "new")

(* The oldest comment first. *)
ListCommentsByEntryID(c, id, includeInternal) ==
  InOrder({m \in DOMAIN c : c[m].entry = id /\ (c[m].internal => includeInternal)},
          LAMBDA m, n : m < n)
CountCommentsByEntryID(c, id) == Cardinality({m \in DOMAIN c : c[m].entry = id})

(* How many of some entries there are of each kind; whatever has no name   *)
(* of its own, the untyped included, is among the others.                  *)
(* Mutated: the untyped are not folded into the others. *)
KindBucketAsIs(k) == k
KindBucket(k) == IF k \in NamedKinds THEN k ELSE "other"
StatusBucket(s) == IF s \in Statuses THEN s ELSE "new"
ByKind(c, ids) ==
  [b \in NamedKinds \cup {"other"} |-> Cardinality({i \in ids : KindBucket(c[i].kind) = b})]
TypesTotal(t) == t["feature-request"] + t["bug"] + t["support"] + t["other"]
StatusesTotal(s) ==
  s["new"] + s["evaluation"] + s["in-progress"] + s["completed"] + s["cancelled"]

CountEntriesByUserAndEntryType(c) ==
  [u \in {c[i].user : i \in DOMAIN c} \ {Empty} |->
     ByKind(c, {i \in DOMAIN c : c[i].user = u})]
ListEntryAuthorIDs(c) == {c[i].user : i \in DOMAIN c} \ {Empty}
CountEntriesPerTopicByEntryType(c) ==
  [t \in (UNION {c[i].topics : i \in DOMAIN c}) \ {Empty} |->
     ByKind(c, {i \in DOMAIN c : t \in c[i].topics})]
CountEntriesPerTopic(c) ==
  [t \in (UNION {c[i].topics : i \in DOMAIN c}) \ {Empty} |->
     Cardinality({i \in DOMAIN c : t \in c[i].topics})]
CountEntriesPerReleaseByEntryType(c) ==
  [r \in {c[i].release : i \in DOMAIN c} \ {Empty} |->
     ByKind(c, {i \in DOMAIN c : c[i].release = r})]
CountEntriesByReleaseID(c, r) == Cardinality({i \in DOMAIN c : c[i].release = r})

(* The single reads of the dashboard, each a query of its own. *)
CountInternal(c) == Cardinality({i \in DOMAIN c : c[i].internal})
CountClosed(c) == Cardinality({i \in DOMAIN c : c[i].status \in Closed})
GroupByType(c) == ByKind(c, DOMAIN c)
GroupByStatus(c) ==
  [s \in Statuses |-> Cardinality({i \in DOMAIN c : StatusBucket(c[i].status) = s})]

(* The other collections.  A filter that two documents match finds none. *)
QueryOne(ids) == IF Cardinality(ids) = 1 THEN ids ELSE {}
ListEntryTopics(c) ==
  InOrder(DOMAIN c, LAMBDA i, j : c[i].order < c[j].order
                                       \/ (c[i].order = c[j].order /\ c[i].title < c[j].title))
ReleasedLater(c, i, j) == c[i].date > c[j].date \/ (c[i].date = c[j].date /\ c[i].created > c[j].created)
ListReleases(c) == InOrder(DOMAIN c, LAMBDA i, j : ReleasedLater(c, i, j))
ListReleasesByState(c, state) ==
  InOrder({i \in DOMAIN c : c[i].state = state}, LAMBDA i, j : ReleasedLater(c, i, j))
FindReleaseByVersionName(c, name) == QueryOne({i \in DOMAIN c : c[i].name = name})
FindVote(c, user, entry) ==
  QueryOne({i \in DOMAIN c : user # Empty /\ c[i].user = user /\ c[i].entry = entry})
CountVotesForEntry(c, entry) == Cardinality({i \in DOMAIN c : c[i].entry = entry})
VotedEntryIDs(c, user, ids) ==
  {c[i].entry : i \in {j \in DOMAIN c : user # Empty /\ c[j].user = user}} \cap ids
ListActivitiesByEntryID(c, entry) ==
  InOrder({i \in DOMAIN c : c[i].entry = entry},
               LAMBDA i, j : c[i].created < c[j].created \/ (c[i].created = c[j].created /\ i < j))

-------------------------------------------------------------------------------
(* The console's user list: all matching users, their counts of entries,   *)
(* sorted and cut in memory.  A user document holds [words, keys, names,   *)
(* roles, blocked, deleted, created]; names are per kind of account.       *)

UserMatches(u, f) ==
  /\ ~u.deleted
  /\ f.search = Empty \/ f.search \in u.keys \cup u.names["email"] \cup u.names["custom"]
  /\ CASE f.role \in {"admin", "editor"} -> f.role \in u.roles
       [] f.role = "none" -> u.roles = {}
       [] OTHER -> TRUE
  /\ CASE f.status = "active" -> ~u.blocked
       [] f.status = "blocked" -> u.blocked
       [] OTHER -> TRUE
Older(u, v) == Accounts[u].created < Accounts[v].created
(* In the order of insertion: no sort is asked for. *)
ListAllUsers(f) == InOrder({u \in DOMAIN Accounts : UserMatches(Accounts[u], f)}, Older)
ListUsersWithRoles == InOrder({u \in DOMAIN Accounts : Accounts[u].roles # {}}, Older)
CountActiveAdmins ==
  Cardinality({u \in DOMAIN Accounts : "admin" \in Accounts[u].roles /\ ~Accounts[u].blocked
                                        /\ ~Accounts[u].deleted})

FindUserByKey(key) ==
  QueryOne({u \in DOMAIN Accounts : key # Empty /\ key \in Accounts[u].keys})
ListUsersByIDs(ids) == InOrder(DOMAIN Accounts \cap ids, Older)

(* A stable sort: of two that neither precedes the other, the earlier is   *)
(* ahead.                                                                  *)
StableSort(s, Precedes(_, _)) ==
  LET Ahead(i, j) == Precedes(s[i], s[j]) \/ (~Precedes(s[j], s[i]) /\ i < j)
      order == InOrder(DOMAIN s, Ahead)
  IN  [k \in DOMAIN s |-> s[order[k]]]

CountColumn(sort) ==
  CASE sort = "feature-requests" -> {"feature-request"}
    [] sort = "bugs" -> {"bug"}
    [] sort = "support" -> {"support"}
    [] sort = "others" -> {"other"}
    [] sort = "entries" -> NamedKinds \cup {"other"}
    [] OTHER -> {}
SortKey(c, u, sort) ==
  IF CountColumn(sort) = {}
  THEN Accounts[u].created
  ELSE Cardinality({i \in DOMAIN c : c[i].user = u /\ KindBucket(c[i].kind) \in CountColumn(sort)})
Descending(f) ==
  CASE f.direction = "asc" -> FALSE
    [] f.direction = "desc" -> TRUE
    [] OTHER -> f.sort # "old"
UserRows(c, f) ==
  LET Less(u, v) == SortKey(c, u, f.sort) < SortKey(c, v, f.sort)
  IN  StableSort(ListAllUsers(f), LAMBDA u, v : IF Descending(f) THEN Less(v, u) ELSE Less(u, v))

-------------------------------------------------------------------------------
(* A reader asks for one thing; for a listing, for all its pages.  What it *)
(* needs to be told against is kept from the moment it asks: what it would *)
(* be told then, what was public meanwhile, and the writes since.          *)

Idle == [op |-> "idle", at |-> "done"]
PublicEntries(c) == {i \in DOMAIN c : ~c[i].internal}
PublicComments(m) == {k \in DOMAIN m : ~m[k].internal}
Ask(r, whole) ==
  /\ reader = Idle
  /\ reader' = r
  /\ since' = [entries |-> PublicEntries(entries), comments |-> PublicComments(comments),
               whole |-> whole, writes |-> {}]
  /\ UNCHANGED <<entries, comments, writes>>
Continue(r) == reader' = r /\ UNCHANGED <<entries, comments, since, writes>>

(* ListEntriesHandler of either front end: the entries of a page, then     *)
(* their number, which says whether there is a page after it.              *)
AskListing ==
  \E f \in Walks :
    Ask([op |-> "listing", at |-> "entries", f |-> f, got |-> <<>>], Listing(entries, f))
ReadPage ==
  /\ reader.op = "listing" /\ reader.at = "entries"
  /\ Continue([reader EXCEPT !.at = "count", !.got = @ \o ListEntries(entries, reader.f)])
(* Mutated: the limit as the client gave it, not as it was applied. *)
HasMoreAsAsked(total, f) == PageOf(f) * f.limit < total
HasMore(total, f) == PageOf(f) * LimitOf(f) < total
CountPage ==
  /\ reader.op = "listing" /\ reader.at = "count"
  /\ IF HasMore(CountEntries(entries, reader.f), reader.f)
     THEN Continue([reader EXCEPT !.at = "entries", !.f.page = PageOf(reader.f) + 1])
     ELSE Continue([reader EXCEPT !.at = "done"])

(* ListUsersHandler: every page lists, counts, sorts and cuts anew. *)
AskUsers ==
  \E f \in Rosters :
    Ask([op |-> "users", at |-> "users", f |-> f, got |-> <<>>], UserRows(entries, f))
ReadUsers ==
  /\ reader.op = "users" /\ reader.at = "users"
  /\ LET rows == UserRows(entries, reader.f)
         page == PageOf(reader.f)
         end == Min({page * LimitOf(reader.f), Len(rows)})
     IN  Continue([reader EXCEPT !.got = @ \o Slice(rows, page, LimitOf(reader.f)),
                                 !.at = IF end < Len(rows) THEN "users" ELSE "done",
                                 !.f.page = page + 1])

(* GetEntryHandler: one read, and an internal entry is not found. *)
AskEntry ==
  \E i \in DOMAIN entries :
    Ask([op |-> "entry", at |-> "done",
         shown |-> IF entries[i].internal THEN {} ELSE {i}], <<>>)

(* ListCommentsHandler: the entry is read, and then its comments. *)
(* Mutated: whether the entry is internal is not looked at. *)
AskCommentsUnchecked ==
  \E i \in DOMAIN entries :
    Ask([op |-> "comments", at |-> "comments", entry |-> i, told |-> {}], <<>>)
AskComments ==
  \E i \in DOMAIN entries :
    Ask([op |-> "comments", at |-> IF entries[i].internal THEN "done" ELSE "comments",
         entry |-> i, told |-> {}], <<>>)
ReadComments ==
  /\ reader.op = "comments" /\ reader.at = "comments"
  /\ Continue([reader EXCEPT !.at = "done",
                             !.told = ToSet(ListCommentsByEntryID(comments, reader.entry, FALSE))])

(* ListChangelogHandler: the entries of one release after another. *)
AskChangelog == Ask([op |-> "changelog", at |-> "releases", left |-> Releases, shown |-> {}], <<>>)
(* GetChangelogReleaseHandler: those of one, found by its version or id. *)
AskRelease ==
  \E r \in Releases :
    Ask([op |-> "changelog", at |-> "releases", left |-> {r}, shown |-> {}], <<>>)
ReadRelease ==
  /\ reader.op = "changelog" /\ reader.at = "releases"
  /\ \E r \in reader.left :
       Continue([reader EXCEPT !.left = @ \ {r},
                               !.at = IF reader.left = {r} THEN "done" ELSE @,
                               !.shown = @ \cup ToSet(ListEntriesByReleaseID(entries, r, TRUE))])

(* FindSimilarHandler: the public entries are put to the model, which may  *)
(* answer with any ids, and those that were put to it are shown (five at   *)
(* most in the code).                                                      *)
Candidates(c) == ToSet(ListEntriesForSimilarity(c, TRUE))
AskSimilar ==
  Ask([op |-> "similar", at |-> IF Candidates(entries) = {} THEN "done" ELSE "model",
       pool |-> Candidates(entries), shown |-> {}], <<>>)
AnswerSimilar ==
  /\ reader.op = "similar" /\ reader.at = "model"
  /\ \E ids \in SUBSET EntryIds :
       Continue([reader EXCEPT !.at = "done", !.shown = ids \cap reader.pool])

(* GetDashboardStats: every figure is a query of its own. *)
AskDashboard ==
  Ask([op |-> "dashboard", at |-> "total", total |-> 0, internal |-> 0, closed |-> 0,
       types |-> <<>>, statuses |-> <<>>], <<>>)
ReadFigure ==
  /\ reader.op = "dashboard"
  /\ \/ reader.at = "total"
        /\ Continue([reader EXCEPT !.at = "internal", !.total = Cardinality(DOMAIN entries)])
     \/ reader.at = "internal"
        /\ Continue([reader EXCEPT !.at = "closed", !.internal = CountInternal(entries)])
     \/ reader.at = "closed"
        /\ Continue([reader EXCEPT !.at = "types", !.closed = CountClosed(entries)])
     \/ reader.at = "types"
        /\ Continue([reader EXCEPT !.at = "statuses", !.types = GroupByType(entries)])
     \/ reader.at = "statuses"
        /\ Continue([reader EXCEPT !.at = "done", !.statuses = GroupByStatus(entries)])

-------------------------------------------------------------------------------
(* What is written meanwhile. *)

(* Bounded to the writes that a reader at work can notice. *)
Written(kind, readers) ==
  /\ writes < MaxWrites /\ reader.op \in readers /\ reader.at # "done"
  /\ writes' = writes + 1
  /\ since' = [since EXCEPT !.entries = @ \cup PublicEntries(entries'),
                            !.comments = @ \cup PublicComments(comments'),
                            !.writes = @ \cup {kind}]
  /\ UNCHANGED reader
Readers == {"listing", "users", "comments", "changelog", "similar", "dashboard"}
Change(kind, readers) == UNCHANGED comments /\ Written(kind, readers)

(* SubmitEntryHandler.  Two submissions may share a moment. *)
Submit ==
  \E i \in EntryIds \ DOMAIN entries, d \in Drafts, later \in 0..1 :
    LET e == [user |-> d.user, kind |-> d.kind, words |-> d.words, status |-> "new",
              internal |-> FALSE, votes |-> 0, topics |-> {}, release |-> Empty,
              created |-> Max({entries[j].created : j \in DOMAIN entries}) + later]
    IN  /\ entries' = [j \in DOMAIN entries \cup {i} |-> IF j = i THEN e ELSE entries[j]]
        /\ Change("submitted", Readers)
(* SetEntryIsInternal, SetEntryStatus and IncrementEntryVoteCount. *)
Flip ==
  \E i \in DOMAIN entries :
    /\ entries' = [entries EXCEPT ![i].internal = ~@]
    /\ Change(IF entries[i].internal THEN "published" ELSE "hidden", Readers)
Close ==
  \E i \in DOMAIN entries :
    /\ entries[i].status \notin Closed
    /\ entries' = [entries EXCEPT ![i].status = "completed"]
    /\ Change("closed", {"listing", "dashboard"})
Vote ==
  \E i \in DOMAIN entries :
    /\ entries' = [entries EXCEPT ![i].votes = @ + 1]
    /\ Change("voted", {"listing"})
(* UpdateCommentHandler. *)
FlipComment ==
  \E m \in DOMAIN comments :
    /\ comments' = [comments EXCEPT ![m].internal = ~@]
    /\ UNCHANGED entries /\ Written("comment", {"comments"})

Init ==
  /\ \E D \in (SUBSET EntryIds) \ {{}} : IsFiniteSet(D) /\ entries \in [D -> Stored]
  /\ comments \in [CommentIds -> [entry : {Min(DOMAIN entries)}, internal : BOOLEAN]]
  /\ reader = Idle
  /\ since = [entries |-> {}, comments |-> {}, whole |-> <<>>, writes |-> {}]
  /\ writes = 0

Reading == \/ AskListing \/ ReadPage \/ CountPage \/ AskUsers \/ ReadUsers \/ AskEntry
           \/ AskComments \/ ReadComments \/ AskChangelog \/ AskRelease \/ ReadRelease
           \/ AskSimilar \/ AnswerSimilar \/ AskDashboard \/ ReadFigure
Writing == Submit \/ Flip \/ Close \/ Vote \/ FlipComment
Next == Reading \/ Writing
Spec == Init /\ [][Next]_vars

-------------------------------------------------------------------------------
(* What the Portal shows a visitor (an entry, a comment and the entry it   *)
(* is on) was public at some moment since the visitor asked, however the   *)
(* flags are turned between the reads of the handler: nothing that was     *)
(* internal all the while, or from before the visitor asked, gets out.     *)
Shown ==
  CASE reader.op \in {"entry", "changelog", "similar"} -> reader.shown
    [] reader.op = "comments" -> {comments[m].entry : m \in reader.told}
    [] reader.op = "listing" /\ reader.f.publicOnly -> ToSet(reader.got)
    [] OTHER -> {}
PortalShowsThePublic ==
  /\ Shown \subseteq since.entries
  /\ reader.op = "comments" => reader.told \subseteq since.comments

(* Walking through the pages until there is no more: if no write in        *)
(* between took an entry out of the listing or moved it in the order,      *)
(* every entry that was listed at the start is served, new ones            *)
(* notwithstanding; and if nothing was listed either, every entry is       *)
(* served once and in order.  The same for users, whose order may hang on  *)
(* the numbers of their entries.                                           *)
MovesInto(f) ==
  IF reader.op = "users" THEN {}
  ELSE {"submitted"} \cup (IF f.publicOnly THEN {"published"} ELSE {})
         \cup (IF f.status = "completed" THEN {"closed"} ELSE {})
Moves(f) ==
  IF reader.op = "users" THEN IF CountColumn(f.sort) = {} THEN {} ELSE {"submitted"}
  ELSE (IF f.sort = "top" THEN {"voted"} ELSE {}) \cup (IF f.publicOnly THEN {"hidden"} ELSE {})
         \cup (IF IF f.status = Empty THEN f.openOnly ELSE f.status \notin Closed
               THEN {"closed"} ELSE {})
WalksMissNothing ==
  reader.op \in {"listing", "users"} /\ reader.at = "done" =>
    /\ since.writes \cap Moves(reader.f) = {} => ToSet(since.whole) \subseteq ToSet(reader.got)
    /\ since.writes \cap (Moves(reader.f) \cup MovesInto(reader.f)) = {} => reader.got = since.whole

(* The dashboard's figures are read one after another while entries come   *)
(* in.  The figures of the later queries never fall short of the earlier   *)
(* ones, and without a new entry in between the buckets sum to the total,  *)
(* and the figures got by subtraction are not negative.                    *)
DashboardAddsUp ==
  reader.op = "dashboard" /\ reader.at = "done" =>
    /\ reader.total <= TypesTotal(reader.types)
    /\ TypesTotal(reader.types) <= StatusesTotal(reader.statuses)
    /\ "submitted" \notin since.writes =>
         /\ TypesTotal(reader.types) = reader.total /\ StatusesTotal(reader.statuses) = reader.total
         /\ reader.internal <= reader.total /\ reader.closed <= reader.total
===============================================================================
