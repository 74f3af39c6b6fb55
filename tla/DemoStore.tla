------------------------------ MODULE DemoStore ------------------------------
(***************************************************************************)
(* The read-only store of a demo instance, which promises to stay a        *)
(* faithful mirror of the database: the same questions, answered by loops  *)
(* over slices held in memory.  Its data never change, so what there is    *)
(* to check is that over any data the loops answer as the queries of Reads *)
(* do, whose order is not that of the slices.                              *)
(***************************************************************************)
EXTENDS Reads      \* and its SetToSeq, ToSet

CONSTANTS Questions,      \* filters of entries the mirror is asked for
          UserQuestions,  \* and of users
          Catalogues      \* topics, releases, votes and activities of a demo

(* The demo's users are found by their keys and by names of two kinds of   *)
(* account, and no key is two users'; its topics have an order each, its   *)
(* releases a name and a moment each, and no user has two votes on an      *)
(* entry.  Titles and moments are numbers, and so are the ids.             *)
Rows(c) == IsFiniteSet(DOMAIN c) /\ DOMAIN c \subseteq Int
ASSUME CataloguesAssumption ==
  /\ Questions \subseteq EntryListFilter /\ UserQuestions \subseteq UserListFilter
  /\ \A u \in DOMAIN Accounts : DOMAIN Accounts[u].names = {"email", "custom"}
  /\ \A u, v \in DOMAIN Accounts : Accounts[u].keys \cap Accounts[v].keys # {} => u = v
  /\ \A k \in Catalogues :
       /\ Rows(k.topics) /\ Rows(k.releases) /\ Rows(k.votes) /\ Rows(k.activities)
       /\ \A i, j \in DOMAIN k.topics : k.topics[i].order = k.topics[j].order => i = j
       /\ \A i \in DOMAIN k.topics :
            {k.topics[i].order, k.topics[i].title, k.topics[i].created} \subseteq Int
       /\ \A i, j \in DOMAIN k.releases :
            \/ k.releases[i].name = k.releases[j].name
            \/ k.releases[i].date = k.releases[j].date /\ k.releases[i].created = k.releases[j].created
            => i = j
       /\ \A i \in DOMAIN k.releases : {k.releases[i].date, k.releases[i].created} \subseteq Int
       /\ \A i, j \in DOMAIN k.votes :
            k.votes[i].user = k.votes[j].user /\ k.votes[i].entry = k.votes[j].entry => i = j
       /\ \A i \in DOMAIN k.votes : k.votes[i].user # Empty
       /\ \A i \in DOMAIN k.activities : k.activities[i].created \in Int

Ascending(S) == InOrder(S, LAMBDA i, j : i < j)

(* The slices: entries in no particular order, users and comments as they  *)
(* were made.                                                              *)
Slices == SetToSeq(DOMAIN entries)
UserSlice == InOrder(DOMAIN Accounts, Older)
CommentSlice == Ascending(DOMAIN comments)
(* What a loop over a slice keeps, in the order of the slice. *)
Picked(s, T) ==
  LET at == Ascending({k \in 1..Len(s) : s[k] \in T})
  IN  [n \in DOMAIN at |-> s[at[n]]]

-------------------------------------------------------------------------------
(* filterEntries: one loop, which leaves an entry out on the first clause  *)
(* that it fails.                                                          *)
(* Mutated: openOnly counts beside a status too. *)
SkippedIfClosed(e, f) ==
  \/ f.search # Empty /\ f.search \notin e.words
  \/ f.publicOnly /\ e.internal /\ (f.include = Empty \/ e.user # f.include)
  \/ f.owner # Empty /\ e.user # f.owner
  \/ f.kind # Empty /\ e.kind # f.kind
  \/ f.status # Empty /\ e.status # f.status
  \/ f.openOnly /\ e.status \in Closed
  \/ f.topic # Empty /\ f.topic \notin e.topics
  \/ f.release # Empty /\ e.release # f.release
Skipped(e, f) ==
  \/ f.search # Empty /\ f.search \notin e.words
  \/ f.publicOnly /\ f.include # Empty /\ e.internal /\ e.user # f.include
  \/ f.publicOnly /\ f.include = Empty /\ e.internal
  \/ f.owner # Empty /\ e.user # f.owner
  \/ f.kind # Empty /\ e.kind # f.kind
  \/ f.status # Empty /\ e.status # f.status
  \/ f.status = Empty /\ f.openOnly /\ e.status \in Closed
  \/ f.topic # Empty /\ f.topic \notin e.topics
  \/ f.release # Empty /\ e.release # f.release
filterEntries(f) == Picked(Slices, {i \in DOMAIN entries : ~Skipped(entries[i], f)})

SortEntries(s, sort) ==
  StableSort(s, LAMBDA i, j : IF sort = "top" THEN Higher(entries, i, j) ELSE Newer(entries, i, j))

paginate(s, page, limit) ==
  LET skip == (page - 1) * limit
  IN  IF skip >= Len(s) THEN <<>>
      ELSE SubSeq(s, skip + 1, IF skip + limit > Len(s) THEN Len(s) ELSE skip + limit)

DemoListEntries(f) == paginate(SortEntries(filterEntries(f), f.sort), PageOf(f), LimitOf(f))
DemoCountEntries(f) == Len(filterEntries(f))

(* Some of the entries, newest first. *)
NewestOf(T) == SortEntries(Picked(Slices, T), "new")
DemoListEntriesByReleaseID(r, publicOnly) ==
  NewestOf({i \in DOMAIN entries : entries[i].release = r /\ ~(publicOnly /\ entries[i].internal)})
DemoListEntriesForSimilarity(publicOnly) ==
  NewestOf({i \in DOMAIN entries : ~(publicOnly /\ entries[i].internal)})
DemoListEntriesForRelationAnalysis(id) == NewestOf({i \in DOMAIN entries : i # id})

DemoListComments(id, includeInternal) ==
  StableSort(Picked(CommentSlice, {m \in DOMAIN comments :
                     comments[m].entry = id /\ (includeInternal \/ ~comments[m].internal)}),
             LAMBDA m, n : m < n)
DemoCountComments(id) == Len(Picked(CommentSlice, {m \in DOMAIN comments : comments[m].entry = id}))

-------------------------------------------------------------------------------
(* Counters, bumped in a loop over the entries.  keys[i] are those under   *)
(* which entry i counts; a key that never came up has no counter.          *)

NoCount == [b \in NamedKinds \cup {"other"} |-> 0]
bumpTypeCounts(counts, kind) ==
  IF kind \in NamedKinds THEN [counts EXCEPT ![kind] = @ + 1] ELSE [counts EXCEPT !["other"] = @ + 1]
Bumped(out, ks, kind) ==
  [x \in DOMAIN out \cup ks |->
     LET c == IF x \in DOMAIN out THEN out[x] ELSE NoCount
     IN  IF x \in ks THEN bumpTypeCounts(c, kind) ELSE c]
CountBy(keys) ==
  LET out[k \in 0..Len(Slices)] ==
        IF k = 0 THEN <<>>
        ELSE Bumped(out[k - 1], keys[Slices[k]] \ {Empty}, entries[Slices[k]].kind)
  IN  out[Len(Slices)]

DemoCountEntriesByUser == CountBy([i \in DOMAIN entries |-> {entries[i].user}])
DemoCountPerTopic == CountBy([i \in DOMAIN entries |-> entries[i].topics])
DemoCountPerRelease == CountBy([i \in DOMAIN entries |-> {entries[i].release}])
DemoCountByRelease(r) == Len(Picked(Slices, {i \in DOMAIN entries : entries[i].release = r}))
(* Each author once, when first seen. *)
DemoListEntryAuthorIDs ==
  LET user(k) == entries[Slices[k]].user
      at == Ascending({k \in 1..Len(Slices) : user(k) \notin {Empty} \cup {user(j) : j \in 1..k - 1}})
  IN  [n \in DOMAIN at |-> user(at[n])]

(* GetDashboardStats: all figures in one loop. *)
Tallied(d, e) ==
  [total |-> d.total,
   internal |-> IF e.internal THEN d.internal + 1 ELSE d.internal,
   closed |-> IF e.status \in Closed THEN d.closed + 1 ELSE d.closed,
   types |-> bumpTypeCounts(d.types, e.kind),
   statuses |-> [d.statuses EXCEPT ![StatusBucket(e.status)] = @ + 1]]
DemoDashboard ==
  LET out[k \in 0..Len(Slices)] ==
        IF k = 0 THEN [total |-> Len(Slices), internal |-> 0, closed |-> 0,
                       types |-> NoCount, statuses |-> [s \in Statuses |-> 0]]
        ELSE Tallied(out[k - 1], entries[Slices[k]])
  IN  out[Len(Slices)]

-------------------------------------------------------------------------------
(* Users.  The search looks through the names of every account. *)
UserSkipped(u, f) ==
  \/ u.deleted
  \/ f.search # Empty /\ f.search \notin u.keys \cup UNION {u.names[t] : t \in DOMAIN u.names}
  \/ f.role \in {"admin", "editor"} /\ f.role \notin u.roles
  \/ f.role = "none" /\ u.roles # {}
  \/ f.status = "active" /\ u.blocked
  \/ f.status = "blocked" /\ ~u.blocked
filterUsers(f) == Picked(UserSlice, {u \in DOMAIN Accounts : ~UserSkipped(Accounts[u], f)})
DemoListUsersWithRoles ==
  StableSort(Picked(UserSlice, {u \in DOMAIN Accounts : Accounts[u].roles # {}}), Older)
DemoCountActiveAdmins ==
  Len(Picked(UserSlice, {u \in DOMAIN Accounts : /\ ~Accounts[u].blocked /\ ~Accounts[u].deleted
                                                /\ "admin" \in Accounts[u].roles}))

(* The first one found, if any. *)
FirstOf(s) == IF s = <<>> THEN {} ELSE {s[1]}
DemoFindUserByKey(key) ==
  IF key = Empty THEN {} ELSE FirstOf(Picked(UserSlice, {u \in DOMAIN Accounts : key \in Accounts[u].keys}))
DemoListUsersByIDs(ids) == Picked(UserSlice, ids)

-------------------------------------------------------------------------------
(* The other collections: the first that fits is found, and lists are      *)
(* sorted once they are collected.                                         *)
Collected(c, T) == Picked(Ascending(DOMAIN c), T)
DemoListEntryTopics(c) ==
  StableSort(Collected(c, DOMAIN c),
             LAMBDA i, j : IF c[i].order # c[j].order THEN c[i].order < c[j].order
                                                      ELSE c[i].created < c[j].created)
SortReleases(c, s) == StableSort(s, LAMBDA i, j : ReleasedLater(c, i, j))
DemoListReleases(c) == SortReleases(c, Collected(c, DOMAIN c))
DemoListReleasesByState(c, state) ==
  SortReleases(c, Collected(c, {i \in DOMAIN c : c[i].state = state}))
DemoFindReleaseByVersionName(c, name) == FirstOf(Collected(c, {i \in DOMAIN c : c[i].name = name}))
DemoFindVote(c, user, entry) ==
  FirstOf(Collected(c, {i \in DOMAIN c : c[i].user = user /\ c[i].entry = entry}))
DemoCountVotesForEntry(c, entry) == Len(Collected(c, {i \in DOMAIN c : c[i].entry = entry}))
DemoVotedEntryIDs(c, user, ids) ==
  IF user = Empty \/ ids = {} THEN {}
  ELSE {c[i].entry : i \in ToSet(Collected(c, {j \in DOMAIN c : c[j].user = user /\ c[j].entry \in ids}))}
DemoListActivities(c, entry) ==
  StableSort(Collected(c, {i \in DOMAIN c : c[i].entry = entry}),
             LAMBDA i, j : IF c[i].created # c[j].created THEN c[i].created < c[j].created ELSE i < j)

-------------------------------------------------------------------------------
(* The demo answers every question a handler asks as the database would    *)
(* over the same data: lists in the same order, and the same page of them, *)
(* counts, buckets, comments, users, topics, releases, votes, activities.  *)
EntriesMirrored ==
  /\ \A f \in Questions : /\ DemoListEntries(f) = ListEntries(entries, f)
                          /\ DemoCountEntries(f) = CountEntries(entries, f)
  /\ \A b \in BOOLEAN : /\ DemoListEntriesForSimilarity(b) = ListEntriesForSimilarity(entries, b)
                        /\ \A r \in Releases :
                             DemoListEntriesByReleaseID(r, b) = ListEntriesByReleaseID(entries, r, b)
  /\ \A i \in DOMAIN entries :
       /\ DemoListEntriesForRelationAnalysis(i) = ListEntriesForRelationAnalysis(entries, i)
       /\ DemoCountComments(i) = CountCommentsByEntryID(comments, i)
       /\ \A b \in BOOLEAN : DemoListComments(i, b) = ListCommentsByEntryID(comments, i, b)
CountsMirrored ==
  /\ DemoCountEntriesByUser = CountEntriesByUserAndEntryType(entries)
  /\ DemoCountPerTopic = CountEntriesPerTopicByEntryType(entries)
  /\ DemoCountPerRelease = CountEntriesPerReleaseByEntryType(entries)
  /\ \A r \in Releases : DemoCountByRelease(r) = CountEntriesByReleaseID(entries, r)
  /\ ToSet(DemoListEntryAuthorIDs) = ListEntryAuthorIDs(entries)
  /\ DemoDashboard = [total |-> Cardinality(DOMAIN entries), internal |-> CountInternal(entries),
                      closed |-> CountClosed(entries), types |-> GroupByType(entries),
                      statuses |-> GroupByStatus(entries)]
UsersMirrored ==
  /\ \A f \in UserQuestions : filterUsers(f) = ListAllUsers(f)
  /\ DemoListUsersWithRoles = ListUsersWithRoles
  /\ DemoCountActiveAdmins = CountActiveAdmins
  /\ \A k \in (UNION {Accounts[u].keys : u \in DOMAIN Accounts}) \cup {Empty} :
       DemoFindUserByKey(k) = FindUserByKey(k)
  /\ \A ids \in SUBSET DOMAIN Accounts : DemoListUsersByIDs(ids) = ListUsersByIDs(ids)
CatalogueMirrored(k) ==
  /\ DemoListEntryTopics(k.topics) = ListEntryTopics(k.topics)
  /\ DemoListReleases(k.releases) = ListReleases(k.releases)
  /\ \A r \in DOMAIN k.releases :
       /\ DemoListReleasesByState(k.releases, k.releases[r].state)
            = ListReleasesByState(k.releases, k.releases[r].state)
       /\ DemoFindReleaseByVersionName(k.releases, k.releases[r].name)
            = FindReleaseByVersionName(k.releases, k.releases[r].name)
  /\ \A e \in DOMAIN entries, u \in DOMAIN Accounts \cup {Empty} :
       /\ DemoFindVote(k.votes, u, e) = FindVote(k.votes, u, e)
       /\ DemoVotedEntryIDs(k.votes, u, DOMAIN entries) = VotedEntryIDs(k.votes, u, DOMAIN entries)
       /\ DemoCountVotesForEntry(k.votes, e) = CountVotesForEntry(k.votes, e)
       /\ DemoListActivities(k.activities, e) = ListActivitiesByEntryID(k.activities, e)
(* Only the data matter, so the states in which nobody reads are enough. *)
DemoMirrorsTheDatabase ==
  reader = Idle => /\ EntriesMirrored /\ CountsMirrored /\ UsersMirrored
                   /\ \A k \in Catalogues : CatalogueMirrored(k)
===============================================================================
