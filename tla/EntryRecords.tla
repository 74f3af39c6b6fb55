---------------------------- MODULE EntryRecords ----------------------------
(***************************************************************************)
(* What handlers write of an entry outside votes, topics and relations:    *)
(* its submission, the fields that UpdateEntryHandler patches, its status  *)
(* after a merge, its release, its comments and its GitHub issue; and the  *)
(* rows of the timeline that go with them.  Every call of the database or  *)
(* of GitHub is a step; there is no transaction, and a request may die at  *)
(* any step.  At boot an instance backfills missing entry-created rows.    *)
(***************************************************************************)
EXTENDS Integers, FiniteSets

CONSTANTS Requests,  \* requests of the Portal and of the Console
          Boots,     \* boots of instances
          Entries,
          Releases,  \* ids of releases
          Names,     \* version names
          NoEntry, NoRelease, NoName

ASSUME ConstantsAssumption == /\ Requests \cap Boots = {}
                              /\ NoEntry \notin Entries
                              /\ NoRelease \notin Releases
                              /\ NoName \notin Names

\* The fields that have rows and their values, and in which order
\* UpdateEntryHandler takes those it patches.
Types == {"untyped", "bug"}
Statuses == {"new", "cancelled"}
Values == [internal |-> {"public", "internal"}, type |-> Types,
           status |-> Statuses, release |-> Releases \cup {NoRelease},
           issue |-> {"none", "linked"}]
Fields == DOMAIN Values
Rank == [none |-> 0, internal |-> 1, type |-> 2, status |-> 3, release |-> 4]
NewEntry == [internal |-> "public", type |-> "untyped", status |-> "new",
             release |-> NoRelease, issue |-> "none"]

VARIABLES stored,       \* the entries that there are
          field,        \* the fields of each entry
          shown,        \* what the last row of each field says
          created,      \* how many entry-created rows each entry has
          commentCount, \* Entry.CommentCount
          comments,     \* how many comments each entry has
          issues,       \* how many issues GitHub has of each entry
          name,         \* the releases collection: NoName without a record
          unused,       \* the ids no release has had yet
          act,          \* what each request and each boot is doing
          torn,         \* fields with a write whose row met another or got lost
          doubled,      \* entries that two were about to record as created
          dangling,     \* releases given to an entry while they were deleted
          crossed,      \* names that two writers held before either wrote
          uncounted,    \* entries with a comment that was never counted
          unheard       \* entries with an issue made in vain, or by two at once

entry == <<stored, field, commentCount>>
rows == <<shown, created>>
ghosts == <<torn, doubled, dangling, crossed, uncounted, unheard>>
releases == <<name, unused>>
vars == <<entry, rows, comments, issues, releases, act, ghosts>>

\* What a request or a boot remembers between its calls: the entry it is about
\* and the fields it read, the field it is at and the value it has for it, its
\* release and the name it has for that, the entries it listed and has to do.
Ended(pc) == [pc |-> pc, entry |-> NoEntry, seen |-> NewEntry, at |-> "none",
              value |-> "none", release |-> NoRelease, name |-> NoName,
              listed |-> {}, todo |-> {}]

\* The deployment has been in use: entries may exist, from before the timeline
\* did too, and releases.
Init == /\ stored \in {{}, Entries}
        /\ name \in {n \in [Releases -> Names \cup {NoName}] :
                       \A x, y \in Releases :
                          x # y => n[x] # n[y] \/ n[x] = NoName}
        /\ unused = {x \in Releases : name[x] = NoName}
        /\ \E t \in Types, x \in {y \in Releases : name[y] # NoName}
                                 \cup {NoRelease} :
              /\ stored = {} => t = "untyped" /\ x = NoRelease
              /\ field = [e \in Entries |->
                            [NewEntry EXCEPT !.type = t, !.release = x]]
        /\ shown = field
        /\ created \in [Entries -> 0..IF stored = {} THEN 0 ELSE 1]
        /\ comments = [e \in Entries |-> 0]
        /\ commentCount = comments
        /\ issues = comments
        /\ act = [a \in Requests \cup Boots |-> Ended("new")]
        /\ torn = {} /\ doubled = {} /\ dangling = {} /\ crossed = {}
        /\ uncounted = {} /\ unheard = {}

Exists(x) == x \in Releases /\ name[x] # NoName

-----------------------------------------------------------------------------
(* UpdateEntryHandler, and the fields that other handlers write.            *)

\* Mutated: an entry with a link is published again.
ReadEntryLinkedOrNot(r) ==
    /\ act[r].pc = "new"
    /\ \E e \in stored, pc \in {"patching", "merging", "commenting", "publishing"} :
          act' = [act EXCEPT ![r].pc = pc, ![r].entry = e,
                             ![r].seen = IF pc = "patching" THEN field[e] ELSE @]
    /\ UNCHANGED <<entry, rows, comments, issues, releases>>

\* A handler reads the entry it is about; only a bug without a link (or a feature
\* request) is published.
ReadEntry(r) ==
    /\ act[r].pc = "new"
    /\ \E e \in stored, pc \in {"patching", "merging", "commenting", "publishing"} :
          /\ pc = "publishing" => field[e].type = "bug" /\ field[e].issue = "none"
          /\ act' = [act EXCEPT ![r].pc = pc, ![r].entry = e,
                                ![r].seen = IF pc = "patching" THEN field[e] ELSE @]
    /\ UNCHANGED <<entry, rows, comments, issues, releases>>

\* A request writes a field; its row comes next.
Put(r, f, v, then) ==
    /\ field' = [field EXCEPT ![act[r].entry][f] = v]
    /\ act' = [act EXCEPT ![r].pc = then, ![r].at = f, ![r].value = v,
                          ![r].seen[f] = NewEntry[f], ![r].release = NoRelease]
    /\ UNCHANGED <<stored, commentCount, rows, comments, issues, releases>>

\* Of the fields that a request patches, each is written if it is not as read.
Patch(r) ==
    /\ act[r].pc = "patching"
    /\ \E f \in {"internal", "type", "status"} :
          /\ Rank[f] > Rank[act[r].at]
          /\ \E v \in Values[f] \ {act[r].seen[f]} : Put(r, f, v, "row")

\* resolveReleaseID: the release has to exist; none is always right.
ResolveRelease(r) ==
    /\ act[r].pc = "patching" /\ Rank[act[r].at] < Rank["release"]
    /\ \E x \in Releases \cup {NoRelease} :
          /\ Exists(x) \/ x = NoRelease
          /\ x # act[r].seen.release
          /\ act' = [act EXCEPT ![r].pc = "resolved", ![r].release = x]
    /\ UNCHANGED <<entry, rows, comments, issues, releases>>

PatchRelease(r) ==
    /\ act[r].pc = "resolved"
    /\ Put(r, "release", act[r].release, "row")

\* MergeEntryHandler, after the relation and the votes.
CancelSource(r) ==
    /\ act[r].pc = "merging"
    /\ Put(r, "status", "cancelled", "last row")

\* CreateIssue at GitHub; the answer is the link.
CreateIssue(r) ==
    /\ act[r].pc = "publishing"
    /\ issues' = [issues EXCEPT ![act[r].entry] = @ + 1]
    /\ act' = [act EXCEPT ![r].pc = "linking"]
    /\ UNCHANGED <<entry, rows, comments, releases>>

SetEntryGitHubIssue(r) ==
    /\ act[r].pc = "linking"
    /\ Put(r, "issue", "linked", "last row")

\* Mutated: a release that is taken away makes no row.
RecordAdminActivityOfSet(r) ==
    /\ act[r].pc \in {"row", "last row"}
    /\ shown' = [shown EXCEPT ![act[r].entry][act[r].at] =
                    IF act[r].value = NoRelease THEN @ ELSE act[r].value]
    /\ act' = [act EXCEPT ![r] = IF @.pc = "last row" THEN Ended("over")
                                 ELSE [@ EXCEPT !.pc = "patching", !.value = "none"]]
    /\ UNCHANGED <<entry, created, comments, issues, releases>>

\* The row of a written field; a merge's stands for the status it set.
RecordAdminActivity(r) ==
    /\ act[r].pc \in {"row", "last row"}
    /\ shown' = [shown EXCEPT ![act[r].entry][act[r].at] = act[r].value]
    /\ act' = [act EXCEPT ![r] = IF @.pc = "last row" THEN Ended("over")
                                 ELSE [@ EXCEPT !.pc = "patching", !.value = "none"]]
    /\ UNCHANGED <<entry, created, comments, issues, releases>>

-----------------------------------------------------------------------------
(* CreateCommentHandler.                                                   *)

InsertComment(r) ==
    /\ act[r].pc = "commenting"
    /\ comments' = [comments EXCEPT ![act[r].entry] = @ + 1]
    /\ act' = [act EXCEPT ![r].pc = "counting"]
    /\ UNCHANGED <<entry, rows, issues, releases>>

\* Mutated: of two increments at once, one is lost.
IncrementEntryCommentCountLost(r) ==
    /\ act[r].pc = "counting"
    /\ commentCount' =
          [commentCount EXCEPT ![act[r].entry] =
              IF {q \in Requests : act[q].pc = "counting"} = {r} THEN @ + 1 ELSE @]
    /\ act' = [act EXCEPT ![r] = Ended("over")]
    /\ UNCHANGED <<stored, field, rows, comments, issues, releases>>

IncrementEntryCommentCount(r) ==
    /\ act[r].pc = "counting"
    /\ commentCount' = [commentCount EXCEPT ![act[r].entry] = @ + 1]
    /\ act' = [act EXCEPT ![r] = Ended("over")]
    /\ UNCHANGED <<stored, field, rows, comments, issues, releases>>

-----------------------------------------------------------------------------
(* SubmitEntryHandler, and the backfill at boot.                           *)

\* Support is refused; the entry is public and open.
InsertEntry(r) ==
    /\ act[r].pc = "new"
    /\ \E e \in Entries \ stored, t \in Types :
          /\ stored' = stored \cup {e}
          /\ field' = [field EXCEPT ![e].type = t]
          /\ shown' = [shown EXCEPT ![e].type = t]
          /\ act' = [act EXCEPT ![r].pc = "created", ![r].todo = {e}]
    /\ UNCHANGED <<created, commentCount, comments, issues, releases>>

\* EnsureEntryCreatedActivities lists the entries, ...
ListEntries(b) ==
    /\ act[b].pc = "new"
    /\ act' = [act EXCEPT ![b].pc = "listed", ![b].listed = stored]
    /\ UNCHANGED <<entry, rows, comments, issues, releases>>

\* Mutated: the boot does not ask which rows there are.
FindMissingRowsUnasked(b) ==
    /\ act[b].pc = "listed"
    /\ act' = [act EXCEPT ![b].pc = "created", ![b].todo = act[b].listed]
    /\ UNCHANGED <<entry, rows, comments, issues, releases>>

\* ... then the entry-created rows, and inserts one for each entry without; the
\* first error ends it.
FindMissingRows(b) ==
    /\ act[b].pc = "listed"
    /\ act' = [act EXCEPT ![b].pc = "created",
                          ![b].todo = {e \in act[b].listed : created[e] = 0}]
    /\ UNCHANGED <<entry, rows, comments, issues, releases>>

\* An entry-created row, by a submission or by a boot.
InsertCreatedRow(a) ==
    /\ act[a].pc = "created"
    /\ \E e \in act[a].todo :
          /\ created' = [created EXCEPT ![e] = @ + 1]
          /\ act' = [act EXCEPT ![a].todo = @ \ {e}]
    /\ UNCHANGED <<entry, shown, comments, issues, releases>>

Done(a) ==
    /\ act[a].pc = "created" /\ act[a].todo = {}
    /\ act' = [act EXCEPT ![a].pc = "over"]
    /\ UNCHANGED <<entry, rows, comments, issues, releases>>

-----------------------------------------------------------------------------
(* The releases.                                                           *)

\* FindReleaseByVersionName asks for one record: two of a name are none.
Taken(n) == Cardinality({x \in Releases : name[x] = n}) = 1

\* CreateReleaseHandler looks the name up; a new release has an id of its own.
LookUpName(r) ==
    /\ act[r].pc = "new"
    /\ \E n \in Names :
          /\ ~Taken(n)
          /\ act' = [act EXCEPT ![r].pc = "inserting", ![r].name = n]
    /\ UNCHANGED <<entry, rows, comments, issues, releases>>

InsertRelease(r) ==
    /\ act[r].pc = "inserting"
    /\ \E x \in unused :
          /\ name' = [name EXCEPT ![x] = act[r].name]
          /\ unused' = unused \ {x}
    /\ act' = [act EXCEPT ![r] = Ended("over")]
    /\ UNCHANGED <<entry, rows, comments, issues>>

\* Mutated: a new name is not looked up.
LookUpNewNameNot(r) ==
    /\ act[r].pc = "new"
    /\ \E x \in Releases, n \in Names :
          /\ Exists(x)
          /\ act' = [act EXCEPT ![r].pc = "renaming", ![r].release = x, ![r].name = n]
    /\ UNCHANGED <<entry, rows, comments, issues, releases>>

\* UpdateReleaseHandler finds its release, and looks a new name up.
LookUpNewName(r) ==
    /\ act[r].pc = "new"
    /\ \E x \in Releases, n \in Names :
          /\ Exists(x)
          /\ name[x] = n \/ ~Taken(n)
          /\ act' = [act EXCEPT ![r].pc = "renaming", ![r].release = x, ![r].name = n]
    /\ UNCHANGED <<entry, rows, comments, issues, releases>>

\* UpdateReleaseFields of a release that is gone writes nothing.
UpdateReleaseFields(r) ==
    /\ act[r].pc = "renaming"
    /\ name' = [x \in Releases |-> IF x = act[r].release /\ Exists(x)
                                   THEN act[r].name ELSE name[x]]
    /\ act' = [act EXCEPT ![r] = Ended("over")]
    /\ UNCHANGED <<entry, rows, comments, issues, unused>>

FindRelease(r) ==
    /\ act[r].pc = "new"
    /\ \E x \in Releases :
          /\ Exists(x)
          /\ act' = [act EXCEPT ![r].pc = "sweeping", ![r].release = x]
    /\ UNCHANGED <<entry, rows, comments, issues, releases>>

\* RemoveReleaseIDFromAllEntries, one UpdateMany, makes no row.
RemoveReleaseIDFromAllEntries(r) ==
    /\ act[r].pc = "sweeping"
    /\ field' = [e \in Entries |->
                   [field[e] EXCEPT !.release = IF @ = act[r].release THEN NoRelease
                                                ELSE @]]
    /\ act' = [act EXCEPT ![r].pc = "deleting"]
    /\ UNCHANGED <<stored, commentCount, rows, comments, issues, releases>>

DeleteRelease(r) ==
    /\ act[r].pc = "deleting"
    /\ name' = [name EXCEPT ![act[r].release] = NoName]
    /\ act' = [act EXCEPT ![r] = Ended("over")]
    /\ UNCHANGED <<entry, rows, comments, issues, unused>>

-----------------------------------------------------------------------------
Handle(r) == \/ ReadEntry(r)
             \/ Patch(r) \/ ResolveRelease(r) \/ PatchRelease(r)
             \/ CancelSource(r)
             \/ CreateIssue(r) \/ SetEntryGitHubIssue(r)
             \/ RecordAdminActivity(r)
             \/ InsertComment(r) \/ IncrementEntryCommentCount(r)
             \/ InsertEntry(r) \/ InsertCreatedRow(r) \/ Done(r)
             \/ LookUpName(r) \/ InsertRelease(r)
             \/ LookUpNewName(r) \/ UpdateReleaseFields(r)
             \/ FindRelease(r) \/ RemoveReleaseIDFromAllEntries(r)
             \/ DeleteRelease(r)

Boot(b) == \/ ListEntries(b) \/ FindMissingRows(b)
           \/ InsertCreatedRow(b) \/ Done(b)

\* A request has done all it was asked to, is refused, or dies; so does a boot.
Stop(a) ==
    /\ act[a].pc \notin {"new", "over"}
    /\ act' = [act EXCEPT ![a] = Ended("over")]
    /\ UNCHANGED <<entry, rows, comments, issues, releases>>

\* The server does not sweep, and BulkUpdate reports no error.
SkipSweep(r) ==
    /\ act[r].pc = "sweeping"
    /\ act' = [act EXCEPT ![r].pc = "deleting"]
    /\ UNCHANGED <<entry, rows, comments, issues, releases>>

\* Who is between a write of a field and its row, before the row of an entry's
\* creation, between a look-up of a name and its write, between an issue's
\* creation and the link, between the sweep of a release and its deletion.
Owes(e, f) == {r \in Requests : /\ act[r].pc \in {"row", "last row"}
                                /\ act[r].entry = e /\ act[r].at = f}
Records(e) == {a \in Requests \cup Boots : e \in act[a].todo}
Holds(n) == {r \in Requests : act[r].name = n}
Publishes(e) == {r \in Requests : /\ act[r].pc \in {"publishing", "linking"}
                                  /\ act[r].entry = e}
Deletes(x) == \E r \in Requests : act[r].pc = "deleting" /\ act[r].release = x
Assigns(x) == \E r \in Requests : act[r].pc = "resolved" /\ act[r].release = x

\* What the ghosts note of a step: who meets, and what the one who stops leaves.
Observe(stops) ==
    /\ torn' = torn \cup {<<act[a].entry, act[a].at>> :
                             a \in {b \in stops : act[b].pc \in {"row", "last row"}}}
                    \cup {p \in Entries \X Fields :
                             Cardinality(Owes(p[1], p[2])') > 1}
    /\ doubled' = doubled \cup {e \in Entries : Cardinality(Records(e)') > 1}
    /\ dangling' = dangling
                   \cup {x \in Releases : Deletes(x)' /\ Assigns(x)'}
                   \cup {act[a].release : a \in {b \in stops :
                                             act[b].pc \in {"sweeping", "deleting"}}}
    /\ crossed' = crossed \cup {n \in Names : Cardinality(Holds(n)') > 1}
    /\ uncounted' = uncounted \cup {act[a].entry :
                                      a \in {b \in stops : act[b].pc = "counting"}}
    /\ unheard' = unheard \cup {act[a].entry :
                                  a \in {b \in stops : act[b].pc = "linking"}}
                          \cup {e \in Entries : Cardinality(Publishes(e)') > 1}

Next == \/ \E r \in Requests : Handle(r) /\ Observe({})
        \/ \E b \in Boots : Boot(b) /\ Observe({})
        \/ \E a \in Requests \cup Boots :
              Stop(a) /\ Observe(IF act[a].pc = "sweeping" THEN {} ELSE {a})
        \/ \E r \in Requests : SkipSweep(r) /\ Observe({r})

Spec == Init /\ [][Next]_vars

-----------------------------------------------------------------------------
(* Properties.                                                             *)

\* A field's value as a reader of the timeline sees it: a release that is gone
\* reads as none.
Reads(f, v) == IF f = "release" /\ ~Exists(v) THEN NoRelease ELSE v

\* Whoever replays the timeline of an entry knows its fields, whatever handlers
\* ran at once and on what they had read: but for a field whose write met another
\* write of it before its row, or lost its row, and for a release that was given
\* out while being deleted, or whose deletion stopped half-way.
TimelineReplays ==
    \A e \in stored, f \in Fields :
        Owes(e, f) = {} /\ <<e, f>> \notin torn =>
            \/ Reads(f, shown[e][f]) = field[e][f]
            \/ /\ f = "release"
               /\ {field[e].release, shown[e].release}
                  \cap (dangling \cup {x \in Releases : Deletes(x)}) # {}

\* A version name is one release's, and an entry's release exists: but for names
\* and releases that two requests held at once (delete_release.go:13-17, "the
\* reverse order would leave dangling release IDs").
ReleaseKeysHold ==
    /\ \A x, y \in Releases :
          x # y /\ Exists(x) /\ name[x] \notin crossed => name[x] # name[y]
    /\ \A e \in stored :
          \/ Exists(field[e].release)
          \/ field[e].release \in {NoRelease} \cup dangling

\* An entry is recorded as created at most once, unless a boot looks at it in the
\* middle of its submission or two boots at once; and by the end of a boot, each
\* entry that was there is, whether its submission died or it is older than the
\* timeline (activity.go:33-39).
CreatedOnce ==
    /\ \A e \in Entries \ doubled : created[e] <= 1
    /\ \A b \in Boots : act[b].pc = "over" =>
                           \A e \in act[b].listed : created[e] >= 1

\* An entry is published once, and what was published is linked; away from
\* requests that published it at once, and from answers that were lost.
PublishedOnce ==
    \A e \in Entries \ unheard :
        Publishes(e) = {} => issues[e] = IF field[e].issue = "linked" THEN 1 ELSE 0

\* Between the insertion of a comment and its count, and if that never comes, the
\* counter is behind, and only then; concurrent comments are all counted.
CommentsCounted ==
    \A e \in stored \ uncounted :
        commentCount[e] = comments[e]
                          - Cardinality({r \in Requests : act[r].pc = "counting"
                                                          /\ act[r].entry = e})
=============================================================================
