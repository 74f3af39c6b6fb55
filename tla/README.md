# A TLA+ model of Mixdive

Mixdive is a self-hosted feedback portal: a Go server, one MongoDB, two React
applications embedded in the binary. Any number of instances of the server run
against one database. This directory holds TLA+ models of the parts of the
server whose correctness depends on the order in which things happen, the TLC
configurations that check them on small instances, and proofs for TLAPS of what
matters most.

One fact about the code shapes every model. Although the README of the
repository asks for a replica set "for transactions", no handler uses one
(`merge_entry.go:23` says so of itself). A handler is a sequence of single
calls on the database; each call is atomic on one document, an aggregate or a
multi-document update may be taken as a snapshot, and between two calls of one
request anything can happen: calls of other requests, of other instances, of a
background goroutine, a refused write, the death of the process. So in every
module **a step is one database call** (with the code around it, which touches
nothing shared), and what a handler remembers between its calls is a record of
program counter and locals.

## 1. Inventory

Sizes: about 18,000 lines of Go outside `docs/`, of which `dataoperations/`,
`api/`, `pkg/` and `models/` are the logic; the rest is demo data, embedding
and plumbing.

| Component | Its state | Its operations | What is hard | What makes it correct |
|---|---|---|---|---|
| Voting (`api/*/add_vote.go`, `dataoperations/vote.go`) | `votes`, `Entry.VoteCount` | toggle: `FindVote`, `InsertVoteIfAbsent` or `DeleteVoteIfPresent`, `$inc` | two toggles of one user, a crash between the row and the counter, the unique index absent | one row per user and entry; the counter is the rows, but for increments owed |
| Merge (`console/merge_entry.go`) | votes, counters, status, relation and timeline of two entries | relate, migrate votes, recount, cancel, record | any prefix may be all that happens; toggles and passes meanwhile | voters follow, nobody loses a vote, the timeline tells no lie |
| Reconciliation (`vote_reconcile.go`, `main.go`, `indexes.go`) | `votes`, `votes_archive`, the unique index | archive then delete duplicates, repair counters, build the index | several instances at once, failing half-way; lists read before and used after | nothing destroyed; drift and duplicates go away in the end |
| Entry-type queue (`pkg/aianalyzer/worker.go`, `entry_type_analyzer.go`, `entry.go`) | `Entry.EntryType`, `EntryTypeAnalysis` | claim with TTL, call the model, write the outcome; an admin assigns a type | crash under a claim, calls longer than the TTL, AI switched off between claim and call | one instance per entry but for claims that ran out; nothing stranded but by a late failure; disabled is final; the queue drains |
| Topics (`topic_analyzer.go`, `entry_topic.go`, `entry.go`, `console/*topic*.go`) | topic records, four arrays or maps per entry, timeline rows | analyse, choose, create, rename, delete | four fields that mirror each other written by four calls; check-then-insert of titles; cascade of a deletion | flags, reasons, topics and timeline agree; titles unique; AI provenance genuine |
| Users (`setup.go`, `login*.go`, `console/update_user_*.go`, `update_my_*.go`, `user.go`, `session.go`) | `settings`, `users`, `sessions` | setup, three logins, own edits, roles, blocks | whole documents written from copies read earlier; count-then-write; first logins at the same time | one setup; an admin remains; roles were granted; one person is one user |
| Relations (`entry.go:618-960`, `relation_analyzer.go`, `console/*relation*.go`) | two arrays on each of two documents, reasons, analysis record, both timelines | analyse, link, retype, unlink | a link is four reads and four writes; the analyzer replaces what it read before a call of minutes; a retry over half-done work | both sides agree on the pair and its type; flags follow links; a retry mends |
| Entries and timeline (`update_entry.go`, `submit_entry.go`, `activity.go`) | entries, activities | submit, update field by field, backfill of created rows at boot | partial updates, rows from stale reads, a backfill that meets a submission | the timeline replays to the entry; an entry is recorded as created once |
| Releases and changelog (`release.go`, `console/*release*.go`) | releases, `Entry.ReleaseID` | create, rename, delete with cascade, assign | check-then-insert of names; deletion against assignment | one release per name; no entry names a deleted release |
| Comments (`create_comment.go`, `comment.go`) | comments, `Entry.CommentCount` | create, hide | insert then `$inc`, never reconciled | the counter is the comments, but for those on their way |
| GitHub publishing (`create_github_issue.go`) | `Entry.GitHubIssue`, an issue at GitHub | check, summarize, create, store | external effect and local record are two steps | an entry is published once |
| Settings (`update_settings.go`, `update_ai_settings.go`, `integrations.go`, `main.go`) | one document; a snapshot in each worker, a storage holder in each instance | patch field by field in the order of a Go map, refresh, reload, migrate and seed at boot | patches checked against what was read; renewals out of order; instances that did not serve the save | what is switched on has what it needs; the instance that served the last save follows it |
| Slack (`slack_integration.go`, `slack_notify.go`, `pkg/slack`) | settings group, token at Slack | save app, authorise, disconnect and revoke, notify and stamp the error | external effects, a notice that outlives the connection | webhook, token and error belong to one connection |
| Uploads (`upload_file.go`, `get_file.go`, `pkg/storage`) | `files`, blobs in a backend | put, record, undo, open | a backend swapped between put and undo, a crash between them | a record has its bytes and bytes have their record |
| Reads (`list_*.go`, `get_*.go`, `dashboard.go`, `find_similar.go`) | none | filters, orders, pages, counts | several queries of one answer, pages of one list, with writes in between | the Portal shows the public only; walking the pages misses nothing; the dashboard adds up |
| Demo store (`demo/repo.go`) | slices in memory | every query once more, as loops | two implementations of one contract | the same answers |
| Plumbing, web, generated docs | none | | | see section 6 |

Interactions. Portal and Console handlers share collections and nothing else;
they never call each other. The workers (three analyzers per instance and the
reconciliation ticker, started in `main.go`) are goroutines that poll the same
collections. A handler reaches a worker only through `Refresh` (AI settings) and
through the entries it writes: a vote or a comment bumps `updatedat`, which puts
an entry back into the entry-type queue. `MergeEntryHandler` is the one handler
that crosses components: it writes votes, counters, relations, status and
timeline. Deleting a topic or a release sweeps over entries.

`PROJECT.json` lists every component with its sources and status, and under
"hazards" the places where a test would hardly reach, each with its line and
with the properties that watch it, or the reason why none does.

## 2. Modules

| Module | Models | Extends |
|---|---|---|
| `VoteLedger` | abstract: who votes for what | |
| `Votes` | both toggle handlers, merge, reconciliation, index build | refines `VoteLedger` |
| `VotesProofs` | theorems about `Votes`, and its refinement of `VoteLedger` | `Votes` |
| `EntryTypeAnalysis` | the entry-type queue, and the admins' changes of a type | |
| `EntryTypeProofs` | theorems about `EntryTypeAnalysis` | `EntryTypeAnalysis` |
| `EntryTopics` | topic queue, topic choice, topic administration | |
| `EntryTopicsProofs` | theorems about `EntryTopics` | `EntryTopics` |
| `Accounts` | setup, logins, sessions, profile, password, roles, blocks | |
| `AccountsProofs` | theorems about `Accounts` | `Accounts` |
| `Relations` | links between entries: the analyzer and the Console requests | |
| `RelationsProofs` | theorems about `Relations` | `Relations` |
| `EntryRecords` | submission, patches, timeline rows, releases, comments, GitHub issues, backfill at boot | |
| `EntryRecordsProofs` | theorems about `EntryRecords` | `EntryRecords` |
| `Settings` | the settings document, snapshots, storage holder, Slack, uploads, boots | |
| `SettingsProofs` | theorems about `Settings` | `Settings` |
| `Reads` | queries and the readers that make several of them, between writes | |
| `DemoStore` | the in-memory store's queries, mirroring those of `Reads` | `Reads` |
| `ReadsProofs` | theorems about `Reads` and about the mirror | `DemoStore` |
| `MC*` | constants of the TLC runs | the module named |

Definitions that begin with "Mutated:" in their comment are deliberate mistakes:
no specification uses them. Each is a plausible slip in one action; put in the
place of that action it makes TLC violate the property it is paired with in
`PROJECT.json`. They show that each property can fail.

### Votes

`votes` is a set of rows `[id, user, entry]`. The id stands for
`(createdat, _id)`, which orders rows in `pickSurvivingVote`; a request's row
carries the request's number, and since `Init` lets any request be of any user
on any entry, and since they run in any order, ids and time are unrelated, as
they are for instances with clocks of their own. `archive`, `index` and `count`
are `votes_archive`, the partial unique index and `Entry.VoteCount`;
`cancelled`, `related` and `timeline` are the three other writes of a merge.

*Toggle.* `FindVote` only picks the direction. The upsert of
`InsertVoteIfAbsent` is two steps, as on the server: look, then insert, which
the unique index, if there is one, may refuse (the code takes E11000 for
"already voted"). `DeleteVoteIfPresent` is one `DeleteMany` whose count decides
whether to decrement. *Merge.* One step per call, `Relate` to `RecordMerge`;
the retarget of a row may be refused by the index, which ends the merge.
*Reconciliation.* `ScanDuplicates`, then copy and delete for one group at a
time, then tallies, counters, repairs; a boot continues with `BuildIndex`, which
Mongo refuses over duplicates, and the instance runs on without. `main` does all
of this, and starts the hourly ticker, only if it can read the settings and finds
the setup completed (`main.go:80`, `120`, `129`). `Booted` is therefore one of two
states: an instance with a pass to run, or one that is `off` for as long as it
lives, which is also what an instance is that is set up while it runs. `Init` and
`Restart` pick either.

`VoteLedger` is the promise to users: each request changes at most the vote of
its own user on its own entry, once. The mapping forgets row identity, the
counters, the archive and the index. `ImplementsLedger` is checked with
toggles, passes and boots; merges move votes, which the ledger does not have, so
runs with merges check `VotersKeepAVote` and `MergedVotersFollow` instead.

### EntryTypeAnalysis

Dates are abstracted to what the filter of a claim compares: `claim` is none,
live or expired (older than the TTL), `stale` is "`AnalyzedAt` before
`UpdatedAt`". A worker claims, looks at its snapshot once more (`Process`),
calls, and writes an outcome; `FailEntryTypeAnalysis` is two steps (status,
claim; the error message between them is left out). The API key is folded into
`enabled`; a `Refresh` may switch an instance's snapshot at any time.
The TTL is five minutes (`worker.go:22`). Nothing gives a call to the model a
deadline that is shorter (`processOne`, `worker.go:203-217`, sets none, and the
client of the model has its own timeout and retries), so `Expire` may age any
claim, under a running call too; this also stands for instances whose clocks
differ. Two ghosts, which no action reads, say what that leads to: `overruns`
counts the claims of each entry that ran out while somebody was at it, and `late`
holds the entries that a call marked failed when another call had answered since
they were last written. `MaxOverruns` bounds the first in TLC.

### EntryTopics

Topics are ids with a title (titles equal up to case are one title). An entry
has `topicIDs`, `aiTopicIDs`, the keys of its reasons, and `replay`, the topics
that its timeline shows: added and not removed since. Each is written by a call
of its own. Three ghosts, which no action reads: `applied` (what the analyzer
ever gave an entry), `contested` (entries on which two writers met, or on which
one died half-way), `crossed` (titles two writers looked up before either
wrote). They let a property say exactly *where* the code keeps its promise: the
lockstep properties hold of every entry that is not contested, through any
sequence of operations, and genuineness of the AI flag holds of all. As in the
entry-type queue, `Expire` may age a claim under a call that is still running.

### Accounts

A user is roles, standing, accounts and a password. `Keys` is `RebuildKeys`:
the ids at providers and the known addresses. `FindUserByKey` goes through
`QueryOne`, which is nil for two matches: this one line makes duplicate users
stay. A login with Google or a custom token looks for the provider's id, then
for a verified address, then creates; roles, blocks, profile, password and
logins all write the **whole document** from a copy (`UpdateUser`). `stale` is
the set of requests that wrote over something that had changed since they read
or counted it; `crossed` is the set of persons that were signing in or up twice
at a time. A person's ids and address never change; passwords given are right
and tokens valid (verification is not a matter of order); a session is the pair
of the request that made it and its user; a new user's uuid is its request.

### Relations

An array is a function from peers to a type or "none"; an entry has two of them
(`relations`, `aiRelations`), and a link is on both of its entries. Every side of
a link that is dropped or made is a read of a document and two writes (both
arrays, in the code's order), the entry's own side first
(`removeRelationFromEntry`, `upsertRelationOnEntry`). Then the reasons are
unset and the rows of both timelines inserted. The analyzer claims, lists the
candidates, calls, reads what there is (`ReadExisting`) and replaces it
(`SetAIRelations`); a Console request reads, edits the sides and records.
Unsetting a reason may fail alone, and is passed over in the code. Ghosts: `met`
(entries that two writers worked on at once), `left` (entries that one failed or
died on), `overtaken` (entries that an admin linked during a call). The
properties state what holds away from those; the run's constraint stops where
two writers have met, since nothing is claimed of what follows.

### EntryRecords

One entry's fields that have rows (internal, type, status, release, issue) are
`field`; `shown` is the last row of each, so that replaying the timeline is
`shown`. `UpdateEntryHandler` is: read the entry, then for each patched field in
the code's order resolve, compare with **what was read**, write, insert the row.
A merge's cancellation, a submission, a comment with its `$inc`, an issue at
GitHub (which may be opened without the answer reaching us) with its link,
creation, renaming and deletion of releases are the other requests; all may stop
at any step (`Stop`), and `RemoveReleaseIDFromAllEntries` may skip entries that
the server refuses to write (`SkipSweep`). `Boot` is
`EnsureEntryCreatedActivities`: list entries, list rows, insert what is missing.
Each ghost is one kind of meeting the code does not guard against: `torn`,
`doubled`, `dangling`, `crossed`, `uncounted`, `unheard`.

### Settings

The document is a function from `<<group, field>>` to a few values. A handler
reads it, checks what the patch **would make of what it read** (`Valid`), and
`UpdateSettings` writes one field at a time, in any order, as a Go map is
ranged over. The instance that served the request then refreshes its AI snapshot
and reloads its holder, each a read and an assignment, so that two renewals may
finish in the other order; `Reload` builds the backend outside the lock. A boot
runs the migration of flat templates, which lifts nothing (section 4), seeds
defaults where there are no templates by language, and makes its copies; building
the backend may fail for a bucket (credentials) and for a directory (`MkdirAll`). `Callback`, `ExchangeCode` and `DisconnectSlack` talk to Slack:
`tokens` are those in force there. An upload passes the gate on the document,
puts the blob through its instance's holder, inserts the record, and undoes the
blob if that fails. Three outcomes of a put end the upload without an undo: a
holder that accepts nothing, a failure that stores nothing, and a bucket that
commits the object and reports an error on `Close` (`gcs.go:48`); the last puts the
upload into `stray`. Ghosts: `crossed`, `torn`, `behind`, `stray`.

### Reads and DemoStore

`Reads` translates the filters, orders, skip and limit of the listings, the
console's user list (sorted and cut in memory), and the counts of the dashboard
as operators over functions from ids to documents. On top of them each handler
that makes more than one query is a reader with a step per query, and every
write that it could notice is an action that may come in between (`Submit`,
`Flip`, `Close`, `Vote`, `FlipComment`). `since` records what was public since
the reader asked, the list as it was then, and the kinds of writes since: the
properties compare the answer with these (`Moves` and `MovesInto` are the kinds of
writes that can take an entry out of a listing, or into it). A sorted answer is
`InOrder`: the sequence of a set's elements in which each is ahead of those it is
to precede; `StableSort` is Go's `sort.SliceStable`.

`DemoStore` translates the demo's loops over slices, with its own filter, stable
sorts and pagination. What a loop keeps of a slice is `Picked` (in the order of the
slice); a loop that counts is a function over the rounds, of which `Bumped` and
`Tallied` are one round. `DemoMirrorsTheDatabase` compares every query of the two:
over every store of the run, every pair of filter clauses and every page in TLC,
over any data in the proof.

## 3. Runs

| Run | Asks | Bounds |
|---|---|---|
| `Votes_reconcile` | Two instances, each booted with a janitor or without, over a flood of duplicates while toggles run without the index and die: the ledger, nothing destroyed; and, where an instance with a janitor lasts, counters and duplicates repaired in the end | 2 instances, 2 requests, 2 users, 1 entry, 3 legacy rows, 1 fault |
| `Votes_merge` | One merge among toggles, failing anywhere: voters follow, nobody loses a vote; before it begins, exact accounting of the counters | 2 requests, 2 users, 2 entries, 4 legacy rows, 2 of them anonymous |
| `Votes_pass_meets_merge` | The disagreement of section 4 | 1 merge, 1 instance, no request |
| `EntryType_queue` | The queue under crashes, claims that run out under a call, switched-off AI and an admin: overlaps no more than overruns, nothing stranded but by a late failure, disabled final, drains | 3 instances, 1 entry, 1 update, 1 bump, 1 overrun, 2 faults |
| `EntryType_overrun` | The disagreement of section 4 | 2 instances, 1 entry, 1 update, 1 bump, 1 overrun, 2 faults |
| `Topics_edits` | Any two Console requests with an analyzer | 1 instance, 2 requests, 1 entry, 2 topics, 2 titles, 1 fault |
| `Topics_drains` | Liveness of the topic queue | 2 instances, 1 request, 1 entry, 1 topic, 1 title, 1 fault |
| `Accounts_team` | Any three requests, from a fresh deployment or a team of two admins | 3 requests, 2 persons, 2 veteran users |
| `Relations_links` | An analyzer and an admin over three entries, one failure or crash: links mutual, flags and timelines in step, retries mend | 1 analyzer, 2 claims, 1 request, 3 entries, 1 fault |
| `Records_edits` | Any two requests of any kind and a boot, each dying anywhere | 2 requests, 1 boot, 1 entry, 2 releases, 2 names |
| `Settings_saves` | Any two saves, authorisations, notices, uploads or boots on two instances | 2 instances, 2 requests, 12 patches, 2 deployments, 2 faults |
| `Reads_pages` | Every reader with writes between its queries; the demo's mirror | 3 entries, 1 comment, 3 users, 2 writes, 6 walks with pages of one entry (limits left out, in range and out of range) |

Why the bounds are enough. Every race the code has is between two writers of one
document, or of a document and a counter; the bounds hold two of each writer
and one more where a third has a part (a row to survive, an instance to take over
a claim, a login that reads what an edit and an admin wrote). Two entries are
needed only where something crosses entries (merge). The entry-type queue has a
third instance instead: one whose claim runs out, one that takes over, and one that
gets in when the first clears the claim of the second. One fault at a time suffices for "a crash between any two
steps"; the entry-type queue gets two because its failure handling is itself two
writes, and a late failure matters only if a crash follows it. `Votes_reconcile` starts from
exact counters: the drift that it repairs, too high and too low, comes from toggles
that die before their `$inc` and from tallies that toggles outran. Requests and merges need no fault budget: they may die at any step,
without a count. `Relations` needs a third entry for a link that is kept while
another is replaced, and a second claim for the retry. `Settings` starts from an
old deployment that has everything off and from one that uses everything; its
patches switch each group on with and without what it needs. Pages of one entry
out of three make two page boundaries, across which two writes can move
entries both ways. `MaxBumps` caps the mutations that reset an analysis, which
would otherwise let a liveness run toggle for ever; `IdsLeft` keeps topics within
`TopicIDs`; `RoleSets` are editors and admins: users without a role come from
the Portal's logins, and `{"admin","editor"}` differs from `{"admin"}` in no
guard. Runs with CHECK_DEADLOCK FALSE are those whose requests
all end; there, stopping is right. Symmetry is used only in runs without
liveness properties, over constants that are not ordered (request numbers of
`Votes` are ids, and are not permuted).

### Fairness

- `Votes!FairSpec`: weak fairness of `Janitor(j)`, the next call of a goroutine on
  a ticker. An instance that is `off` has no such step, so nothing is assumed of it,
  nor that anybody ever restarts it. `CountersEventuallyExact` and
  `DuplicatesEventuallyArchived` are therefore implications: `JanitorLasts`, that
  from some time on an instance with a janitor is there, is a hypothesis, as a
  deployment of which every boot fails to read its settings has no pass at all.
  Toggles and merges have no fairness: a request may stop for ever at any step, and
  so does a crashed one.
- `EntryTypeAnalysis!FairSpec`, `EntryTopics!FairSpec`: weak fairness of each
  worker (ticker; calls of the database have a deadline in `mongodb.go`, calls of
  the model are taken to return, with an answer or an error, however late) and of `Expire` (time passes). None of requests, `Refresh` or faults. Since
  faults are bounded, this does not say that a call which fails for ever is ever
  done with. `QueueDrains` assumes that AI is on at all instances from some time
  on, without which nothing need be analysed; for the entry types it leaves out the
  entries of `late`.
- `Accounts`, `Relations`, `EntryRecords`, `Settings` and `Reads` have no
  fairness and no liveness property: nothing in them is promised to happen but
  by a request. The relation analyzer's queue is drained as the topic analyzer's
  is, and is not checked once more.

## 4. Where code and words disagree

Two runs end in a counterexample to a sentence of the code's own.

**A pass and a merge lose a vote** (`Votes_pass_meets_merge`). The pass lists a
user's surplus row by `_id`; a merge retargets that row to the destination and
drops the kept row as a duplicate; the pass deletes the retargeted one.
`vote_reconcile.go:61-63` says no user loses their vote.

**An entry pending for ever** (`EntryType_overrun`). A claim runs out under a slow
call and a second instance takes the entry. The first answers, which stamps
`AnalyzedAt`; the second then fails, which sets `failed` and clears the claim, and
leaves the date. A third claim sets `pending`, and its instance dies. The filter
takes a pending entry only by its dates, and these are in order: however old the
claim gets, nobody claims the entry until somebody edits it. `entry.go:428-431` says
that the TTL recovers from crashes and that no sweeper is needed.
`StrandedOnlyByLateFailure` says that nothing else strands an entry, and
`OverlapsBounded` what is left of `worker.go:46-50`, that two instances "will never
process the same entry".

Met while modelling, and not runs of their own. The first two were run to a
counterexample before they were stated as exceptions of the properties that
hold:

- **The analyzer overrides an admin** who chose topics during its call, against
  `entry.go:453`, "the AI never overrides that choice".
- **No admin left.** Two admins demote or block each other; each count sees two.
  `user.go:60-61` names the danger that the guard is for. `AdminRemains` leaves
  out writes that went over a change.
- **Flat templates are never lifted.** `settings.go:105` asserts that the group read
  from the database is a `bson.M`. The pinned driver (`go.mod:15`, v2.5.0) decodes a
  document inside a `bson.M` as a `bson.D` unless it is told otherwise, and the
  client's options (`mongodb.go:86-91`) do not, so the assertion gives nil and the
  migration returns with nothing done. `EnsureFeedbackDefaults` then seeds the
  bundled templates over a deployment that has a flat map, against
  `main.go:85-86` and `settings.go:93-95`, which say that the flat map blocks the
  seeding. `Migrate` does what the code does; the rest of the function is never
  reached.
- **A failed upload may leave its object.** `gcs.go:48` returns the error of `Close`,
  which may come after the object was committed; `upload_file.go:163-166` answers
  with an error and undoes nothing. Only the failure of the record is undone.
- **No janitor until another boot.** An instance whose first read of the settings
  fails, or which is set up while it runs, has neither pass nor index nor ticker
  (`main.go:80`, `120`, `129`), though `main.go:126` says that the counters are kept
  honest "while the process runs, not just at boot".
- Two merges of one pair in opposite directions can each drop the vote the other
  relied on; `VotersKeepAVote` is therefore checked with one merge, and proved of merges
  that have no entry in common.
- The merge counts rows and writes the count, so a toggle in between leaves
  drift, which `merge_entry.go:30-31` says cannot happen. Likewise the pass
  itself: it writes tallies that toggles may have outrun. Both last until the
  next pass; `CountersEventuallyExact` is about that.
- The index is built at boot only. A deployment that got its duplicates while
  running keeps inserting them until a boot after a pass. While they exist
  `FindVote` returns nil for two rows, and the user cannot take the vote back.
- The outcome of an analysis is written by id: a call in flight when an admin
  sets a type overwrites `disabled` with `done`. `DisabledIsFinal` and `OneShot`
  are stated of entries that nobody is processing.
- `SetEntryTopicsFromAnalyzer` failing between its two writes leaves an AI topic
  without its flag; dying after them leaves the entry `pending` with topics, a
  state no filter matches again and no page distinguishes.
- Two writers of one entry's relations lose each other's: both arrays are read whole
  and written whole, and the analyzer replaces what an admin linked during its call.
- A request that dies between a field and its row leaves the field changed and the
  timeline silent; two at a time write rows that do not follow each other.
- Titles of topics are checked and then inserted: two writers at a time make two
  topics of one title, and from then on no lookup finds either.
- A topic deleted while an entry is being given it leaves a dangling id.
  `BulkUpdate` (`mongodb.go:321-351`) drops write errors, so the same happens
  when the server refuses the sweep.
- `IncrementEntryCommentCount` (`entry.go:249-251`), `models/comment.go:12-13` and
  `comment.go:48-50` speak of a startup reconciliation of comment counters;
  there is none, and a comment that dies before its increment stays uncounted.
- `RemoveEntryRelation` stamps neither side as decided, so the analyzer may link
  again what an admin cleared; `models/entry.go:302` says it "never re-runs, even
  if an admin later clears every relation".
- A deletion of a release that fails after its sweep leaves the release with no
  entries, which `delete_release.go:13-17` counts on not happening.
- Two publishes at once open two issues, and the second link overwrites the
  first; so does a retry after an answer from GitHub that got lost.
- An entry's internal flag turned between the read and the Slack notice lets a
  comment on an internal entry reach Slack.
- Two boots, or a boot in the middle of a submission, can record an entry as
  created twice.
- An instance that did not serve a save of the AI or the upload settings keeps
  its old snapshot and holder until it restarts (`update_ai_settings.go:26-28`
  says "no server restart required", `main.go` "Multi-instance safe"). A failing
  read in `Refresh` empties the snapshot. A boot whose first `GetSettings` fails
  starts with uploads disabled.
- Two saves of the upload settings build their backends outside the lock
  (`storage.go:96`), and the older one may be swapped in last.
- Names of releases are checked and then inserted or renamed to: two requests at
  once make two releases of a name. An entry that is given a release while it is
  being deleted keeps its id.
- Overlapping patches can leave AI enabled without a key, which each of them was
  checked not to do.
- Authorising Slack again leaves the old token in force there; a notice under
  way may stamp its error after a disconnect.
- `router.go` says of the changelog "Only completed releases surface here";
  `list_releases.go:38` lists planned ones too.
- An entry submitted between two queries makes the dashboard's buckets sum to more
  than its total, against the comment in `dashboard.go:129`, and a difference of
  two counts can be negative.
- Listings that are paged by skip and limit pass over entries when one is hidden,
  closed or voted on between two pages; `WalksMissNothing` states exactly when.
- The demo answers differently where its data never lead: topics with one order,
  titles that differ in case, search with blanks or pattern characters, two
  matches of a key (`nil` in the database, the first in the demo), users searched
  by a Google name.
- Two first logins of one person make two users with one key; then no lookup
  finds either and every later login makes another.
- Any whole-document write may undo a role or a block decided meanwhile; a
  login that overlaps a demotion restores the role. `RolesAreGranted` says no
  more than this goes wrong: only roles once given to this user come back.
- A setup that dies between settings and admin leaves a deployment that nobody
  can sign in to; `AdminRemains` starts from the first admin.
- `update_user_block.go:12-14` says a blocked user cannot hold a
  session, but the handler ends none and `ResolveSession` does not look at
  `IsBlocked`: a blocked user goes on until the session expires. `EditOwn` and
  `Authorize` have no guard on it for that reason.

## 5. Proofs

Eight modules of theorems are checked by TLAPS, for all values of the constants
that satisfy the modules' `ConstantsAssumption` (and `CataloguesAssumption` in the
demo): any numbers of users, entries,
requests, instances and faults, where a run has two or three. Where the runs
have constraints or bounds on what may be created, the theorems have none. A
theorem's last column says what it assumes beyond that; each such hypothesis
holds in the runs that check the property.

| Theorem | Says | Assumes |
|---|---|---|
| **`VotesProofs`** | | |
| `VotesTyped` | `Spec => []TypeOK` | nothing more |
| `TogglesAccounted` | until a merge or a pass begins, counter plus owed casts less owed retractions is the number of rows | `StartsExact`: an index from the start and exact counters (merges and passes overwrite counters by design) |
| `VotingIsALedger` | the refinement: toggles, passes, boots and faults are behaviours of `VoteLedger` | no merges (the ledger has no votes that move) |
| `RemovedRowsArchived` | the action property `NothingDestroyed` | no merges |
| `VotersKeepTheirVotes` | `VotersKeepAVote` | `StartsIndexed`, and `MergesApart`: no entry is in two merges |
| `MergesKeepVoters` | `MergedVotersFollow` | the same |
| **`EntryTypeProofs`** | | |
| `QueueTyped` | `Spec => []TypeOK` | nothing more |
| `OverlapsArePaidFor` | `OverlapsBounded`: at most one instance at an entry more than claims of it ran out under a call | nothing more, on the length of calls either |
| `OnlyLateFailuresStrand` | `StrandedOnlyByLateFailure` | nothing more, on the length of calls either |
| `DisabledForGood` | the action property `DisabledIsFinal` | nothing more |
| **`EntryTopicsProofs`** | | |
| `TopicsAreTyped` | `Spec => []TypeOK` | nothing more |
| `OneShotOnly` | the action property `OneShot`: what was decided and is not being processed stays decided | nothing more |
| `OnlyGenuineFlags` | `FlagsAreGenuine`, of every entry, contested or not | nothing more |
| `UniqueTitles` | `TitlesUnique` | nothing more |
| `FlagsStayInLockstep` | `FlagsInLockstep`, of entries that are not contested | nothing more |
| `DeletionsSweep` | `NothingDangles`, of the same | nothing more |
| `TimelineTells` | `TimelineReplays`, of the same | nothing more |
| **`AccountsProofs`** | | |
| `AccountsTyped` | `Spec => []TypeOK` | nothing more |
| `OneSetup` | `SetupOnce` | nothing more |
| `OnlyGrantedRoles` | `RolesAreGranted` | nothing more |
| `AnAdminRemains` | `AdminRemains` | `Administered`: a deployment with users has an active admin |
| `OneUserEach` | `OnePersonOneUser` | `PersonsApart`: users there before are one person each, no two the same |
| **`RelationsProofs`** | | |
| `TypesHold` | `Spec => []TypeOK` | nothing more |
| `LinksStayMutual` | `LinksAreMutual` | nothing more |
| `FlagsKeepStep` | `FlagsInLockstep` | nothing more |
| `SidesStayAgreed` | `SidesAgree` | nothing more |
| `AnalysisMends` | the action property `RetryMends` | nothing more |
| **`EntryRecordsProofs`** | | |
| `RecordsTyped` | `Spec => []TypeInv` | nothing more |
| `CommentsAllCounted` | `CommentsCounted` | nothing more |
| `PublishingOnce` | `PublishedOnce` | nothing more |
| `CreationRecordedOnce` | `CreatedOnce` | nothing more |
| `ReleasesHold` | `ReleaseKeysHold` | nothing more |
| `TimelineKept` | `TimelineReplays` | nothing more |
| **`SettingsProofs`** | | |
| `Typed` | `Spec => []TypeInv` | nothing more |
| `SettingsHoldTogether` | `SettingsHold` | `DeploymentsAreWhole`: the settings that are there hold together |
| `InstancesFollowTheDocument` | `InstancesFollow` | nothing more |
| `FilesAndBlobsMatch` | `FilesMatchBlobs` | nothing more |
| **`ReadsProofs`** | | |
| `ReadsTyped` | `Spec => []TypeInv` | nothing more |
| `ThePortalShowsThePublic` | `PortalShowsThePublic` | nothing more |
| `WalksServeAll` | `WalksMissNothing`, for any filter, limit and number of writes | nothing more |
| `TheDashboardAddsUp` | `DashboardAddsUp` | nothing more |
| `TheDemoMirrors` | `DemoMirrorsTheDatabase`, over any entries, comments, accounts and catalogues | nothing more |

None of the properties is inductive: each speaks of what is stored while nobody
is at it, and a step of a handler relies on what the handler remembers. In every
module the inductive invariant therefore adds a typed invariant with *fits*
clauses (which locals a program counter comes with, and that finitely many
actors have begun, so that what is counted is a number), and for each property
what a handler may rely on between its calls.

*Votes.* `TypeInv` adds to `TypeOK` that `votes` is finite. `IndexKeepsVotesUnique`, a lemma and no
result of its own, since it is what Mongo's index promises, is inductive
beside it: an action either removes rows, or inserts one row whose pair has
none (the guard of the upsert under the index), or moves rows subject to the
index, or builds the index over unique rows. Accounting needs `CounterInv` (type,
index, uniqueness, finiteness of what is owed, the equation) and `EffectKnown`
(a request that has still to adjust the counter did write a row). Then
each toggle step moves one side of the equation by what it moves the other:
`InsertAccounted`, `DeleteAccounted`, `AdjustAccounted`. That a delete removes
exactly one row is where uniqueness is used. `ToggleInv` claims all of this only
while `OnlyToggled`; `StillToggling` shows that no step goes back there, since a
merge, a pass or a fault that has been cannot be undone, so a step that ends
there was a toggle's.

*The ledger.* A pass deletes from lists that it read several steps before. The
refinement holds because of `PassInv`: a row is only ever listed while an
earlier row of its pair is there (`Before`), rows of a toggle that are issued later
are never listed, and what is about to be deleted is in the archive. When a
delete removes rows, the earliest row of each pair is not listed (`Smallest`), so
the user's vote, which is all the ledger sees, stands: the step stutters. The
other cases of the simulation are one lemma per kind of step.

*Merges.* `VotersKeepAVote` needs `VoterInv`: rows are those the start or a
request made (`Known`), rows have distinct ids, no pass has a list (over an index
from the start there are no duplicates to list), and `MergeInv` of what
each merge remembers. `MergesApart` is needed: with two merges of one pair, in
one direction or both, TLC finds the vote lost, and section 4 lists it.

*Entry-type queue.* A claim names no owner, so that whoever was overtaken clears the
claim of the one that overtook it, and an invariant that ties a claim to its worker
breaks. What is inductive is a balance (`Balanced`): the instances at an entry are at
most `Allowed`, its overruns, and one more if its claim is live. A claim is taken
only when none is live, and makes one live (`ClaimBalances`); a claim that runs out at
work trades its liveness for an overrun, and one that runs out unattended has nobody to
account for (`ExpiryBalances`); whoever clears a claim leaves (`LeavingBalances`).
`OnlyLateFailuresStrand` rests on `AwaitedIsStale`: an entry whose status is unset,
pending or failed was written after its last analysis, unless it is in `late`, so
that the filter matches it by its dates. `DisabledForGood` needs only `TypeOK`.

*Topics.* The AI flag is genuine because the flags and what analyzers and choices
carry between their writes stay within `applied` (`AppliedInv`), which only grows.
A title is unique because, until two meet on it, one writer at most has looked it
up, and what that writer found is still so (`TitlesInv`). The three lockstep
properties have one invariant, `EntriesInv`: an entry that is not contested has at
most one writer; without one it is `Settled`, which is what the three properties
say; with one, it is as far from settled as that writer's program counter says,
for an analyzer (`Analyzed`), a choice (`Chosen`) and the sweep of a deletion
(`Swept`, by what of the sweep is still to come). `IdsInv` adds that an id no
topic has had is nowhere.

*Accounts.* `SetupInv`: whoever got past the settings is one, and found no users.
`GrantInv`: the roles in every remembered document were granted before it was read,
so writing it back grants nothing, however old the copy. `AdminInv`: a write that
is not stale leaves an admin one, or the guard counted a second. `PersonInv`
follows one person through the two lookups of a login: until two of their
requests meet, a lookup that found nobody is still right when the user is
inserted.

*Relations.* `IInv == TypeInv /\ OneWriter /\ Holds`. `OneWriter`: an entry on
which no two met is within the reach of one actor at most, where reach is the
actor's entry and the peers whose sides it has still to write, so a step of another
leaves all it relies on alone. `Holds` says, of each actor, what is
already written and what is still to come (`TaskHolds`: the side at hand, the
entry's array, the links dropped and made, the rows); of each entry, that a flag
without its link and a reason without its flag are about to go (`FlagsHold`); of
each pair no actor is at, that its sides agree, or why not yet (`PairHolds`). The
steps fall into kinds (begins, proceeds, gives up, ends, touches no array) and
each kind is proved once. `RetryMends` comes from the same invariant at the step
`Finish`: whatever was left before, the links the analyzer wanted are on both
sides.

*Records.* Each property has an invariant that excludes exactly its ghost: `CountInv`
(behind by those between insertion and `$inc`), `PublishInv`, `CreatedInv` (who
is to record an entry is alone, and what a boot has done with has its row),
`NamesInv` (who is to write a name found it free and holds it alone), `RefInv`
(no entry, and no request that has still to write one, names a release that is
gone, unless it is in `dangling`) and `TimeInv` (the row that is owed shows what
was written). The ghosts of the model carry the case split: a step that makes two
holders meet puts the key into the ghost.

*Settings.* One lemma per action says what the request and the shared state turn
into, and every invariant is proved from these lemmas. `TypeInv` has `Fits`: what a
request is about at each place (save, app, connection, notice, upload, boot).
`Alone` says that two requests at work on one group have crossed, and `Placed`
that a request is at an instance that serves, a boot at one that does not yet and
that it has for itself. Then:

- `FileInv`: what an upload has put where, by its place;
- `ReadInv`: what an uncrossed request has read is still what the document says;
- `AllRight`: a copy that counts is behind, follows the document, or is one that a
  save which is `Half` way will renew;
- `WholeInv`: a group is torn, whole, or some request is `Amid` writing it;
- `CountInv`: the patch of an uncrossed request will leave its groups whole, and
  what it wrote so far stands.

Slack's app credentials are excepted from the comparison of copies (`Alike`): a
handler of its own writes them. `ConstantsAssumption` says what the handlers
are: AI, Slack and GitHub have separate ones, and the others write templates
only by language (`update_settings.go`).

*Reads.* Answers are sorted sequences, given by CHOOSE. Their theory comes first,
without induction over data: the *rank* of an element is the number of those up to it,
so the sequence that puts each element at its rank is sorted (`SortExists`), in every
sorted sequence an element's place is its rank (`PlaceIsRank`), and there is but one
(`SortUnique`). An operator cannot be handed to a lemma, so an order is a set of
pairs (`EntryOrder`, `AgeOrder`, `RowOrder`), and each sort is shown to use it. Then:

- `ShownInv` (`Noted`, `Seen`): what a reader has been told, or will be by what it
  holds, was public when it was read, and what is public is always noted in `since`;
- `WalkInv` (`ListWalk`, `UserWalk`): as long as no write moved the listing, what a
  walk has got has all of the first answer whose rank is within the pages served,
  since whoever joins moves others back and never forward (`RankGrows`); and as long
  as nothing joined either, what it has got is the first answer up to there
  (`PagesJoin`), the order of the entries that matter being the same (`WritesHold`);
- `FigureInv`: the figures read so far are at most the present ones, and are those of
  a store of as many entries unless an entry was submitted. That the buckets sum to
  the total is `TypesAddUp` and `StatusesAddUp`: a partition's parts.

*The demo.* Its answers are compared with the database's one by one. A slice holds each
element of its set once (`Enumerates`); what is picked of a slice holds what was asked
for (`PickedEnumerates`) and stays sorted if the slice was (`PickedOrdered`); a stable sort
of a slice of which no two elements are alike is the one sorted sequence
(`StableSorts`), which is where the demo's ties matter: the order in which a loop comes
by entries shows only if two elements tie, and the sorts by date fall back on the id.
The loops that count are compared round by round (`RoundCounts`, `RoundTallies`) with the
count over the entries so far; a first round in which the two differ would be a least
element of a set of numbers (`Least`), and is refuted (`Rounds`). A page is the slice
that a skip and a limit cut (`Paginated`), and the first document found is the one
document, as there are no two (`FirstFound`).

Only model-checked: liveness (`CountersEventuallyExact`, `QueueDrains` and the like),
since properties under fairness and anything with ENABLED are beyond the prover. Every
safety property of a passing run is proved. No recursive operator is declared; the
demo's loops are recursive functions.

## 6. What is left out, and why

Within the modelled parts: wording, error messages, `updatedat` where no filter
compares it, AI token totals, descriptions and colours, branding, the model's
name, the non-unique indexes, the wire shapes of answers and the names and votes
looked up for them, the dashboard's day buckets and short lists, the demo's lookups by id or by title,
the two list orders that are sorted by name. The three analyzers of an instance run one after
another in one goroutine; the models of two of them run independently, which
allows more interleavings than the code, never fewer. Entries of `EntryTopics`
and `Relations` exist from the start, and those of `Relations` start without
relations. `SetEntryRelations` and `ListUsers` have no caller. The branch of
setup for settings that exist but are not completed is left out, as nothing
creates such settings; so is `IsDeleted` of users, which no code sets. A release
is its version name. A read that fails ends a reader of `Reads` with nothing
shown, which no property could tell.

The calls that draft a GitHub issue, and the parsing of the model's answers, are
external: an answer is any choice the code accepts. The cookie that carries
Slack's state and the verification of tokens either pass or end the request.
`Settings` takes it from the documentation of the driver, which is not in the
repository, that documents inside a `bson.M` are decoded as `bson.D`; the migration of
templates rests on that (`settings.go:105`). The dataset of the demo is
represented by small stores in TLC; `CataloguesAssumption` says what the proof needs
of it, and the dataset has: its topics have distinct orders, its releases distinct
names and moments, its votes distinct pairs and somebody's, its users distinct keys,
and its accounts are by e-mail or by a custom token. Users of `Reads` are told apart
by when they were made; those of the demo's Portal share a moment, and stay in the
order of insertion, for which `created` stands.

Not modelled at all: the web applications (clients of the API), generated
documentation, and the parts of HTTP plumbing that keep no state.

## 7. Plan

1. `Relations` as an implementation of an abstract symmetric labelled graph,
   where edits do not overlap: `IInv` has what the mapping needs.
2. The merge of `Votes` composed with `AddEntryRelation` of `Relations` and
   `SetEntryStatus` of `EntryRecords`, each of which it calls.
3. Reads: the short lists and day buckets of the dashboard, names and votes in
   answers.
