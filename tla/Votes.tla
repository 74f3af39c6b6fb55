------------------------------- MODULE Votes --------------------------------
(***************************************************************************)
(* Votes: the votes collection, its archive and unique index, the counter  *)
(* cached on every entry, and the four kinds of code that write them, each *)
(* one database call per step:                                             *)
(*   - the toggle handlers of Portal and Console (AddVoteHandler),         *)
(*   - the merge handler of the Console (MergeEntryHandler),               *)
(*   - the reconciliation pass of every instance (ReconcileVoteCounts),    *)
(*   - the index build at boot (EnsureIndexes).                            *)
(* A request or merge is one HTTP request.  Any of its calls may fail, or  *)
(* its process die, at any point: Abort.  Nothing runs in a transaction.   *)
(***************************************************************************)
EXTENDS Integers, FiniteSets

CONSTANTS Users,        \* users who can vote
          Anonymous,    \* the empty userid some legacy rows carry
          Entries,
          Requests,     \* toggle requests; naturals, see Row
          Merges,       \* merge requests
          Janitors,     \* instances, each with a reconciliation pass if any
          LegacyRows,   \* rows that were there before this code ran
          LegacyDrift,  \* counter minus rows, on data this code inherits
          IndexAtStart, \* the unique index was built by an earlier boot
          MaxFaults     \* bound: failed passes and instance restarts

\* A row of votes.  Its id stands for the pair (createdat, _id), by which
\* pickSurvivingVote orders rows: a request's row has the request's number, and
\* as instances read their own clocks any request may carry any number.
Row == [id : Nat, user : Users \cup {Anonymous}, entry : Entries]

ASSUME ConstantsAssumption ==
    /\ Anonymous \notin Users
    /\ Requests \subseteq Nat
    /\ IsFiniteSet(LegacyRows) /\ LegacyRows \subseteq Row
    /\ \A v, w \in LegacyRows : v.id = w.id => v = w
    /\ \A v \in LegacyRows : v.id \notin Requests
    /\ LegacyDrift \subseteq Int
    /\ IndexAtStart \in BOOLEAN
    /\ MaxFaults \in Nat

VARIABLES votes,     \* collection "votes": the rows
          archive,   \* collection "votes_archive": copies of removed rows
          index,     \* whether the unique (userid, entryid) index exists
          count,     \* Entry.VoteCount
          cancelled, \* entries whose status a merge set to cancelled
          related,   \* {src, dst} pairs with a duplicate relation
          timeline,  \* merged-into activities, <<merge, src, dst>>
          req, mrg, jan,  \* the program counter and locals of every process
          faults     \* faults so far

entryVars == <<cancelled, related, timeline>>
vars == <<votes, archive, index, count, cancelled, related, timeline,
          req, mrg, jan, faults>>

-----------------------------------------------------------------------------
RowsFor(u, e) == {v \in votes : v.user = u /\ v.entry = e}
RowsOn(e) == {v \in votes : v.entry = e}
Tallies == [e \in Entries |-> Cardinality(RowsOn(e))]

\* What the unique index demands of a set of rows; anonymous rows are exempt.
Unique(rows) ==
    \A v, w \in rows :
        v.user # Anonymous /\ v.user = w.user /\ v.entry = w.entry => v = w

\* What an instance is after its boot.  If main can read the settings and they
\* say that the setup was completed, the pass comes first, then the index and
\* the ticker.  If not, or if the deployment is set up while the instance runs,
\* it has none of the three for as long as it lives.
AtRest(pc, boot) == [pc |-> pc, boot |-> boot, groups |-> {}, surplus |-> {},
                     fix |-> {}, truth |-> [e \in Entries |-> 0]]
Booted == {AtRest("idle", TRUE), AtRest("off", FALSE)}

Init ==
    /\ votes = LegacyRows
    /\ archive = {}
    /\ index = (IndexAtStart /\ Unique(LegacyRows))
    /\ count \in {[e \in Entries |->
                      Cardinality({v \in LegacyRows : v.entry = e}) + d[e]] :
                      d \in [Entries -> LegacyDrift]}
    /\ cancelled = {} /\ related = {} /\ timeline = {}
    /\ req \in [Requests -> [pc : {"new"}, user : Users, entry : Entries,
                              did : {"nothing"}]]
    /\ mrg \in [Merges -> [pc : {"new"}, src : Entries, dst : Entries,
                            todo : {{}}, dstUsers : {{}}, n : {0}]]
    /\ jan \in [Janitors -> Booted]
    /\ faults = 0

-----------------------------------------------------------------------------
(* The toggle.                                                             *)

Step(r, pc) == req' = [req EXCEPT ![r].pc = pc]

\* FindVote only picks the direction.  It goes through QueryOne, which returns
\* a row when exactly one matches and nil otherwise.
FindVote(r) ==
    /\ req[r].pc = "new"
    /\ Step(r, IF Cardinality(RowsFor(req[r].user, req[r].entry)) = 1
               THEN "delete" ELSE "upsert")
    /\ UNCHANGED <<votes, archive, index, count, entryVars, mrg, jan, faults>>

\* InsertVoteIfAbsent is a findOneAndUpdate with upsert.  The server looks for
\* a match first; with no unique index two upserts can both find none.
UpsertFind(r) ==
    /\ req[r].pc = "upsert"
    /\ Step(r, IF RowsFor(req[r].user, req[r].entry) = {}
               THEN "insert" ELSE "done")
    /\ UNCHANGED <<votes, archive, index, count, entryVars, mrg, jan, faults>>

\* ... then inserts, which the index may refuse (E11000, "already voted").
UpsertInsert(r) ==
    LET row == [id |-> r, user |-> req[r].user, entry |-> req[r].entry]
        refused == index /\ RowsFor(row.user, row.entry) # {}
    IN  /\ req[r].pc = "insert"
        /\ IF refused
           THEN Step(r, "done") /\ UNCHANGED votes
           ELSE /\ votes' = votes \cup {row}
                /\ req' = [req EXCEPT ![r].pc = "adjust", ![r].did = "cast"]
        /\ UNCHANGED <<archive, index, count, entryVars, mrg, jan, faults>>

\* Mutated: the un-vote decrements whether or not it removed a row.
DeleteVoteUnconditional(r) ==
    /\ req[r].pc = "delete"
    /\ votes' = votes \ RowsFor(req[r].user, req[r].entry)
    /\ req' = [req EXCEPT ![r].pc = "adjust", ![r].did = "retracted"]
    /\ UNCHANGED <<archive, index, count, entryVars, mrg, jan, faults>>

\* DeleteVoteIfPresent: one DeleteMany, whose count says whether to decrement.
DeleteVote(r) ==
    LET rows == RowsFor(req[r].user, req[r].entry)
    IN  /\ req[r].pc = "delete"
        /\ votes' = votes \ rows
        /\ IF rows = {}
           THEN Step(r, "done")
           ELSE req' = [req EXCEPT ![r].pc = "adjust", ![r].did = "retracted"]
        /\ UNCHANGED <<archive, index, count, entryVars, mrg, jan, faults>>

\* IncrementEntryVoteCount(+1 or -1), an atomic $inc.
AdjustCount(r) ==
    /\ req[r].pc = "adjust"
    /\ count' = [count EXCEPT ![req[r].entry] =
                    @ + (IF req[r].did = "cast" THEN 1 ELSE -1)]
    /\ Step(r, "done")
    /\ UNCHANGED <<votes, archive, index, entryVars, mrg, jan, faults>>

\* A call returns an error, or the instance dies under the request.  Before its
\* first write that is as if it had never come.
AbortRequest(r) ==
    /\ req[r].pc \notin {"new", "done", "aborted"}
    /\ Step(r, "aborted")
    /\ UNCHANGED <<votes, archive, index, count, entryVars, mrg, jan, faults>>

Toggle(r) == \/ FindVote(r)
             \/ UpsertFind(r)
             \/ UpsertInsert(r)
             \/ DeleteVote(r)
             \/ AdjustCount(r)
             \/ AbortRequest(r)

-----------------------------------------------------------------------------
(* The merge of entry src into entry dst.                                  *)

\* Both entries exist and differ; AddEntryRelation links them as duplicates.
Relate(m) ==
    /\ mrg[m].pc = "new"
    /\ mrg[m].src # mrg[m].dst
    /\ related' = related \cup {{mrg[m].src, mrg[m].dst}}
    /\ mrg' = [mrg EXCEPT ![m].pc = "readSrc"]
    /\ UNCHANGED <<votes, archive, index, count, cancelled, timeline,
                   req, jan, faults>>

\* MigrateVotesToEntry reads the source's rows, then the destination's voters.
ReadSource(m) ==
    /\ mrg[m].pc = "readSrc"
    /\ mrg' = [mrg EXCEPT ![m].todo = RowsOn(mrg[m].src),
                          ![m].pc = IF RowsOn(mrg[m].src) = {}
                                    THEN "migrate" ELSE "readDst"]
    /\ UNCHANGED <<votes, archive, index, count, entryVars, req, jan, faults>>

\* Mutated: the source's voters are taken for the destination's.
ReadDestinationSwapped(m) ==
    /\ mrg[m].pc = "readDst"
    /\ mrg' = [mrg EXCEPT
                 ![m].dstUsers = {v.user : v \in mrg[m].todo} \ {Anonymous},
                 ![m].pc = "migrate"]
    /\ UNCHANGED <<votes, archive, index, count, entryVars, req, jan, faults>>

ReadDestination(m) ==
    /\ mrg[m].pc = "readDst"
    /\ mrg' = [mrg EXCEPT
                 ![m].dstUsers = {v.user : v \in RowsOn(mrg[m].dst)}
                                    \ {Anonymous},
                 ![m].pc = "migrate"]
    /\ UNCHANGED <<votes, archive, index, count, entryVars, req, jan, faults>>

\* Mutated: the duplicate is deleted by its user, not by its _id.
DropVoteByUser(m) ==
    \E v \in mrg[m].todo :
        /\ mrg[m].pc = "migrate"
        /\ v.user \in mrg[m].dstUsers
        /\ votes' = {w \in votes : w.user # v.user}
        /\ mrg' = [mrg EXCEPT ![m].todo = @ \ {v}]
        /\ UNCHANGED <<archive, index, count, entryVars, req, jan, faults>>

\* A row whose user was seen on the destination is deleted by its _id.
DropVote(m) ==
    \E v \in mrg[m].todo :
        /\ mrg[m].pc = "migrate"
        /\ v.user \in mrg[m].dstUsers
        /\ votes' = {w \in votes : w.id # v.id}
        /\ mrg' = [mrg EXCEPT ![m].todo = @ \ {v}]
        /\ UNCHANGED <<archive, index, count, entryVars, req, jan, faults>>

\* Any other row is retargeted by its _id, if it is still there: SetValue on a
\* row that is gone matches nothing.  The index may refuse the new pair, which
\* ends the merge where it stands.
MoveVote(m) ==
    \E v \in mrg[m].todo :
        LET moved == {[w EXCEPT !.entry = mrg[m].dst] :
                         w \in {x \in votes : x.id = v.id}}
            after == {w \in votes : w.id # v.id} \cup moved
        IN  /\ mrg[m].pc = "migrate"
            /\ v.user \notin mrg[m].dstUsers
            /\ IF index /\ ~Unique(after)
               THEN /\ mrg' = [mrg EXCEPT ![m].pc = "aborted"]
                    /\ UNCHANGED votes
               ELSE /\ votes' = after
                    /\ mrg' = [mrg EXCEPT
                                 ![m].todo = @ \ {v},
                                 ![m].dstUsers = @ \cup ({v.user} \ {Anonymous})]
            /\ UNCHANGED <<archive, index, count, entryVars, req, jan, faults>>

\* CountVotesForEntry and SetEntryVoteCount, for the source ...
CountSource(m) ==
    /\ mrg[m].pc = "migrate" /\ mrg[m].todo = {}
    /\ mrg' = [mrg EXCEPT ![m].n = Tallies[mrg[m].src], ![m].pc = "setSrc"]
    /\ UNCHANGED <<votes, archive, index, count, entryVars, req, jan, faults>>

SetSource(m) ==
    /\ mrg[m].pc = "setSrc"
    /\ count' = [count EXCEPT ![mrg[m].src] = mrg[m].n]
    /\ mrg' = [mrg EXCEPT ![m].pc = "countDst"]
    /\ UNCHANGED <<votes, archive, index, entryVars, req, jan, faults>>

\* ... and for the destination.
CountDestination(m) ==
    /\ mrg[m].pc = "countDst"
    /\ mrg' = [mrg EXCEPT ![m].n = Tallies[mrg[m].dst], ![m].pc = "setDst"]
    /\ UNCHANGED <<votes, archive, index, count, entryVars, req, jan, faults>>

SetDestination(m) ==
    /\ mrg[m].pc = "setDst"
    /\ count' = [count EXCEPT ![mrg[m].dst] = mrg[m].n]
    /\ mrg' = [mrg EXCEPT ![m].pc = "cancel"]
    /\ UNCHANGED <<votes, archive, index, entryVars, req, jan, faults>>

CancelSource(m) ==
    /\ mrg[m].pc = "cancel"
    /\ cancelled' = cancelled \cup {mrg[m].src}
    /\ mrg' = [mrg EXCEPT ![m].pc = "record"]
    /\ UNCHANGED <<votes, archive, index, count, related, timeline,
                   req, jan, faults>>

RecordMerge(m) ==
    /\ mrg[m].pc = "record"
    /\ timeline' = timeline \cup {<<m, mrg[m].src, mrg[m].dst>>}
    /\ mrg' = [mrg EXCEPT ![m].pc = "done"]
    /\ UNCHANGED <<votes, archive, index, count, cancelled, related,
                   req, jan, faults>>

AbortMerge(m) ==
    /\ mrg[m].pc \notin {"done", "aborted"}
    /\ mrg' = [mrg EXCEPT ![m].pc = "aborted"]
    /\ UNCHANGED <<votes, archive, index, count, entryVars, req, jan, faults>>

Merge(m) == \/ Relate(m)
            \/ ReadSource(m)
            \/ ReadDestination(m)
            \/ DropVote(m)
            \/ MoveVote(m)
            \/ CountSource(m)
            \/ SetSource(m)
            \/ CountDestination(m)
            \/ SetDestination(m)
            \/ CancelSource(m)
            \/ RecordMerge(m)
            \/ AbortMerge(m)

-----------------------------------------------------------------------------
(* The reconciliation pass, at boot and on the hourly ticker.              *)

\* pickSurvivingVote: the earliest row of a pair.
Survivor(rows) == CHOOSE v \in rows : \A w \in rows : v.id <= w.id

\* Mutated: off by one, only a third row makes a duplicate.
DuplicateGroupsOfThree ==
    {g \in {RowsFor(u, e) : u \in Users, e \in Entries} : Cardinality(g) > 2}

\* The pairs with more than one row; anonymous rows make no pair.
DuplicateGroups ==
    {g \in {RowsFor(u, e) : u \in Users, e \in Entries} : Cardinality(g) > 1}

\* Mutated: the choice of the survivor is not stable across instances.
ScanDuplicatesUnstable(j) ==
    /\ jan[j].pc = "idle"
    /\ \E keep \in [DuplicateGroups -> votes] :
          /\ \A g \in DuplicateGroups : keep[g] \in g
          /\ jan' = [jan EXCEPT
                       ![j].groups = {g \ {keep[g]} : g \in DuplicateGroups},
                       ![j].pc = "archive"]
    /\ UNCHANGED <<votes, archive, index, count, entryVars, req, mrg, faults>>

\* One aggregation lists the groups; all but the survivor of each are surplus.
ScanDuplicates(j) ==
    /\ jan[j].pc = "idle"
    /\ jan' = [jan EXCEPT
                 ![j].groups = {g \ {Survivor(g)} : g \in DuplicateGroups},
                 ![j].pc = "archive"]
    /\ UNCHANGED <<votes, archive, index, count, entryVars, req, mrg, faults>>

\* Mutated: the surplus is not copied.
ArchiveGroupSkipped(j) ==
    \E g \in jan[j].groups :
        /\ jan[j].pc = "archive"
        /\ jan' = [jan EXCEPT ![j].groups = @ \ {g}, ![j].surplus = g,
                              ![j].pc = "delete"]
        /\ UNCHANGED <<votes, archive, index, count, entryVars, req, mrg, faults>>

\* Group by group, the surplus is copied first; a row whose _id is already
\* archived stays as it is ...
ArchiveGroup(j) ==
    \E g \in jan[j].groups :
        /\ jan[j].pc = "archive"
        /\ archive' = archive \cup {v \in g : \A w \in archive : w.id # v.id}
        /\ jan' = [jan EXCEPT ![j].groups = @ \ {g}, ![j].surplus = g,
                              ![j].pc = "delete"]
        /\ UNCHANGED <<votes, index, count, entryVars, req, mrg, faults>>

\* ... and deleted by _id second.
DeleteGroup(j) ==
    /\ jan[j].pc = "delete"
    /\ votes' = {w \in votes : \A v \in jan[j].surplus : w.id # v.id}
    /\ jan' = [jan EXCEPT ![j].surplus = {}, ![j].pc = "archive"]
    /\ UNCHANGED <<archive, index, count, entryVars, req, mrg, faults>>

\* repairEntryVoteCounts reads the tallies, then the counters, then writes the
\* tally of every entry that disagreed.
TallyVotes(j) ==
    /\ jan[j].pc = "archive" /\ jan[j].groups = {}
    /\ jan' = [jan EXCEPT ![j].truth = Tallies, ![j].pc = "read"]
    /\ UNCHANGED <<votes, archive, index, count, entryVars, req, mrg, faults>>

\* Mutated: only counters that are too high are repaired.
ReadCountersTooHigh(j) ==
    /\ jan[j].pc = "read"
    /\ jan' = [jan EXCEPT
                 ![j].fix = {e \in Entries : jan[j].truth[e] < count[e]},
                 ![j].pc = "repair"]
    /\ UNCHANGED <<votes, archive, index, count, entryVars, req, mrg, faults>>

ReadCounters(j) ==
    /\ jan[j].pc = "read"
    /\ jan' = [jan EXCEPT
                 ![j].fix = {e \in Entries : jan[j].truth[e] # count[e]},
                 ![j].pc = "repair"]
    /\ UNCHANGED <<votes, archive, index, count, entryVars, req, mrg, faults>>

RepairCounter(j) ==
    \E e \in jan[j].fix :
        /\ jan[j].pc = "repair"
        /\ count' = [count EXCEPT ![e] = jan[j].truth[e]]
        /\ jan' = [jan EXCEPT ![j].fix = @ \ {e}]
        /\ UNCHANGED <<votes, archive, index, entryVars, req, mrg, faults>>

\* A finished or failed pass leaves nothing behind in the process.  At boot the
\* index build comes next even if the pass failed.
EndPass(j) ==
    jan' = [jan EXCEPT ![j] = AtRest(IF jan[j].boot THEN "index" ELSE "idle",
                                     jan[j].boot)]

FinishPass(j) ==
    /\ jan[j].pc = "repair" /\ jan[j].fix = {}
    /\ EndPass(j)
    /\ UNCHANGED <<votes, archive, index, count, entryVars, req, mrg, faults>>

\* EnsureIndexes: Mongo refuses to build the index over duplicates, and the
\* instance boots on without it.
BuildIndex(j) ==
    /\ jan[j].pc = "index"
    /\ index' = (index \/ Unique(votes))
    /\ jan' = [jan EXCEPT ![j].pc = "idle", ![j].boot = FALSE]
    /\ UNCHANGED <<votes, archive, count, entryVars, req, mrg, faults>>

Janitor(j) == \/ ScanDuplicates(j)
              \/ ArchiveGroup(j)
              \/ DeleteGroup(j)
              \/ TallyVotes(j)
              \/ ReadCounters(j)
              \/ RepairCounter(j)
              \/ FinishPass(j)
              \/ BuildIndex(j)

\* A call of the pass returns an error: the rest of the pass is skipped.
FailPass(j) ==
    /\ faults < MaxFaults /\ faults' = faults + 1
    /\ jan[j].pc \notin {"off", "idle", "index"}
    /\ EndPass(j)
    /\ UNCHANGED <<votes, archive, index, count, entryVars, req, mrg>>

\* The instance dies and boots again, and may fail to read the settings.
Restart(j) ==
    /\ faults < MaxFaults /\ faults' = faults + 1
    /\ \E b \in Booted : jan' = [jan EXCEPT ![j] = b]
    /\ UNCHANGED <<votes, archive, index, count, entryVars, req, mrg>>

-----------------------------------------------------------------------------
Next == \/ \E r \in Requests : Toggle(r)
        \/ \E m \in Merges : Merge(m)
        \/ \E j \in Janitors : Janitor(j) \/ FailPass(j) \/ Restart(j)

Spec == Init /\ [][Next]_vars

\* The janitor of an instance that has one is a goroutine on a ticker: its next
\* step is always taken in the end.  An instance that is off has no step to
\* take, and nothing promises that it is ever restarted.  Requests and merges
\* get no fairness, they may die at any step.
FairSpec == Spec /\ \A j \in Janitors : WF_vars(Janitor(j))
-----------------------------------------------------------------------------
(* Properties.                                                             *)

ReqType == [pc : {"new", "upsert", "insert", "delete", "adjust", "done",
                  "aborted"},
            user : Users, entry : Entries,
            did : {"nothing", "cast", "retracted"}]
MrgType == [pc : {"new", "readSrc", "readDst", "migrate", "setSrc", "countDst",
                  "setDst", "cancel", "record", "done", "aborted"},
            src : Entries, dst : Entries, todo : SUBSET Row,
            dstUsers : SUBSET Users, n : Nat]
JanType == [pc : {"off", "idle", "archive", "delete", "read", "repair", "index"},
            boot : BOOLEAN, groups : SUBSET SUBSET Row, surplus : SUBSET Row,
            fix : SUBSET Entries, truth : [Entries -> Nat]]

\* Every variable stays in its type.
TypeOK ==
    /\ votes \in SUBSET Row /\ archive \in SUBSET Row
    /\ index \in BOOLEAN
    /\ count \in [Entries -> Int]
    /\ cancelled \in SUBSET Entries
    /\ related \in SUBSET SUBSET Entries
    /\ timeline \in SUBSET (Merges \X Entries \X Entries)
    /\ req \in [Requests -> ReqType]
    /\ mrg \in [Merges -> MrgType]
    /\ jan \in [Janitors -> JanType]
    /\ faults \in 0..MaxFaults

\* The increments that toggles owe an entry: the row was written and the
\* counter was not, or never will be because the request died in between.
Owing(e, what) == {r \in Requests : /\ req[r].entry = e
                                    /\ req[r].did = what
                                    /\ req[r].pc \in {"adjust", "aborted"}}

\* An entry's counter differs from its rows by exactly the increments owed to it.
Accounted ==
    \A e \in Entries :
        count[e] + Cardinality(Owing(e, "cast"))
                 - Cardinality(Owing(e, "retracted")) = Cardinality(RowsOn(e))

\* No merge has begun and no pass has run: only toggles have written.
OnlyToggled ==
    /\ \A m \in Merges : mrg[m].pc = "new"
    /\ \A j \in Janitors : jan[j] \in Booted
    /\ faults = 0

\* As long as only toggles have written, every counter differs from its rows by
\* exactly the increments still owed to it: no race between requests of any
\* users counts a vote twice or misses one, and a crash between the two writes
\* costs that one increment (the purpose of the bool both writes return).
CounterAccountsForVotes == OnlyToggled => Accounted

\* Votes as their users see them: one pair per user and entry that has a row.
Ledger == {<<v.user, v.entry>> : v \in {w \in votes : w.user # Anonymous}}

\* The code implements the ledger: every request changes at most the vote of
\* its own user on its own entry, once, in one step; failures, counters and the
\* archiving of duplicates by any number of concurrent passes change nobody's
\* vote ("no user loses the vote they cast", vote_reconcile.go).
Abstract == INSTANCE VoteLedger WITH
    ledger <- Ledger,
    asked <- [r \in Requests |-> IF req[r].pc = "new" THEN {}
                                  ELSE {<<req[r].user, req[r].entry>>}],
    spent <- {r \in Requests : \/ req[r].did # "nothing"
                               \/ req[r].pc \in {"done", "aborted"}},
    InitialLedger <- {<<v.user, v.entry>> :
                         v \in {w \in LegacyRows : w.user # Anonymous}}
ImplementsLedger == Abstract!Spec

\* A row that leaves the collection other than by its user's un-vote or as a
\* merge's duplicate is in the archive by then, verbatim: the copy precedes the
\* delete in every interleaving of passes and failures (archiveDuplicateVotes).
NothingDestroyed ==
    [][\A v \in votes \ votes' :
          \/ v \in archive
          \/ \E r \in Requests : DeleteVote(r)
          \/ \E m \in Merges : Merge(m)]_vars

\* Users who never take a vote back.
Loyal(u) == \A r \in Requests : req[r].user = u => req[r].did # "retracted"

HasVoted(u) == \/ \E v \in LegacyRows : v.user = u
               \/ \E r \in Requests : req[r].user = u /\ req[r].did = "cast"

\* A user who voted and took nothing back has a vote somewhere: merges move
\* votes and passes archive surplus ones, none takes a user's last vote
\* (vote_reconcile.go: "so no user loses the vote they cast").
VotersKeepAVote ==
    \A u \in Users :
        Loyal(u) /\ HasVoted(u) => \E v \in votes : v.user = u

\* Whoever voted for the source when a merge read it, or for the destination,
\* is found on the destination once the votes are migrated, unless they took a
\* vote back meanwhile (MigrateVotesToEntry).
MergedVotersFollow ==
    \A m \in Merges :
        mrg[m].pc \in {"setSrc", "countDst", "setDst", "cancel", "record", "done"}
        => \A u \in mrg[m].dstUsers :
               Loyal(u) => RowsFor(u, mrg[m].dst) # {}

Exact == count = Tallies

\* From some time on an instance runs whose boot found the settings.
JanitorLasts == <>[](\E j \in Janitors : jan[j].pc # "off")

\* As long as in the end some instance has a janitor, whatever toggles, merges
\* and passes raced or died, its hourly pass brings every counter back to its
\* rows (main.go: "Keep the counters honest while the process runs") ...
CountersEventuallyExact == JanitorLasts => <>[]Exact

\* ... and leaves one row per user and entry, with or without the unique index
\* (archiveDuplicateVotes).
DuplicatesEventuallyArchived == JanitorLasts => <>[]Unique(votes)
=============================================================================
