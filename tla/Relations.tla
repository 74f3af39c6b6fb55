----------------------------- MODULE Relations ------------------------------
(***************************************************************************)
(* The relations between entries.  A link is kept twice, in an array of    *)
(* each of the two entries; the links that the relation analyzer made are  *)
(* in a second array of each, their reasons in the analysis of the entry   *)
(* that was analyzed, and every change is a row of both timelines.  An     *)
(* array is read whole and written whole, by a call of its own.  Admins    *)
(* link and unlink entries (AddEntryRelation, RemoveEntryRelation); an     *)
(* analyzer on every instance claims an entry without relations, asks the  *)
(* model which of the others it is related to, and replaces its relations. *)
(* Entries were submitted before; they start without relations.            *)
(***************************************************************************)
EXTENDS Integers, FiniteSets

CONSTANTS Workers,   \* instances, each with one relation analyzer
          Requests,  \* requests of the Console
          Entries,
          NoEntry,
          MaxFaults, \* bound: failed calls and writes, crashes
          MaxClaims  \* bound: claims of the analyzers

ASSUME ConstantsAssumption == /\ NoEntry \notin Entries
                              /\ Workers \cap Requests = {}
                              /\ MaxFaults \in Nat
                              /\ MaxClaims \in Nat

\* EntryRelationType, and what stands for no element in an array.
Types == {"duplicate", "related"}
Links == [Entries -> Types \cup {"none"}]
NoLinks == [p \in Entries |-> "none"]

VARIABLES relations,   \* Entry.Relations, by peer
          aiRelations, \* Entry.AIRelations, by peer
          reasons,     \* the keys of RelationAnalysis.SuggestedRelationReasons
          timeline,    \* the links that the rows of the timeline add up to
          status,      \* RelationAnalysis.Status; "unset" is its zero value
          claim,       \* RelationAnalysis.ClaimedAt: zero, within the TTL, older
          act,         \* what each analyzer and each request is doing
          faults,
          claims,      \* how often an analyzer claimed an entry
          met,         \* entries that two writers met on (no code reads it)
          left,        \* entries that a writer failed or died on
          overtaken    \* entries linked by an admin while they were analyzed

entry == <<relations, aiRelations, reasons, timeline>>
analysis == <<status, claim, claims>>
ghosts == <<met, left, overtaken>>
vars == <<entry, analysis, act, faults, ghosts>>

\* What an analyzer or a request remembers between its calls: the entry it is
\* about, the links it wants, the sides it has still to drop a link from and to
\* link, the side it is writing and the arrays it writes there, the reasons it
\* has to unset and the rows it has to record.  A side is <<entry, peer>>.
NoSide == <<NoEntry, NoEntry>>
Ended(pc) == [pc |-> pc, op |-> "none", entry |-> NoEntry, want |-> NoLinks,
              drop |-> {}, link |-> {}, side |-> NoSide, rels |-> NoLinks,
              ais |-> NoLinks, unset |-> {}, rows |-> {}]

Init == /\ relations = [e \in Entries |-> NoLinks]
        /\ aiRelations = [e \in Entries |-> NoLinks]
        /\ reasons = [e \in Entries |-> {}]
        /\ timeline = [e \in Entries |-> NoLinks]
        /\ status = [e \in Entries |-> "unset"]
        /\ claim = [e \in Entries |-> "none"]
        /\ act = [a \in Workers \cup Requests |->
                    Ended(IF a \in Workers THEN "idle" ELSE "new")]
        /\ faults = 0 /\ claims = 0
        /\ met = {}
        /\ left = {}
        /\ overtaken = {}

Peers(links) == {p \in Entries : links[p] # "none"}

-----------------------------------------------------------------------------
(* One side of a link: removeRelationFromEntry, upsertRelationOnEntry.     *)

\* Of the two sides of a link, the entry's own comes first.
Ready(a, sides) ==
    {s \in sides : s[1] = act[a].entry \/ <<s[2], s[1]>> \notin sides}

\* The type that the link of a side is to have.
Wanted(a, s) == act[a].want[IF s[1] = act[a].entry THEN s[2] ELSE s[1]]

\* Mutated: the AI flag is kept when an admin links the entries anew.
FlagKept(a, s) == IF act[a].op = "analyze" THEN Wanted(a, s)
                  ELSE aiRelations[s[1]][s[2]]

\* The flag of an upserted link: an analyzer's is flagged, an admin's is not.
Flag(a, s) == IF act[a].op = "analyze" THEN Wanted(a, s) ELSE "none"

\* Mutated: only one of the two sides is dropped.
ReadDroppedOnce(a) ==
    /\ act[a].pc = "sides"
    /\ \E s \in Ready(a, act[a].drop) :
          act' = [act EXCEPT
                    ![a].drop = {},
                    ![a].pc = "relations",
                    ![a].side = s,
                    ![a].rels = [relations[s[1]] EXCEPT ![s[2]] = "none"],
                    ![a].ais = [aiRelations[s[1]] EXCEPT ![s[2]] = "none"]]
    /\ UNCHANGED <<entry, analysis, faults>>

\* removeRelationFromEntry reads the side; without the link it is done.
ReadDropped(a) ==
    /\ act[a].pc = "sides"
    /\ \E s \in Ready(a, act[a].drop) :
          LET there == {relations[s[1]][s[2]], aiRelations[s[1]][s[2]]} # {"none"}
          IN act' = [act EXCEPT
                       ![a].drop = @ \ {s},
                       ![a].pc = IF there THEN "relations" ELSE "sides",
                       ![a].side = IF there THEN s ELSE NoSide,
                       ![a].rels = [relations[s[1]] EXCEPT ![s[2]] = "none"],
                       ![a].ais = [aiRelations[s[1]] EXCEPT ![s[2]] = "none"]]
    /\ UNCHANGED <<entry, analysis, faults>>

\* upsertRelationOnEntry reads the side.
ReadLinked(a) ==
    /\ act[a].pc = "sides" /\ act[a].drop = {}
    /\ \E s \in Ready(a, act[a].link) :
          act' = [act EXCEPT
                    ![a].link = @ \ {s},
                    ![a].pc = "relations",
                    ![a].side = s,
                    ![a].rels = [relations[s[1]] EXCEPT ![s[2]] = Wanted(a, s)],
                    ![a].ais = [aiRelations[s[1]] EXCEPT ![s[2]] = Flag(a, s)]]
    /\ UNCHANGED <<entry, analysis, faults>>

\* Both write the array of relations, ...
WriteRelations(a) ==
    /\ act[a].pc = "relations"
    /\ relations' = [relations EXCEPT ![act[a].side[1]] = act[a].rels]
    /\ act' = [act EXCEPT ![a].pc = "airelations", ![a].rels = NoLinks]
    /\ UNCHANGED <<aiRelations, reasons, timeline, analysis, faults>>

\* ... that of the flagged ones, ...
WriteAIRelations(a) ==
    LET s == act[a].side IN
    /\ act[a].pc = "airelations"
    /\ aiRelations' = [aiRelations EXCEPT ![s[1]] = act[a].ais]
    /\ act' = [act EXCEPT ![a].pc = IF act[a].ais[s[2]] = "none" THEN "reason"
                                    ELSE "sides",
                          ![a].side = IF act[a].ais[s[2]] = "none" THEN @
                                      ELSE NoSide,
                          ![a].ais = NoLinks]
    /\ UNCHANGED <<relations, reasons, timeline, analysis, faults>>

\* ... and, when the flag is gone, the reason is unset.
UnsetReason(a) ==
    LET s == act[a].side IN
    /\ act[a].pc = "reason"
    /\ reasons' = [reasons EXCEPT ![s[1]] = @ \ {s[2]}]
    /\ act' = [act EXCEPT ![a].pc = "sides", ![a].side = NoSide]
    /\ UNCHANGED <<relations, aiRelations, timeline, analysis, faults>>

\* (BulkUpdate reports no error when the server does not unset it.)
SkipUnset(a) ==
    /\ faults < MaxFaults /\ faults' = faults + 1
    /\ act[a].pc = "reason"
    /\ act' = [act EXCEPT ![a].pc = "sides", ![a].side = NoSide]
    /\ UNCHANGED <<entry, analysis>>

EditSide(a) == \/ ReadDropped(a) \/ ReadLinked(a)
               \/ WriteRelations(a) \/ WriteAIRelations(a) \/ UnsetReason(a)

\* The timeline of a side gets its relation-added or relation-removed row.
Record(a) ==
    /\ act[a].pc = "record"
    /\ \E s \in Ready(a, act[a].rows) :
          /\ timeline' = [timeline EXCEPT ![s[1]][s[2]] = Wanted(a, s)]
          /\ act' = [act EXCEPT ![a].rows = @ \ {s}]
    /\ UNCHANGED <<relations, aiRelations, reasons, analysis, faults>>

-----------------------------------------------------------------------------
(* The handlers of an admin's relations.                                   *)

\* AddEntryRelationHandler refuses an entry as its own peer, reads the entry,
\* finds the peer; rows are for a link that the entry did not have so.
ReadToAdd(r) ==
    /\ act[r].pc = "new"
    /\ \E e, p \in Entries, t \in Types :
          LET both == {<<e, p>>, <<p, e>>} IN
          /\ e # p
          /\ act' = [act EXCEPT ![r] =
                       [Ended("sides") EXCEPT
                           !.op = "add", !.entry = e, !.want[p] = t,
                           !.link = both,
                           !.rows = IF relations[e][p] = t THEN {} ELSE both]]
    /\ UNCHANGED <<entry, analysis, faults>>

\* DeleteEntryRelationHandler reads the entry; rows are for a link it had.
\* RemoveEntryRelation is done at once when the entry is its own peer.
ReadToRemove(r) ==
    /\ act[r].pc = "new"
    /\ \E e, p \in Entries :
          LET both == {<<e, p>>, <<p, e>>} IN
          /\ e # p
          /\ act' = [act EXCEPT ![r] =
                       [Ended("sides") EXCEPT
                           !.op = "remove", !.entry = e, !.drop = both,
                           !.unset = both,
                           !.rows = IF relations[e][p] = "none" THEN {} ELSE both]]
    /\ UNCHANGED <<entry, analysis, faults>>

\* The two sides of a new link are written: the entry is taken from the analyzer.
Disable(r) ==
    /\ act[r].pc = "sides" /\ act[r].op = "add"
    /\ act[r].link = {}
    /\ status' = [status EXCEPT ![act[r].entry] = "disabled"]
    /\ act' = [act EXCEPT ![r].pc = "record"]
    /\ UNCHANGED <<entry, claim, claims, faults>>

\* The two sides of a link are dropped: both reasons are unset once more.
UnsetAgain(r) ==
    /\ act[r].pc = "sides" /\ act[r].drop = {}
    /\ \E s \in Ready(r, act[r].unset) :
          /\ reasons' = [reasons EXCEPT ![s[1]] = @ \ {s[2]}]
          /\ act' = [act EXCEPT ![r].unset = @ \ {s}]
    /\ UNCHANGED <<relations, aiRelations, timeline, analysis, faults>>

Unlinked(r) ==
    /\ act[r].pc = "sides" /\ act[r].op = "remove"
    /\ act[r].drop \cup act[r].unset = {}
    /\ act' = [act EXCEPT ![r].pc = "record"]
    /\ UNCHANGED <<entry, analysis, faults>>

\* The handler answers with the entry.
Answered(r) ==
    /\ act[r].pc = "record" /\ act[r].rows = {}
    /\ act' = [act EXCEPT ![r] = Ended("over")]
    /\ UNCHANGED <<entry, analysis, faults>>

Administer(r) == \/ ReadToAdd(r) \/ ReadToRemove(r) \/ EditSide(r)
                 \/ Disable(r) \/ UnsetAgain(r) \/ Unlinked(r)
                 \/ Record(r) \/ Answered(r)

\* A write fails, or the instance dies under the request.
Abort(r) ==
    /\ faults < MaxFaults /\ faults' = faults + 1
    /\ act[r].pc \notin {"new", "over"}
    /\ act' = [act EXCEPT ![r] = Ended("over")]
    /\ UNCHANGED <<entry, analysis>>

-----------------------------------------------------------------------------
(* The relation analyzer.  AI is switched on and off at any time: whether   *)
(* an instance's snapshot says so is left open wherever it is read.        *)

\* The filter of a claim: never decided on, and without relations.
NeedsAnalysis(e) ==
    status[e] \notin {"disabled", "done"} /\ Peers(relations[e]) = {}

\* processOne of an enabled worker claims any entry that needs analysis.
ClaimNext(w) ==
    /\ act[w].pc = "idle" /\ claims < MaxClaims /\ claims' = claims + 1
    /\ \E e \in Entries :
          /\ NeedsAnalysis(e)
          /\ claim[e] \in {"none", "expired"}
          /\ status' = [status EXCEPT ![e] = "pending"]
          /\ claim' = [claim EXCEPT ![e] = "live"]
          /\ act' = [act EXCEPT ![w].pc = "claimed", ![w].entry = e]
    /\ UNCHANGED <<entry, faults>>

\* SetEntryRelationAnalysis overwrites the whole sub-document; claimedat is zero
\* in what it writes.
SetEntryRelationAnalysis(w, newStatus, newReasons) ==
    LET e == act[w].entry IN
    /\ status' = [status EXCEPT ![e] = newStatus]
    /\ claim' = [claim EXCEPT ![e] = "none"]
    /\ reasons' = [reasons EXCEPT ![e] = newReasons]
    /\ act' = [act EXCEPT ![w] = Ended("idle")]
    /\ UNCHANGED <<relations, aiRelations, timeline, claims, faults>>

\* Process looks at the snapshot again: AI was switched off since, ...
Release(w) ==
    /\ act[w].pc = "claimed"
    /\ SetEntryRelationAnalysis(w, "unset", {})

\* ... or it is on; every other entry is a candidate; the first entry has none.
ListCandidates(w) ==
    /\ act[w].pc = "claimed"
    /\ IF Entries = {act[w].entry} THEN SetEntryRelationAnalysis(w, "done", {})
       ELSE /\ act' = [act EXCEPT ![w].pc = "calling"]
            /\ UNCHANGED <<entry, analysis, faults>>

\* The model answers.  What resolveRelationResults leaves of it has each
\* candidate at most once, with one of the types.
Answer(w) ==
    /\ act[w].pc = "calling"
    /\ \E want \in Links :
          /\ want[act[w].entry] = "none"
          /\ act' = [act EXCEPT ![w].pc = "existing", ![w].op = "analyze",
                                ![w].want = want]
    /\ UNCHANGED <<entry, analysis, faults>>

\* Mutated: a peer that has a link to the entry is taken as mirrored.
ReadExistingTrusting(w) ==
    LET e == act[w].entry  want == act[w].want  old == relations[e] IN
    /\ act[w].pc = "existing"
    /\ act' = [act EXCEPT
                 ![w].pc = "sides",
                 ![w].drop = {<<p, e>> : p \in Peers(old) \ Peers(want)},
                 ![w].link = {<<p, e>> : p \in {q \in Peers(want) :
                                                   relations[q][e] = "none"}}]
    /\ UNCHANGED <<entry, analysis, faults>>

\* SetEntryRelationsFromAnalyzer reads the entry.  applyRelationMirror drops the
\* peers that are not wanted, and links those that the entry did not have so.
ReadExisting(w) ==
    LET e == act[w].entry  want == act[w].want  old == relations[e] IN
    /\ act[w].pc = "existing"
    /\ act' = [act EXCEPT
                 ![w].pc = "sides",
                 ![w].drop = {<<p, e>> : p \in Peers(old) \ Peers(want)},
                 ![w].link = {<<p, e>> : p \in {q \in Peers(want) :
                                                   want[q] # old[q]}}]
    /\ UNCHANGED <<entry, analysis, faults>>

\* The peers mirror it: the entry's arrays are replaced, ...
SetRelations(w) ==
    /\ act[w].pc = "sides" /\ act[w].op = "analyze"
    /\ act[w].drop \cup act[w].link = {}
    /\ relations' = [relations EXCEPT ![act[w].entry] = act[w].want]
    /\ act' = [act EXCEPT ![w].pc = "ais"]
    /\ UNCHANGED <<aiRelations, reasons, timeline, analysis, faults>>

\* Mutated: the peers' timelines get no row.
SetAIRelationsOwnRows(w) ==
    LET e == act[w].entry IN
    /\ act[w].pc = "ais"
    /\ aiRelations' = [aiRelations EXCEPT ![e] = act[w].want]
    /\ act' = [act EXCEPT ![w].pc = "record",
                          ![w].rows = {<<e, p>> : p \in Peers(act[w].want)}]
    /\ UNCHANGED <<relations, reasons, timeline, analysis, faults>>

\* ... one after the other; both timelines get a relation-added row for each.
SetAIRelations(w) ==
    LET e == act[w].entry  new == Peers(act[w].want) IN
    /\ act[w].pc = "ais"
    /\ aiRelations' = [aiRelations EXCEPT ![e] = act[w].want]
    /\ act' = [act EXCEPT ![w].pc = "record",
                          ![w].rows = {<<e, p>> : p \in new}
                                      \cup {<<p, e>> : p \in new}]
    /\ UNCHANGED <<relations, reasons, timeline, analysis, faults>>

\* The insert of a row fails: its error is dropped.
SkipRow(w) ==
    /\ faults < MaxFaults /\ faults' = faults + 1
    /\ act[w].pc = "record"
    /\ \E s \in Ready(w, act[w].rows) :
          act' = [act EXCEPT ![w].rows = @ \ {s}]
    /\ UNCHANGED <<entry, analysis>>

Finish(w) ==
    /\ act[w].pc = "record" /\ act[w].rows = {}
    /\ SetEntryRelationAnalysis(w, "done", Peers(act[w].want))

\* One of the calls before the timeline fails: FailEntryRelationAnalysis writes
\* the status first and clears claimedat last.
FailStatus(w) ==
    /\ faults < MaxFaults /\ faults' = faults + 1
    /\ act[w].pc \in {"claimed", "calling", "existing", "sides", "relations",
                      "airelations", "reason", "ais"}
    /\ status' = [status EXCEPT ![act[w].entry] = "failed"]
    /\ act' = [act EXCEPT ![w] = [Ended("failing") EXCEPT
                                     !.entry = act[w].entry]]
    /\ UNCHANGED <<entry, claim, claims>>

FailClaim(w) ==
    /\ act[w].pc = "failing"
    /\ claim' = [claim EXCEPT ![act[w].entry] = "none"]
    /\ act' = [act EXCEPT ![w] = Ended("idle")]
    /\ UNCHANGED <<entry, status, claims, faults>>

\* The last write of a processing fails, or the instance dies and boots again:
\* the claim stays.
Abandon(w) ==
    /\ faults < MaxFaults /\ faults' = faults + 1
    /\ act[w].pc # "idle"
    /\ act' = [act EXCEPT ![w] = Ended("idle")]
    /\ UNCHANGED <<entry, analysis>>

\* A claim gets older than the TTL, which is longer than any call.
Expire(e) ==
    /\ claim[e] = "live"
    /\ \A w \in Workers : act[w].entry # e
    /\ claim' = [claim EXCEPT ![e] = "expired"]
    /\ UNCHANGED <<entry, status, claims, act, faults>>

Analyze(w) == \/ ClaimNext(w) \/ Release(w) \/ ListCandidates(w) \/ Answer(w)
              \/ EditSide(w) \/ SetRelations(w) \/ SetAIRelations(w)
              \/ Record(w) \/ Finish(w) \/ FailClaim(w)

-----------------------------------------------------------------------------
\* The entries whose arrays, reasons or rows an actor has read to write, or is
\* to write.
Reach(a) ==
    IF act[a].pc \in {"idle", "claimed", "calling", "existing", "failing",
                     "new", "over"} THEN {}
    ELSE ({act[a].entry} \cup Peers(act[a].want)
          \cup {s[1] : s \in act[a].drop \cup act[a].unset \cup act[a].rows
                             \cup {act[a].side}}) \ {NoEntry}

Writers(e) == {a \in Workers \cup Requests : e \in Reach(a)}

\* What the ghosts note of a step: on which entries two writers meet, and which
\* entries a writer leaves behind.
Observe(leaves) ==
    /\ met' = met \cup {e \in Entries : Cardinality(Writers(e)') > 1}
    /\ left' = left \cup leaves

Next ==
    \/ \E w \in Workers :
          \/ Analyze(w) /\ Observe({}) /\ UNCHANGED overtaken
          \/ /\ ReadExisting(w) /\ Observe({})
             /\ LET e == act[w].entry IN
                overtaken' = overtaken
                             \cup IF Peers(relations[e]) = {} THEN {}
                                  ELSE {e} \cup Peers(relations[e])
          \/ /\ SkipRow(w) \/ SkipUnset(w) \/ FailStatus(w) \/ Abandon(w)
             /\ Observe(Reach(w)) /\ UNCHANGED overtaken
    \/ \E e \in Entries : Expire(e) /\ Observe({}) /\ UNCHANGED overtaken
    \/ \E r \in Requests :
          \/ Administer(r) /\ Observe({}) /\ UNCHANGED overtaken
          \/ (SkipUnset(r) \/ Abort(r)) /\ Observe(Reach(r)) /\ UNCHANGED overtaken

Spec == Init /\ [][Next]_vars
-----------------------------------------------------------------------------
(* Properties.                                                             *)

\* Every variable stays in its type; an analyzer that is not idle has an entry.
TypeOK ==
    /\ relations \in [Entries -> Links]
    /\ aiRelations \in [Entries -> Links]
    /\ reasons \in [Entries -> SUBSET Entries]
    /\ timeline \in [Entries -> Links]
    /\ status \in [Entries -> {"unset", "pending", "done", "failed", "disabled"}]
    /\ claim \in [Entries -> {"none", "live", "expired"}]
    /\ \A w \in Workers : act[w].pc = "idle" <=> act[w].entry = NoEntry
    /\ \A a \in Workers \cup Requests :
          /\ act[a].want \in Links
          /\ act[a].drop \cup act[a].link \cup act[a].unset \cup act[a].rows
             \subseteq Entries \X Entries
          /\ act[a].rels \in Links /\ act[a].ais \in Links
          /\ act[a].pc \in {"relations", "airelations", "reason"}
             <=> act[a].side # NoSide
    /\ faults \in 0..MaxFaults
    /\ claims \in 0..MaxClaims
    /\ met \cup left \cup overtaken \subseteq Entries

\* No writer is at the entry, no two ever met there and none failed there.
Settled(e) == Writers(e) = {} /\ e \notin met \cup left

\* A link is on both of its entries, with one type, through every sequence of
\* analyses and of links made, retyped and removed in which no two writers met on
\* the entries and none died on them (entry.go:618-621, "mirrors the symmetric
\* pair onto peerEntryID").
LinksAreMutual ==
    \A e, p \in Entries :
        Settled(e) /\ Settled(p) => relations[e][p] = relations[p][e]

\* In the same sequences, only a link that an entry has is flagged as the
\* analyzer's, and a reason exists only for a flagged link (entry.go:835-838).
FlagsInLockstep ==
    \A e \in Entries :
        Settled(e) =>
            \A p \in Entries :
                /\ aiRelations[e][p] \in {"none", relations[e][p]}
                /\ p \in reasons[e] => aiRelations[e][p] # "none"

\* In the same sequences, both timelines show the links there are, and both
\* sides of a link agree on who made it; but for an entry that an admin linked
\* while the model was being called.
SidesAgree ==
    \A e, p \in Entries :
        Settled(e) /\ Settled(p) /\ {e, p} \cap overtaken = {} =>
            /\ timeline[e][p] = relations[e][p]
            /\ aiRelations[e][p] = aiRelations[p][e]

\* An analysis that ends well, be it the retry of one that failed or died
\* half-way, leaves every link of the entry on both sides, unless writers met.
RetryMends ==
    [][\A w \in Workers :
          LET e == act[w].entry IN
          Finish(w) /\ e \notin overtaken
          => \A p \in Peers(relations[e]) :
                {e, p} \cap met = {} => relations[p][e] = relations[e][p]]_vars
=============================================================================
