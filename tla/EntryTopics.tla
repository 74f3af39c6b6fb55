---------------------------- MODULE EntryTopics -----------------------------
(***************************************************************************)
(* The topics of entries.  A topic analyzer on every instance claims an    *)
(* entry without topics, asks the model for one, creates it if it is new,  *)
(* and applies it; admins choose the topics of an entry, and create,       *)
(* rename and delete topics.  An entry keeps its topics in one array, the  *)
(* ones the analyzer applied in a second, their reasons in a third, and    *)
(* every change is a row of its timeline: each is written by a call of its *)
(* own.  Entries were submitted before; they start without topics.         *)
(***************************************************************************)
EXTENDS Integers, FiniteSets

CONSTANTS Workers,         \* instances, each with one topic analyzer
          Requests,        \* requests of the Console
          Entries,
          TopicIDs,        \* the uuids that new topics get
          Titles,          \* titles, equal up to case
          NoEntry, NoTitle, NoTopic,
          MaxFaults        \* bound: failed calls and writes, crashes

ASSUME ConstantsAssumption == /\ NoEntry \notin Entries
                              /\ NoTitle \notin Titles
                              /\ NoTopic \notin TopicIDs
                              /\ Workers \cap Requests = {}
                              /\ MaxFaults \in Nat

VARIABLES title,      \* the topics collection: NoTitle when there is no record
          unused,     \* the ids no topic has had yet
          topicIDs,   \* Entry.TopicIDs
          aiTopicIDs, \* Entry.AITopicIDs
          reasons,    \* the keys of TopicAnalysis.SuggestedTopicReasons
          replay,     \* the topics the timeline shows: added and not removed
          status,     \* TopicAnalysis.Status; "unset" is its zero value
          claim,      \* TopicAnalysis.ClaimedAt: zero, within the TTL, older
          enabled,    \* the instances whose snapshot says that AI is enabled
          wrk,        \* what each analyzer is doing
          req,        \* what each request is doing
          faults,
          applied,    \* what the analyzer ever applied (no code reads it)
          contested,  \* entries that two writers met on, or one died on
          crossed     \* titles that two writers looked up before either wrote

records == <<title, unused>>
entry == <<topicIDs, aiTopicIDs, reasons, replay>>
analysis == <<status, claim>>
ghosts == <<applied, contested, crossed>>
vars == <<records, entry, analysis, enabled, wrk, req, faults, ghosts>>

\* What an analyzer and a request remember between their calls.
NoWork == [pc |-> "idle", entry |-> NoEntry, listed |-> {}, title |-> NoTitle,
           chosen |-> {}]

Ended(pc) == [pc |-> pc, entry |-> NoEntry, topic |-> NoTopic,
              title |-> NoTitle, wanted |-> {}, ai |-> {}, why |-> {},
              added |-> {}, removed |-> {}, sweep |-> {}]

Init == /\ title = [t \in TopicIDs |-> NoTitle]
        /\ unused = TopicIDs
        /\ topicIDs = [e \in Entries |-> {}]
        /\ aiTopicIDs = [e \in Entries |-> {}]
        /\ reasons = [e \in Entries |-> {}]
        /\ replay = [e \in Entries |-> {}]
        /\ status = [e \in Entries |-> "unset"]
        /\ claim = [e \in Entries |-> "none"]
        /\ enabled \in SUBSET Workers
        /\ wrk = [w \in Workers |-> NoWork]
        /\ req = [r \in Requests |-> Ended("new")]
        /\ faults = 0
        /\ applied = [e \in Entries |-> {}]
        /\ contested = {}
        /\ crossed = {}

Topics == {t \in TopicIDs : title[t] # NoTitle}
Titled(n) == {t \in Topics : title[t] = n}

\* Bound: nobody starts to create a topic that TopicIDs has no id for.
IdsLeft == Cardinality(unused)
           > Cardinality({w \in Workers : wrk[w].pc \in {"lookup", "insert"}})
             + Cardinality({r \in Requests : req[r].pc = "create"})

-----------------------------------------------------------------------------
(* The analyzer.                                                           *)

\* Refresh: the instance's snapshot is read again from the settings.
Refresh(w) ==
    /\ \/ enabled' = enabled \cup {w}
       \/ enabled' = enabled \ {w}
    /\ UNCHANGED <<records, entry, analysis, wrk, req, faults, applied>>

\* Mutated: the filter does not look at the status.
NeedsAnalysisAgain(e) == topicIDs[e] = {}

\* Mutated: the filter takes an entry whose analysis began as decided on.
NeedsAnalysisUnlessPending(e) ==
    status[e] \in {"unset", "failed"} /\ topicIDs[e] = {}

\* The filter of a claim: never decided on, and without topics.
NeedsAnalysis(e) == status[e] \notin {"disabled", "done"} /\ topicIDs[e] = {}

\* processOne of an enabled worker claims any entry that needs analysis.
ClaimNext(w) ==
    /\ wrk[w].pc = "idle" /\ w \in enabled
    /\ \E e \in Entries :
          /\ NeedsAnalysis(e)
          /\ claim[e] \in {"none", "expired"}
          /\ status' = [status EXCEPT ![e] = "pending"]
          /\ claim' = [claim EXCEPT ![e] = "live"]
          /\ wrk' = [wrk EXCEPT ![w].pc = "claimed", ![w].entry = e]
    /\ UNCHANGED <<records, entry, enabled, req, faults, applied>>

\* SetEntryTopicAnalysis overwrites the whole sub-document; claimedat is zero in
\* what it writes.
SetEntryTopicAnalysis(w, newStatus, newReasons) ==
    LET e == wrk[w].entry IN
    /\ status' = [status EXCEPT ![e] = newStatus]
    /\ claim' = [claim EXCEPT ![e] = "none"]
    /\ reasons' = [reasons EXCEPT ![e] = newReasons]
    /\ wrk' = [wrk EXCEPT ![w] = NoWork]
    /\ UNCHANGED <<records, topicIDs, aiTopicIDs, replay, enabled, req, faults,
                   applied>>

\* Process looks at the snapshot again: AI was switched off since, ...
Release(w) ==
    /\ wrk[w].pc = "claimed" /\ w \notin enabled
    /\ SetEntryTopicAnalysis(w, "unset", {})

\* ... or it is on, and the topics are listed for the prompt.
ListTopics(w) ==
    /\ wrk[w].pc = "claimed" /\ w \in enabled
    /\ wrk' = [wrk EXCEPT ![w].pc = "calling",
                          ![w].listed = {<<t, title[t]>> : t \in Topics}]
    /\ UNCHANGED <<records, entry, analysis, enabled, req, faults, applied>>

\* The model names a listed topic, whose id is taken from the list, or it names
\* one that is not listed and not new, or none: then there is no topic.
AnswerListed(w) ==
    /\ wrk[w].pc = "calling"
    /\ \/ \E known \in wrk[w].listed :
             wrk' = [wrk EXCEPT ![w].pc = "topicids",
                                ![w].chosen = {known[1]}]
       \/ wrk' = [wrk EXCEPT ![w].pc = "topicids"]
    /\ UNCHANGED <<records, entry, analysis, enabled, req, faults, applied>>

\* It invents a topic with a title that was not listed.
AnswerNew(w) ==
    /\ wrk[w].pc = "calling" /\ IdsLeft
    /\ \E n \in Titles :
          /\ \A known \in wrk[w].listed : known[2] # n
          /\ wrk' = [wrk EXCEPT ![w].pc = "lookup", ![w].title = n]
    /\ UNCHANGED <<records, entry, analysis, enabled, req, faults, applied>>

\* FindEntryTopicByTitle, through QueryOne: the topic if there is exactly one.
FoundByTitle(n) == IF Cardinality(Titled(n)) = 1 THEN Titled(n) ELSE {}

\* Mutated: the title is not looked up once more.
LookupSkipped(w) ==
    /\ wrk[w].pc = "lookup"
    /\ wrk' = [wrk EXCEPT ![w].pc = "insert"]
    /\ UNCHANGED <<records, entry, analysis, enabled, req, faults, applied>>

\* resolveOrCreateTopic looks the new title up once more, ...
Lookup(w) ==
    /\ wrk[w].pc = "lookup"
    /\ IF FoundByTitle(wrk[w].title) # {}
       THEN wrk' = [wrk EXCEPT ![w].pc = "topicids", ![w].title = NoTitle,
                               ![w].chosen = FoundByTitle(wrk[w].title)]
       ELSE wrk' = [wrk EXCEPT ![w].pc = "insert"]
    /\ UNCHANGED <<records, entry, analysis, enabled, req, faults, applied>>

InsertEntryTopic(t, n) ==
    /\ t \in unused
    /\ title' = [title EXCEPT ![t] = n]
    /\ unused' = unused \ {t}

\* ... and inserts it.
InsertNew(w) ==
    /\ wrk[w].pc = "insert"
    /\ \E t \in TopicIDs :
          /\ InsertEntryTopic(t, wrk[w].title)
          /\ wrk' = [wrk EXCEPT ![w].pc = "topicids", ![w].title = NoTitle,
                                ![w].chosen = {t}]
    /\ UNCHANGED <<entry, analysis, enabled, req, faults, applied>>

\* SetEntryTopicsFromAnalyzer writes topicids, and then aitopicids.
WriteTopicIDs(w) ==
    LET e == wrk[w].entry IN
    /\ wrk[w].pc = "topicids"
    /\ topicIDs' = [topicIDs EXCEPT ![e] = wrk[w].chosen]
    /\ applied' = [applied EXCEPT ![e] = @ \cup wrk[w].chosen]
    /\ wrk' = [wrk EXCEPT ![w].pc = "aitopicids"]
    /\ UNCHANGED <<records, aiTopicIDs, reasons, replay, analysis, enabled, req,
                   faults>>

WriteAITopicIDs(w) ==
    /\ wrk[w].pc = "aitopicids"
    /\ aiTopicIDs' = [aiTopicIDs EXCEPT ![wrk[w].entry] = wrk[w].chosen]
    /\ wrk' = [wrk EXCEPT ![w].pc = "record"]
    /\ UNCHANGED <<records, topicIDs, reasons, replay, analysis, enabled, req,
                   faults, applied>>

\* The timeline gets a topic-added row.
Record(w) ==
    /\ wrk[w].pc = "record"
    /\ replay' = [replay EXCEPT ![wrk[w].entry] = @ \cup wrk[w].chosen]
    /\ wrk' = [wrk EXCEPT ![w].pc = "finish"]
    /\ UNCHANGED <<records, topicIDs, aiTopicIDs, reasons, analysis, enabled,
                   req, faults, applied>>

\* That insert fails: its error is dropped.
SkipRecord(w) ==
    /\ faults < MaxFaults /\ faults' = faults + 1
    /\ wrk[w].pc = "record"
    /\ wrk' = [wrk EXCEPT ![w].pc = "finish"]
    /\ UNCHANGED <<records, entry, analysis, enabled, req, applied>>

Finish(w) ==
    /\ wrk[w].pc = "finish"
    /\ SetEntryTopicAnalysis(w, "done", wrk[w].chosen)

\* One of the calls before the timeline fails: FailEntryTopicAnalysis writes the
\* status first and clears claimedat last.
FailStatus(w) ==
    /\ faults < MaxFaults /\ faults' = faults + 1
    /\ wrk[w].pc \in {"claimed", "calling", "lookup", "insert", "topicids",
                      "aitopicids"}
    /\ wrk[w].pc = "claimed" => w \in enabled
    /\ status' = [status EXCEPT ![wrk[w].entry] = "failed"]
    /\ wrk' = [wrk EXCEPT ![w].pc = "failing"]
    /\ UNCHANGED <<records, entry, claim, enabled, req, applied>>

FailClaim(w) ==
    /\ wrk[w].pc = "failing"
    /\ claim' = [claim EXCEPT ![wrk[w].entry] = "none"]
    /\ wrk' = [wrk EXCEPT ![w] = NoWork]
    /\ UNCHANGED <<records, entry, status, enabled, req, faults, applied>>

\* The last write of a processing fails, or the instance dies and boots again:
\* the claim stays.
Abandon(w) ==
    /\ faults < MaxFaults /\ faults' = faults + 1
    /\ wrk[w].pc # "idle"
    /\ wrk' = [wrk EXCEPT ![w] = NoWork]
    /\ UNCHANGED <<records, entry, analysis, enabled, req, applied>>

Analyzer(w) == \/ ClaimNext(w)
               \/ Release(w)
               \/ ListTopics(w)
               \/ AnswerListed(w)
               \/ AnswerNew(w)
               \/ Lookup(w)
               \/ InsertNew(w)
               \/ WriteTopicIDs(w)
               \/ WriteAITopicIDs(w)
               \/ Record(w)
               \/ Finish(w)
               \/ FailClaim(w)

Unattended(e) == \A w \in Workers : wrk[w].entry # e

\* A claim gets older than the TTL, also under a call that is still running: no
\* deadline is set on the call to the model.
Expire(e) ==
    /\ claim[e] = "live"
    /\ claim' = [claim EXCEPT ![e] = "expired"]
    /\ UNCHANGED <<records, entry, status, enabled, wrk, req, faults, applied>>

-----------------------------------------------------------------------------
(* Choosing the topics of an entry: UpdateEntryHandler and SetEntryTopics. *)

\* Mutated: the difference is taken the wrong way round.
ReadEntrySwapped(r) ==
    /\ req[r].pc = "new"
    /\ \E e \in Entries, wanted \in SUBSET TopicIDs :
          req' = [req EXCEPT ![r] =
                    [Ended("resolve") EXCEPT !.entry = e, !.wanted = wanted,
                                             !.removed = wanted \ topicIDs[e],
                                             !.added = topicIDs[e] \ wanted]]
    /\ UNCHANGED <<records, entry, analysis, enabled, wrk, faults, applied>>

\* The handler reads the entry; it is asked to give it the topics wanted.
ReadEntry(r) ==
    /\ req[r].pc = "new"
    /\ \E e \in Entries, wanted \in SUBSET TopicIDs :
          req' = [req EXCEPT ![r] =
                    [Ended("resolve") EXCEPT !.entry = e, !.wanted = wanted,
                                             !.added = wanted \ topicIDs[e],
                                             !.removed = topicIDs[e] \ wanted]]
    /\ UNCHANGED <<records, entry, analysis, enabled, wrk, faults, applied>>

\* Mutated: unknown topics are not refused.
ResolveUnknown(r) ==
    /\ req[r].pc = "resolve"
    /\ IF req[r].added \cup req[r].removed # {}
       THEN req' = [req EXCEPT ![r].pc = "reread"]
       ELSE req' = [req EXCEPT ![r] = Ended("over")]
    /\ UNCHANGED <<records, entry, analysis, enabled, wrk, faults, applied>>

\* resolveTopicIDs refuses an unknown topic; a list that changes nothing is not
\* written.
Resolve(r) ==
    /\ req[r].pc = "resolve"
    /\ IF req[r].wanted \subseteq Topics
          /\ req[r].added \cup req[r].removed # {}
       THEN req' = [req EXCEPT ![r].pc = "reread"]
       ELSE req' = [req EXCEPT ![r] = Ended("over")]
    /\ UNCHANGED <<records, entry, analysis, enabled, wrk, faults, applied>>

\* Mutated: the flags are not intersected with the new topics.
RereadFlags(r) ==
    /\ req[r].pc = "reread"
    /\ req' = [req EXCEPT ![r].pc = "topicids",
                          ![r].ai = aiTopicIDs[req[r].entry],
                          ![r].why = reasons[req[r].entry]]
    /\ UNCHANGED <<records, entry, analysis, enabled, wrk, faults, applied>>

\* Mutated: the new topics of a flagged entry are flagged.
RereadWanted(r) ==
    /\ req[r].pc = "reread"
    /\ req' = [req EXCEPT ![r].pc = "topicids",
                          ![r].ai = IF aiTopicIDs[req[r].entry] = {} THEN {}
                                    ELSE req[r].wanted,
                          ![r].why = reasons[req[r].entry] \cap req[r].wanted]
    /\ UNCHANGED <<records, entry, analysis, enabled, wrk, faults, applied>>

\* SetEntryTopics reads the entry again: the topics it keeps stay flagged, and
\* their reasons stay.
Reread(r) ==
    LET kept == aiTopicIDs[req[r].entry] \cap req[r].wanted IN
    /\ req[r].pc = "reread"
    /\ req' = [req EXCEPT ![r].pc = "topicids", ![r].ai = kept,
                          ![r].why = reasons[req[r].entry] \cap kept]
    /\ UNCHANGED <<records, entry, analysis, enabled, wrk, faults, applied>>

SetTopicIDs(r) ==
    /\ req[r].pc = "topicids"
    /\ topicIDs' = [topicIDs EXCEPT ![req[r].entry] = req[r].wanted]
    /\ req' = [req EXCEPT ![r].pc = "aitopicids"]
    /\ UNCHANGED <<records, aiTopicIDs, reasons, replay, analysis, enabled, wrk,
                   faults, applied>>

SetAITopicIDs(r) ==
    /\ req[r].pc = "aitopicids"
    /\ aiTopicIDs' = [aiTopicIDs EXCEPT ![req[r].entry] = req[r].ai]
    /\ req' = [req EXCEPT ![r].pc = "reasons"]
    /\ UNCHANGED <<records, topicIDs, reasons, replay, analysis, enabled, wrk,
                   faults, applied>>

\* Only an entry that gets topics is taken from the analyzer.
SetReasons(r) ==
    /\ req[r].pc = "reasons"
    /\ reasons' = [reasons EXCEPT ![req[r].entry] = req[r].why]
    /\ req' = [req EXCEPT ![r].pc = IF req[r].wanted = {} THEN "record"
                                    ELSE "disable"]
    /\ UNCHANGED <<records, topicIDs, aiTopicIDs, replay, analysis, enabled, wrk,
                   faults, applied>>

Disable(r) ==
    /\ req[r].pc = "disable"
    /\ status' = [status EXCEPT ![req[r].entry] = "disabled"]
    /\ req' = [req EXCEPT ![r].pc = "record"]
    /\ UNCHANGED <<records, entry, claim, enabled, wrk, faults, applied>>

\* A topic-added or topic-removed row for every difference.
RecordAdded(r) ==
    /\ req[r].pc = "record"
    /\ \E t \in req[r].added :
          /\ replay' = [replay EXCEPT ![req[r].entry] = @ \cup {t}]
          /\ req' = [req EXCEPT ![r].added = @ \ {t}]
    /\ UNCHANGED <<records, topicIDs, aiTopicIDs, reasons, analysis, enabled,
                   wrk, faults, applied>>

RecordRemoved(r) ==
    /\ req[r].pc = "record" /\ req[r].added = {}
    /\ \E t \in req[r].removed :
          /\ replay' = [replay EXCEPT ![req[r].entry] = @ \ {t}]
          /\ req' = [req EXCEPT ![r].removed = @ \ {t}]
    /\ UNCHANGED <<records, topicIDs, aiTopicIDs, reasons, analysis, enabled,
                   wrk, faults, applied>>

Recorded(r) ==
    /\ req[r].pc = "record" /\ req[r].added \cup req[r].removed = {}
    /\ req' = [req EXCEPT ![r] = Ended("over")]
    /\ UNCHANGED <<records, entry, analysis, enabled, wrk, faults, applied>>

SetTopics(r) == \/ ReadEntry(r) \/ Resolve(r) \/ Reread(r)
                \/ SetTopicIDs(r) \/ SetAITopicIDs(r) \/ SetReasons(r)
                \/ Disable(r)
                \/ RecordAdded(r) \/ RecordRemoved(r) \/ Recorded(r)

-----------------------------------------------------------------------------
(* Administering the topics.                                               *)

\* CreateEntryTopicHandler refuses a title it finds, ...
LookupCreated(r) ==
    /\ req[r].pc = "new" /\ IdsLeft
    /\ \E n \in Titles :
          req' = [req EXCEPT ![r] = IF FoundByTitle(n) # {} THEN Ended("over")
                                    ELSE [Ended("create") EXCEPT !.title = n]]
    /\ UNCHANGED <<records, entry, analysis, enabled, wrk, faults, applied>>

\* ... and inserts the topic.
InsertCreated(r) ==
    /\ req[r].pc = "create"
    /\ \E t \in TopicIDs : InsertEntryTopic(t, req[r].title)
    /\ req' = [req EXCEPT ![r] = Ended("over")]
    /\ UNCHANGED <<entry, analysis, enabled, wrk, faults, applied>>

\* UpdateEntryTopicHandler reads the topic, and looks the new title up unless
\* the topic has it, ...
ReadRenamed(r) ==
    /\ req[r].pc = "new"
    /\ \E t \in Topics, n \in Titles :
          req' = [req EXCEPT ![r] =
                    [Ended(IF title[t] = n THEN "retitle" ELSE "find")
                        EXCEPT !.topic = t, !.title = n]]
    /\ UNCHANGED <<records, entry, analysis, enabled, wrk, faults, applied>>

LookupRenamed(r) ==
    /\ req[r].pc = "find"
    /\ req' = [req EXCEPT ![r] =
                 IF FoundByTitle(req[r].title) \subseteq {req[r].topic}
                 THEN [@ EXCEPT !.pc = "retitle"] ELSE Ended("over")]
    /\ UNCHANGED <<records, entry, analysis, enabled, wrk, faults, applied>>

\* ... and sets it by the id, which does nothing once the topic is deleted.
Retitle(r) ==
    /\ req[r].pc = "retitle"
    /\ title' = IF req[r].topic \in Topics
                THEN [title EXCEPT ![req[r].topic] = req[r].title] ELSE title
    /\ req' = [req EXCEPT ![r] = Ended("over")]
    /\ UNCHANGED <<unused, entry, analysis, enabled, wrk, faults, applied>>

\* DeleteEntryTopicHandler finds the topic, ...
ReadDeleted(r) ==
    /\ req[r].pc = "new"
    /\ \E t \in Topics :
          req' = [req EXCEPT ![r] = [Ended("sweep") EXCEPT
                                        !.topic = t,
                                        !.sweep = {"pull", "unset"}]]
    /\ UNCHANGED <<records, entry, analysis, enabled, wrk, faults, applied>>

\* ... sweeps its id from the entries with an unordered bulk of two updates, ...
Pull(r) ==
    /\ req[r].pc = "sweep" /\ "pull" \in req[r].sweep
    /\ topicIDs' = [e \in Entries |-> topicIDs[e] \ {req[r].topic}]
    /\ aiTopicIDs' = [e \in Entries |-> aiTopicIDs[e] \ {req[r].topic}]
    /\ req' = [req EXCEPT ![r].sweep = @ \ {"pull"}]
    /\ UNCHANGED <<records, reasons, replay, analysis, enabled, wrk, faults,
                   applied>>

UnsetReason(r) ==
    /\ req[r].pc = "sweep" /\ "unset" \in req[r].sweep
    /\ reasons' = [e \in Entries |-> reasons[e] \ {req[r].topic}]
    /\ req' = [req EXCEPT ![r].sweep = @ \ {"unset"}]
    /\ UNCHANGED <<records, topicIDs, aiTopicIDs, replay, analysis, enabled,
                   wrk, faults, applied>>

\* (BulkUpdate reports no error when the server fails one of them) ...
SkipSweep(r) ==
    /\ faults < MaxFaults /\ faults' = faults + 1
    /\ req[r].pc = "sweep"
    /\ \E part \in req[r].sweep :
          req' = [req EXCEPT ![r].sweep = @ \ {part}]
    /\ UNCHANGED <<records, entry, analysis, enabled, wrk, applied>>

\* ... and deletes the record.
DeleteRecord(r) ==
    /\ req[r].pc = "sweep" /\ req[r].sweep = {}
    /\ title' = [title EXCEPT ![req[r].topic] = NoTitle]
    /\ req' = [req EXCEPT ![r] = Ended("over")]
    /\ UNCHANGED <<unused, entry, analysis, enabled, wrk, faults, applied>>

AdministerTopics(r) == \/ LookupCreated(r) \/ InsertCreated(r)
                       \/ ReadRenamed(r) \/ LookupRenamed(r) \/ Retitle(r)
                       \/ ReadDeleted(r) \/ Pull(r) \/ UnsetReason(r)
                       \/ DeleteRecord(r)

\* A write fails, or the instance dies under the request.
AbortRequest(r) ==
    /\ req[r].pc \notin {"new", "over"}
    /\ req' = [req EXCEPT ![r] = Ended("over")]
    /\ UNCHANGED <<records, entry, analysis, enabled, wrk, faults, applied>>

-----------------------------------------------------------------------------
\* The entries that a request in flight may write, or leave half-written.
Reach(r) == IF req[r].pc = "sweep" THEN Entries ELSE {req[r].entry} \ {NoEntry}

Writers(e) == {w \in Workers : wrk[w].entry = e}
              \cup {r \in Requests : e \in Reach(r)}

\* Who has looked a title up and is to write it.
TitleWriters(n) ==
    {w \in Workers : wrk[w].pc = "insert" /\ wrk[w].title = n}
    \cup {r \in Requests : /\ req[r].pc \in {"create", "find", "retitle"}
                           /\ req[r].title = n}

\* What the ghosts note of a step: on which entries and titles two writers meet,
\* and which entries a writer leaves behind.
Observe(left) ==
    /\ contested' = contested \cup left
                    \cup {e \in Entries : Cardinality(Writers(e)') > 1}
    /\ crossed' = crossed \cup {n \in Titles : Cardinality(TitleWriters(n)') > 1}

Next == \/ \E w \in Workers :
              \/ (Analyzer(w) \/ Refresh(w)) /\ Observe({})
              \/ FailStatus(w)
                 /\ Observe(IF wrk[w].pc = "aitopicids" THEN {wrk[w].entry}
                            ELSE {})
              \/ (SkipRecord(w) \/ Abandon(w)) /\ Observe({wrk[w].entry})
        \/ \E e \in Entries : Expire(e) /\ Observe({})
        \/ \E r \in Requests :
              \/ (SetTopics(r) \/ AdministerTopics(r)) /\ Observe({})
              \/ (SkipSweep(r) \/ AbortRequest(r)) /\ Observe(Reach(r))

Spec == Init /\ [][Next]_vars

\* The poller is a goroutine on a ticker, and its calls return in the end, with
\* an answer or an error; time passes.
FairSpec == /\ Spec
            /\ \A w \in Workers : WF_vars(Analyzer(w) /\ Observe({}))
            /\ \A e \in Entries : WF_vars(Expire(e) /\ Observe({}))
-----------------------------------------------------------------------------
(* Properties.                                                             *)

\* What an analyzer may remember, and a request.
WorkType == [pc : {"idle", "claimed", "calling", "lookup", "insert", "topicids",
                   "aitopicids", "record", "finish", "failing"},
             entry : Entries \cup {NoEntry},
             listed : SUBSET (TopicIDs \X Titles),
             title : Titles \cup {NoTitle},
             chosen : SUBSET TopicIDs]

RequestType == [pc : {"new", "resolve", "reread", "topicids", "aitopicids",
                      "reasons", "disable", "record", "create", "find",
                      "retitle", "sweep", "over"},
                entry : Entries \cup {NoEntry},
                topic : TopicIDs \cup {NoTopic},
                title : Titles \cup {NoTitle},
                wanted : SUBSET TopicIDs, ai : SUBSET TopicIDs,
                why : SUBSET TopicIDs, added : SUBSET TopicIDs,
                removed : SUBSET TopicIDs, sweep : SUBSET {"pull", "unset"}]

\* Every variable stays in its type; exactly an analyzer that is not idle has
\* an entry to work on.
TypeOK ==
    /\ title \in [TopicIDs -> Titles \cup {NoTitle}]
    /\ unused \in SUBSET TopicIDs
    /\ topicIDs \in [Entries -> SUBSET TopicIDs]
    /\ aiTopicIDs \in [Entries -> SUBSET TopicIDs]
    /\ reasons \in [Entries -> SUBSET TopicIDs]
    /\ replay \in [Entries -> SUBSET TopicIDs]
    /\ status \in [Entries -> {"unset", "pending", "done", "failed", "disabled"}]
    /\ claim \in [Entries -> {"none", "live", "expired"}]
    /\ enabled \in SUBSET Workers
    /\ wrk \in [Workers -> WorkType]
    /\ \A w \in Workers : wrk[w].pc = "idle" <=> wrk[w].entry = NoEntry
    /\ req \in [Requests -> RequestType]
    /\ faults \in 0..MaxFaults
    /\ applied \in [Entries -> SUBSET TopicIDs]
    /\ contested \in SUBSET Entries
    /\ crossed \in SUBSET Titles

Quiet(e) == Writers(e) = {} /\ e \notin contested

\* The AI flags and the reasons mirror each other and the entry's topics,
\* through every sequence of analyses, choices and deletions in which no two
\* writers met on the entry and none died on it (entry.go:456-462).
FlagsInLockstep ==
    \A e \in Entries : Quiet(e) => /\ aiTopicIDs[e] \subseteq topicIDs[e]
                                   /\ reasons[e] = aiTopicIDs[e]

\* In the same sequences, no entry keeps the id of a deleted topic
\* (entry_topic.go:178-181).
NothingDangles ==
    \A e \in Entries : Quiet(e) => topicIDs[e] \subseteq Topics

\* In the same sequences, the timeline replays to the topics of the entry, but
\* for the topics that were deleted since.
TimelineReplays ==
    \A e \in Entries : Quiet(e) => replay[e] \cap Topics = topicIDs[e]

\* Whatever overlaps or fails, only a topic that the analyzer has applied to the
\* entry carries its flag or its reason ("topics the admin adds are NOT
\* AI-flagged", entry.go:459).
FlagsAreGenuine ==
    \A e \in Entries : aiTopicIDs[e] \cup reasons[e] \subseteq applied[e]

\* Titles are unique, through every overlap but that of two writers of the one
\* title (create_entry_topic.go:46-49, topic_analyzer.go:194-196).
TitlesUnique == \A n \in Titles \ crossed : Cardinality(Titled(n)) <= 1

\* The analyzer has one shot at an entry: once it was decided on and nobody is
\* processing it, it stays decided, though an admin clear its topics or a
\* deletion empty them (entry.go:551-553).
OneShot ==
    [][\A e \in Entries :
          status[e] \in {"disabled", "done"} /\ Unattended(e)
          => status'[e] \in {"disabled", "done"}]_vars

\* As long as AI is in the end on everywhere, every entry is decided on or has
\* topics, and no claim stays, whatever failed or crashed on the way.
QueueDrains ==
    <>[](enabled = Workers)
    => <>[](\A e \in Entries :
               /\ status[e] \in {"disabled", "done"} \/ topicIDs[e] # {}
               /\ claim[e] # "live")
=============================================================================
