------------------------- MODULE EntryTopicsProofs --------------------------
(***************************************************************************)
(* Proofs about EntryTopics, for every value of its constants: any numbers *)
(* of instances, requests, entries, topics and titles.                     *)
(***************************************************************************)
EXTENDS EntryTopics, FiniteSetTheorems, TLAPS

\* A set of one member at most, by its members and by its size.
LEMMA AtMostOne ==
    ASSUME NEW S PROVE (\A a, b \in S : a = b) => Cardinality(S) <= 1
<1> SUFFICES ASSUME \A a, b \in S : a = b PROVE Cardinality(S) <= 1
  OBVIOUS
<1>1. CASE S = {}
  BY <1>1, FS_EmptySet
<1>2. CASE S # {}
  <2>1. PICK a \in S : TRUE
    BY <1>2
  <2>2. S = {a}
    BY <2>1
  <2> QED
    BY <2>2, FS_Singleton
<1> QED
  BY <1>1, <1>2

\* A finite set that counts at most one.
LEMMA CountedOne ==
    ASSUME NEW S, IsFiniteSet(S), ~(Cardinality(S) > 1), NEW a \in S, NEW b \in S
    PROVE  a = b
<1> SUFFICES ASSUME a # b PROVE FALSE
  OBVIOUS
<1>1. {a, b} \subseteq S
  OBVIOUS
<1>2. IsFiniteSet({a}) /\ Cardinality({a}) = 1
  BY FS_Singleton
<1>3. {a, b} = {a} \cup {b} /\ b \notin {a}
  OBVIOUS
<1>4. IsFiniteSet({a, b}) /\ Cardinality({a, b}) = 2
  BY <1>2, <1>3, FS_AddElement
<1>5. Cardinality({a, b}) <= Cardinality(S)
  BY <1>1, <1>4, FS_Subset
<1>6. Cardinality(S) \in Nat
  BY FS_CardinalityType
<1> QED
  BY <1>4, <1>5, <1>6

-----------------------------------------------------------------------------
(* Typing.                                                                 *)

\* What an analyzer, and a request, carries where it stands.
WorkFits(x) == /\ x.pc \in {"lookup", "insert"} => x.title \in Titles
               /\ x.pc = "idle" => x.listed = {} /\ x.chosen = {}

Choosing == {"resolve", "reread", "topicids", "aitopicids", "reasons", "disable",
             "record"}

RequestFits(x) ==
    /\ x.pc \in Choosing <=> x.entry \in Entries
    /\ x.pc \in {"create", "find", "retitle"} => x.title \in Titles
    /\ x.pc \in {"find", "retitle", "sweep"} => x.topic \in TopicIDs

Busy == {w \in Workers : wrk[w].pc # "idle"}
Begun == {r \in Requests : req[r].pc # "new"}

TypeInv == /\ TypeOK
           /\ \A w \in Workers : WorkFits(wrk[w])
           /\ \A r \in Requests : RequestFits(req[r])
           /\ IsFiniteSet(Busy) /\ IsFiniteSet(Begun)

LEMMA Apart == /\ NoEntry \notin Entries /\ NoTitle \notin Titles
               /\ NoTopic \notin TopicIDs
               /\ \A w \in Workers : w \notin Requests
               /\ MaxFaults \in Nat
BY ConstantsAssumption DEF ConstantsAssumption

\* The ids that an analyzer may put on an entry.
Lists(x) == {known[1] : known \in x.listed} \cup x.chosen

\* The analyzer w, and only it, is now x.
Turns(w, x) == /\ wrk' = [wrk EXCEPT ![w] = x]
               /\ x \in WorkType /\ WorkFits(x)
               /\ x.pc = "idle" <=> x.entry = NoEntry

\* The request r, and only it, is now x.
Becomes(r, x) == /\ req' = [req EXCEPT ![r] = x]
                 /\ x \in RequestType /\ RequestFits(x)

LEMMA Turn ==
    ASSUME TypeInv, NEW w \in Workers, NEW x, Turns(w, x)
    PROVE  /\ wrk' \in [Workers -> WorkType] /\ wrk'[w] = x
           /\ \A v \in Workers : v # w => wrk'[v] = wrk[v]
           /\ \A v \in Workers : /\ WorkFits(wrk'[v])
                                 /\ wrk'[v].pc = "idle" <=> wrk'[v].entry = NoEntry
           /\ IsFiniteSet(Busy')
<1>1. /\ wrk' \in [Workers -> WorkType] /\ wrk'[w] = x
      /\ \A v \in Workers : v # w => wrk'[v] = wrk[v]
  BY DEF Turns, TypeInv, TypeOK
<1>2. \A v \in Workers : /\ WorkFits(wrk'[v])
                         /\ wrk'[v].pc = "idle" <=> wrk'[v].entry = NoEntry
  BY <1>1 DEF Turns, TypeInv, TypeOK
<1>3. Busy' \subseteq Busy \cup {w}
  BY <1>1 DEF Busy
<1>4. IsFiniteSet(Busy \cup {w})
  BY FS_AddElement DEF TypeInv
<1> QED
  BY <1>1, <1>2, <1>3, <1>4, FS_Subset

LEMMA Become ==
    ASSUME TypeInv, NEW r \in Requests, NEW x, Becomes(r, x)
    PROVE  /\ req' \in [Requests -> RequestType] /\ req'[r] = x
           /\ \A q \in Requests : q # r => req'[q] = req[q]
           /\ \A q \in Requests : RequestFits(req'[q])
           /\ IsFiniteSet(Begun')
<1>1. /\ req' \in [Requests -> RequestType] /\ req'[r] = x
      /\ \A q \in Requests : q # r => req'[q] = req[q]
  BY DEF Becomes, TypeInv, TypeOK
<1>2. \A q \in Requests : RequestFits(req'[q])
  BY <1>1 DEF Becomes, TypeInv
<1>3. Begun' \subseteq Begun \cup {r}
  BY <1>1 DEF Begun
<1>4. IsFiniteSet(Begun \cup {r})
  BY FS_AddElement DEF TypeInv
<1> QED
  BY <1>1, <1>2, <1>3, <1>4, FS_Subset

\* What is left of the types once the analyzers and the requests have theirs.
StoreTyped ==
    /\ title \in [TopicIDs -> Titles \cup {NoTitle}]
    /\ unused \in SUBSET TopicIDs
    /\ topicIDs \in [Entries -> SUBSET TopicIDs]
    /\ aiTopicIDs \in [Entries -> SUBSET TopicIDs]
    /\ reasons \in [Entries -> SUBSET TopicIDs]
    /\ replay \in [Entries -> SUBSET TopicIDs]
    /\ status \in [Entries -> {"unset", "pending", "done", "failed", "disabled"}]
    /\ claim \in [Entries -> {"none", "live", "expired"}]
    /\ enabled \in SUBSET Workers
    /\ faults \in 0..MaxFaults
    /\ applied \in [Entries -> SUBSET TopicIDs]

LEMMA AnalyzerTyped ==
    ASSUME TypeInv, NEW w \in Workers, NEW x, Turns(w, x), req' = req,
           StoreTyped', contested' \in SUBSET Entries, crossed' \in SUBSET Titles
    PROVE  TypeInv'
<1>1. /\ wrk' \in [Workers -> WorkType]
      /\ \A v \in Workers : /\ WorkFits(wrk'[v])
                            /\ wrk'[v].pc = "idle" <=> wrk'[v].entry = NoEntry
      /\ IsFiniteSet(Busy')
  BY Turn
<1>2. TypeOK'
  BY <1>1 DEF TypeInv, TypeOK, StoreTyped
<1>3. Begun' = Begun
  BY DEF Begun
<1> QED
  BY <1>1, <1>2, <1>3 DEF TypeInv

LEMMA RequestTyped ==
    ASSUME TypeInv, NEW r \in Requests, NEW x, Becomes(r, x), wrk' = wrk,
           StoreTyped', contested' \in SUBSET Entries, crossed' \in SUBSET Titles
    PROVE  TypeInv'
<1>1. /\ req' \in [Requests -> RequestType]
      /\ \A q \in Requests : RequestFits(req'[q])
      /\ IsFiniteSet(Begun')
  BY Become
<1>2. TypeOK'
  BY <1>1 DEF TypeInv, TypeOK, StoreTyped
<1>3. Busy' = Busy
  BY DEF Busy
<1> QED
  BY <1>1, <1>2, <1>3 DEF TypeInv

-----------------------------------------------------------------------------
(* What each action makes of its analyzer or its request.                  *)

WorkPlaces == {"idle", "claimed", "calling", "lookup", "insert", "topicids",
               "aitopicids", "record", "finish", "failing"}

\* An analyzer that took one step on, with what it had.
Onward(y, x) == /\ x.entry = y.entry /\ x.title = y.title
                /\ x.listed = y.listed /\ x.chosen = y.chosen

\* The steps that change nothing but where an analyzer stands.
LEMMA StepsOn ==
    ASSUME TypeInv, NEW w \in Workers, NEW pc \in WorkPlaces, pc # "idle",
           wrk[w].pc # "idle", pc = "lookup" => FALSE,
           pc = "insert" => wrk[w].pc = "lookup",
           wrk' = [wrk EXCEPT ![w].pc = pc]
    PROVE  \E x : Turns(w, x) /\ Onward(wrk[w], x) /\ x.pc = pc
<1>1. /\ wrk[w] \in WorkType /\ WorkFits(wrk[w]) /\ wrk[w].entry # NoEntry
  BY DEF TypeInv, TypeOK
<1>2. PICK x : x = [wrk[w] EXCEPT !.pc = pc]
  OBVIOUS
<1>3. x \in WorkType /\ Onward(wrk[w], x) /\ x.pc = pc
  BY <1>1, <1>2 DEF WorkType, Onward, WorkPlaces
<1>4. WorkFits(x) /\ (x.pc = "idle" <=> x.entry = NoEntry)
  BY <1>1, <1>3 DEF WorkFits, Onward
<1>5. wrk' = [wrk EXCEPT ![w] = x]
  BY <1>2 DEF TypeInv, TypeOK
<1> QED
  BY <1>3, <1>4, <1>5 DEF Turns

\* An analyzer that ended its work.
Rests(x) == /\ x.pc = "idle" /\ x.entry = NoEntry /\ x.title = NoTitle
            /\ x.listed = {} /\ x.chosen = {}

LEMMA Stops ==
    ASSUME NEW w \in Workers, wrk' = [wrk EXCEPT ![w] = NoWork]
    PROVE  \E x : Turns(w, x) /\ Rests(x)
<1>1. PICK x : x = NoWork
  OBVIOUS
<1>2. x \in WorkType /\ Rests(x)
  BY <1>1 DEF NoWork, WorkType, Rests
<1>3. WorkFits(x) /\ (x.pc = "idle" <=> x.entry = NoEntry)
  BY <1>2 DEF WorkFits, Rests
<1> QED
  BY <1>1, <1>2, <1>3 DEF Turns

LEMMA Claims ==
    ASSUME TypeInv, NEW w \in Workers, ClaimNext(w)
    PROVE  \E e \in Entries, x \in WorkType :
              /\ Turns(w, x) /\ x.pc = "claimed" /\ x.entry = e
              /\ x.listed = {} /\ x.chosen = {}
              /\ topicIDs[e] = {} /\ NeedsAnalysis(e) /\ claim[e] \in {"none", "expired"}
              /\ status' = [status EXCEPT ![e] = "pending"]
              /\ claim' = [claim EXCEPT ![e] = "live"]
<1>0. wrk[w] \in WorkType /\ wrk[w].listed = {} /\ wrk[w].chosen = {}
  BY DEF TypeInv, TypeOK, WorkFits, ClaimNext
<1>1. PICK e \in Entries :
         /\ NeedsAnalysis(e) /\ claim[e] \in {"none", "expired"}
         /\ status' = [status EXCEPT ![e] = "pending"]
         /\ claim' = [claim EXCEPT ![e] = "live"]
         /\ wrk' = [wrk EXCEPT ![w].pc = "claimed", ![w].entry = e]
  BY DEF ClaimNext
<1>2. PICK x : x = [wrk[w] EXCEPT !.pc = "claimed", !.entry = e]
  OBVIOUS
<1>3. /\ x \in WorkType /\ x.pc = "claimed" /\ x.entry = e
      /\ x.listed = {} /\ x.chosen = {}
  BY <1>0, <1>2 DEF WorkType
<1>4. WorkFits(x) /\ (x.pc = "idle" <=> x.entry = NoEntry)
  BY <1>3, Apart DEF WorkFits
<1>5. wrk' = [wrk EXCEPT ![w] = x]
  BY <1>1, <1>2 DEF TypeInv, TypeOK
<1>6. topicIDs[e] = {}
  BY <1>1 DEF NeedsAnalysis
<1> QED
  BY <1>1, <1>3, <1>4, <1>5, <1>6 DEF Turns

LEMMA TopicsTyped ==
    ASSUME TypeInv
    PROVE  /\ Topics \in SUBSET TopicIDs
           /\ \A t \in Topics : title[t] \in Titles
BY DEF TypeInv, TypeOK, Topics

LEMMA ListedTopics ==
    ASSUME TypeInv, NEW w \in Workers, ListTopics(w)
    PROVE  \E x : /\ Turns(w, x) /\ x.pc = "calling" /\ x.entry = wrk[w].entry
                  /\ Lists(x) \subseteq Topics \cup wrk[w].chosen
<1>0. wrk[w] \in WorkType /\ wrk[w].entry # NoEntry /\ wrk[w].pc = "claimed"
  BY DEF TypeInv, TypeOK, ListTopics
<1>1. PICK s : s = {<<t, title[t]>> : t \in Topics}
  OBVIOUS
<1>2. s \in SUBSET (TopicIDs \X Titles) /\ \A known \in s : known[1] \in Topics
  BY <1>1, TopicsTyped
<1>3. PICK x : x = [wrk[w] EXCEPT !.pc = "calling", !.listed = s]
  OBVIOUS
<1>4. /\ x \in WorkType /\ x.pc = "calling" /\ x.entry = wrk[w].entry
      /\ x.listed = s /\ x.chosen = wrk[w].chosen
  BY <1>0, <1>2, <1>3 DEF WorkType
<1>5. wrk' = [wrk EXCEPT ![w] = x]
  BY <1>1, <1>3 DEF TypeInv, TypeOK, ListTopics
<1>6. WorkFits(x) /\ (x.pc = "idle" <=> x.entry = NoEntry)
  BY <1>0, <1>4 DEF WorkFits
<1>7. Lists(x) \subseteq Topics \cup wrk[w].chosen
  BY <1>2, <1>4 DEF Lists
<1> QED
  BY <1>4, <1>5, <1>6, <1>7 DEF Turns

LEMMA Answers ==
    ASSUME TypeInv, NEW w \in Workers, AnswerListed(w)
    PROVE  \E x : /\ Turns(w, x) /\ x.pc = "topicids" /\ x.entry = wrk[w].entry
                  /\ Lists(x) \subseteq Lists(wrk[w])
<1>0. wrk[w] \in WorkType /\ wrk[w].entry # NoEntry /\ wrk[w].pc = "calling"
  BY DEF TypeInv, TypeOK, AnswerListed
<1>1. CASE wrk' = [wrk EXCEPT ![w].pc = "topicids"]
  <2>1. PICK pc \in WorkPlaces : pc = "topicids"
    BY DEF WorkPlaces
  <2>2. wrk' = [wrk EXCEPT ![w].pc = pc]
    BY <1>1, <2>1
  <2>3. PICK x : Turns(w, x) /\ Onward(wrk[w], x) /\ x.pc = pc
    BY <1>0, <2>1, <2>2, StepsOn
  <2> QED
    BY <2>1, <2>3 DEF Onward, Lists
<1>2. CASE \E known \in wrk[w].listed :
              wrk' = [wrk EXCEPT ![w].pc = "topicids", ![w].chosen = {known[1]}]
  <2>1. PICK known \in wrk[w].listed :
           wrk' = [wrk EXCEPT ![w].pc = "topicids", ![w].chosen = {known[1]}]
    BY <1>2
  <2>2. PICK t : t = known[1]
    OBVIOUS
  <2>3. t \in TopicIDs /\ t \in Lists(wrk[w])
    BY <1>0, <2>1, <2>2 DEF WorkType, Lists
  <2>4. PICK x : x = [wrk[w] EXCEPT !.pc = "topicids", !.chosen = {t}]
    OBVIOUS
  <2>5. /\ x \in WorkType /\ x.pc = "topicids" /\ x.entry = wrk[w].entry
        /\ x.listed = wrk[w].listed /\ x.chosen = {t}
    BY <1>0, <2>3, <2>4 DEF WorkType
  <2>6. wrk' = [wrk EXCEPT ![w] = x]
    BY <2>1, <2>2, <2>4 DEF TypeInv, TypeOK
  <2>7. WorkFits(x) /\ (x.pc = "idle" <=> x.entry = NoEntry)
    BY <1>0, <2>5 DEF WorkFits
  <2>8. Lists(x) \subseteq Lists(wrk[w])
    BY <2>3, <2>5 DEF Lists
  <2> QED
    BY <2>5, <2>6, <2>7, <2>8 DEF Turns
<1> QED
  BY <1>1, <1>2 DEF AnswerListed

LEMMA AnswersNew ==
    ASSUME TypeInv, NEW w \in Workers, AnswerNew(w)
    PROVE  \E x : /\ Turns(w, x) /\ x.pc = "lookup" /\ x.entry = wrk[w].entry
                  /\ Lists(x) = Lists(wrk[w])
<1>0. wrk[w] \in WorkType /\ wrk[w].entry # NoEntry /\ wrk[w].pc = "calling"
  BY DEF TypeInv, TypeOK, AnswerNew
<1>1. PICK n \in Titles : wrk' = [wrk EXCEPT ![w].pc = "lookup", ![w].title = n]
  BY DEF AnswerNew
<1>2. PICK x : x = [wrk[w] EXCEPT !.pc = "lookup", !.title = n]
  OBVIOUS
<1>3. /\ x \in WorkType /\ x.pc = "lookup" /\ x.entry = wrk[w].entry /\ x.title = n
      /\ x.listed = wrk[w].listed /\ x.chosen = wrk[w].chosen
  BY <1>0, <1>2 DEF WorkType
<1>4. wrk' = [wrk EXCEPT ![w] = x]
  BY <1>1, <1>2 DEF TypeInv, TypeOK
<1>5. WorkFits(x) /\ (x.pc = "idle" <=> x.entry = NoEntry)
  BY <1>0, <1>3 DEF WorkFits
<1> QED
  BY <1>3, <1>4, <1>5 DEF Turns, Lists

\* The topic of a title that one topic at most has is found.
LEMMA FoundIs ==
    ASSUME NEW n
    PROVE  /\ FoundByTitle(n) \subseteq Titled(n) /\ Titled(n) \subseteq Topics
           /\ (\A s, t \in Titled(n) : s = t) => FoundByTitle(n) = Titled(n)
<1>1. ASSUME \A s, t \in Titled(n) : s = t, NEW t \in Titled(n)
      PROVE  FoundByTitle(n) = Titled(n)
  <2>1. Titled(n) = {t}
    BY <1>1
  <2>2. Cardinality(Titled(n)) = 1
    BY <2>1, FS_Singleton
  <2> QED
    BY <2>2 DEF FoundByTitle
<1> QED
  BY <1>1 DEF FoundByTitle, Titled

LEMMA Looks ==
    ASSUME TypeInv, NEW w \in Workers, Lookup(w)
    PROVE  \E x : /\ Turns(w, x) /\ x.entry = wrk[w].entry
                  /\ Lists(x) \subseteq Lists(wrk[w]) \cup Topics
                  /\ \/ x.pc = "topicids"
                     \/ /\ x.pc = "insert" /\ x.title = wrk[w].title
                        /\ FoundByTitle(wrk[w].title) = {}
<1>0. wrk[w] \in WorkType /\ wrk[w].entry # NoEntry /\ wrk[w].pc = "lookup"
  BY DEF TypeInv, TypeOK, Lookup
<1>1. CASE FoundByTitle(wrk[w].title) = {}
  <2>1. PICK pc \in WorkPlaces : pc = "insert"
    BY DEF WorkPlaces
  <2>2. wrk' = [wrk EXCEPT ![w].pc = pc]
    BY <1>1, <2>1 DEF Lookup
  <2>3. PICK x : Turns(w, x) /\ Onward(wrk[w], x) /\ x.pc = pc
    BY <1>0, <2>1, <2>2, StepsOn
  <2>4. Lists(x) = Lists(wrk[w]) /\ x.entry = wrk[w].entry /\ x.title = wrk[w].title
    BY <2>3 DEF Onward, Lists
  <2> QED
    BY <1>1, <2>1, <2>3, <2>4
<1>2. CASE FoundByTitle(wrk[w].title) # {}
  <2>1. PICK s : s = FoundByTitle(wrk[w].title)
    OBVIOUS
  <2>2. s \subseteq Topics /\ s \in SUBSET TopicIDs
    BY <2>1, FoundIs, TopicsTyped
  <2>3. PICK x : x = [wrk[w] EXCEPT !.pc = "topicids", !.title = NoTitle, !.chosen = s]
    OBVIOUS
  <2>4. /\ x \in WorkType /\ x.pc = "topicids" /\ x.entry = wrk[w].entry
        /\ x.listed = wrk[w].listed /\ x.chosen = s
    BY <1>0, <2>2, <2>3 DEF WorkType
  <2>5. wrk' = [wrk EXCEPT ![w] = x]
    BY <1>2, <2>1, <2>3 DEF Lookup, TypeInv, TypeOK
  <2>6. WorkFits(x) /\ (x.pc = "idle" <=> x.entry = NoEntry)
    BY <1>0, <2>4 DEF WorkFits
  <2>7. Lists(x) \subseteq Lists(wrk[w]) \cup Topics
    BY <2>2, <2>4 DEF Lists
  <2> QED
    BY <2>4, <2>5, <2>6, <2>7 DEF Turns
<1> QED
  BY <1>1, <1>2

\* What inserting a topic does to the collection.
LEMMA Inserts ==
    ASSUME TypeInv, NEW t \in TopicIDs, NEW n \in Titles, InsertEntryTopic(t, n)
    PROVE  /\ title' \in [TopicIDs -> Titles \cup {NoTitle}] /\ unused' \in SUBSET TopicIDs
           /\ t \in unused /\ unused' = unused \ {t} /\ Topics' = Topics \cup {t}
           /\ Titled(n)' = Titled(n) \cup {t}
           /\ \A m : m # n => Titled(m)' \subseteq Titled(m)
BY Apart DEF InsertEntryTopic, TypeInv, TypeOK, Topics, Titled

LEMMA InsertsNew ==
    ASSUME TypeInv, NEW w \in Workers, InsertNew(w)
    PROVE  /\ wrk[w].title \in Titles
           /\ \E t \in TopicIDs, x \in WorkType :
                 /\ InsertEntryTopic(t, wrk[w].title)
                 /\ Turns(w, x) /\ x.pc = "topicids" /\ x.entry = wrk[w].entry
                 /\ Lists(x) \subseteq Lists(wrk[w]) \cup {t}
<1>0. /\ wrk[w] \in WorkType /\ wrk[w].entry # NoEntry /\ wrk[w].pc = "insert"
      /\ wrk[w].title \in Titles
  BY DEF TypeInv, TypeOK, WorkFits, InsertNew
<1>1. PICK t \in TopicIDs :
         /\ InsertEntryTopic(t, wrk[w].title)
         /\ wrk' = [wrk EXCEPT ![w].pc = "topicids", ![w].title = NoTitle,
                               ![w].chosen = {t}]
  BY DEF InsertNew
<1>2. PICK x : x = [wrk[w] EXCEPT !.pc = "topicids", !.title = NoTitle, !.chosen = {t}]
  OBVIOUS
<1>3. /\ x \in WorkType /\ x.pc = "topicids" /\ x.entry = wrk[w].entry
      /\ x.listed = wrk[w].listed /\ x.chosen = {t}
  BY <1>0, <1>2 DEF WorkType
<1>4. wrk' = [wrk EXCEPT ![w] = x]
  BY <1>1, <1>2 DEF TypeInv, TypeOK
<1>5. WorkFits(x) /\ (x.pc = "idle" <=> x.entry = NoEntry)
  BY <1>0, <1>3 DEF WorkFits
<1>6. Lists(x) \subseteq Lists(wrk[w]) \cup {t}
  BY <1>3 DEF Lists
<1> QED
  BY <1>0, <1>1, <1>3, <1>4, <1>5, <1>6 DEF Turns

\* The steps between the writes: the analyzer goes on with what it had.
Onwards(w, pc) == \E x : Turns(w, x) /\ Onward(wrk[w], x) /\ x.pc = pc

LEMMA Steps ==
    ASSUME TypeInv, NEW w \in Workers
    PROVE  /\ WriteTopicIDs(w) => Onwards(w, "aitopicids")
           /\ WriteAITopicIDs(w) => Onwards(w, "record")
           /\ Record(w) \/ SkipRecord(w) => Onwards(w, "finish")
           /\ FailStatus(w) => Onwards(w, "failing")
<1>1. ASSUME NEW pc \in {"aitopicids", "record", "finish", "failing"},
             wrk[w].pc # "idle", wrk' = [wrk EXCEPT ![w].pc = pc]
      PROVE  Onwards(w, pc)
  <2>1. pc \in WorkPlaces
    BY DEF WorkPlaces
  <2> QED
    BY <1>1, <2>1, StepsOn DEF Onwards
<1>2. ASSUME WriteTopicIDs(w) PROVE Onwards(w, "aitopicids")
  BY <1>1, <1>2 DEF WriteTopicIDs
<1>3. ASSUME WriteAITopicIDs(w) PROVE Onwards(w, "record")
  BY <1>1, <1>3 DEF WriteAITopicIDs
<1>4. ASSUME Record(w) \/ SkipRecord(w) PROVE Onwards(w, "finish")
  BY <1>1, <1>4 DEF Record, SkipRecord
<1>5. ASSUME FailStatus(w) PROVE Onwards(w, "failing")
  BY <1>1, <1>5 DEF FailStatus
<1> QED
  BY <1>2, <1>3, <1>4, <1>5

LEMMA Quits ==
    ASSUME NEW w \in Workers,
           Release(w) \/ Finish(w) \/ FailClaim(w) \/ Abandon(w)
    PROVE  \E x : Turns(w, x) /\ Rests(x)
BY Stops DEF Release, Finish, FailClaim, Abandon, SetEntryTopicAnalysis

RequestPlaces == {"new", "resolve", "reread", "topicids", "aitopicids", "reasons",
                  "disable", "record", "create", "find", "retitle", "sweep", "over"}

LEMMA EndedTyped ==
    ASSUME NEW pc \in RequestPlaces
    PROVE  /\ Ended(pc) \in RequestType /\ Ended(pc).pc = pc
           /\ Ended(pc).entry = NoEntry /\ Ended(pc).topic = NoTopic
           /\ Ended(pc).title = NoTitle /\ Ended(pc).wanted = {}
           /\ Ended(pc).ai = {} /\ Ended(pc).why = {} /\ Ended(pc).added = {}
           /\ Ended(pc).removed = {} /\ Ended(pc).sweep = {}
BY DEF Ended, RequestType, RequestPlaces

\* A request that is over.
Over(x) == /\ x.pc = "over" /\ x.entry = NoEntry /\ x.title = NoTitle
           /\ x.wanted = {} /\ x.added = {}

LEMMA Ends ==
    ASSUME NEW r \in Requests, req' = [req EXCEPT ![r] = Ended("over")]
    PROVE  \E x : Becomes(r, x) /\ Over(x)
<1>1. PICK pc \in RequestPlaces : pc = "over"
  BY DEF RequestPlaces
<1>2. PICK x : x = Ended(pc)
  OBVIOUS
<1>3. x \in RequestType /\ Over(x)
  BY <1>1, <1>2, EndedTyped DEF Over
<1>4. RequestFits(x)
  BY <1>3, Apart DEF RequestFits, Over, Choosing
<1> QED
  BY <1>1, <1>2, <1>3, <1>4 DEF Becomes

LEMMA Finishes ==
    ASSUME NEW r \in Requests,
           Recorded(r) \/ InsertCreated(r) \/ Retitle(r) \/ DeleteRecord(r) \/ AbortRequest(r)
    PROVE  \E x : Becomes(r, x) /\ Over(x)
BY Ends DEF Recorded, InsertCreated, Retitle, DeleteRecord, AbortRequest

\* A request that took one step on, with what it had.
Carries(y, x) == /\ x.entry = y.entry /\ x.topic = y.topic /\ x.title = y.title
                 /\ x.wanted = y.wanted /\ x.added = y.added /\ x.removed = y.removed

LEMMA RequestStepsOn ==
    ASSUME TypeInv, NEW r \in Requests, NEW pc \in Choosing,
           req[r].pc \in Choosing, req' = [req EXCEPT ![r].pc = pc]
    PROVE  \E x : /\ Becomes(r, x) /\ Carries(req[r], x) /\ x.pc = pc
                  /\ x.ai = req[r].ai /\ x.why = req[r].why
<1>1. req[r] \in RequestType /\ RequestFits(req[r])
  BY DEF TypeInv, TypeOK
<1>2. PICK x : x = [req[r] EXCEPT !.pc = pc]
  OBVIOUS
<1>3. pc \in RequestPlaces
  BY DEF Choosing, RequestPlaces
<1>4. /\ x \in RequestType /\ Carries(req[r], x) /\ x.pc = pc
      /\ x.ai = req[r].ai /\ x.why = req[r].why
  BY <1>1, <1>2, <1>3 DEF RequestType, Carries, RequestPlaces
<1>5. req' = [req EXCEPT ![r] = x]
  BY <1>2 DEF TypeInv, TypeOK
<1>6. RequestFits(x)
  BY <1>1, <1>4 DEF RequestFits, Carries, Choosing
<1> QED
  BY <1>4, <1>5, <1>6 DEF Becomes

LEMMA ReadsEntry ==
    ASSUME TypeInv, NEW r \in Requests, ReadEntry(r)
    PROVE  \E e \in Entries, x \in RequestType :
              /\ Becomes(r, x) /\ x.pc = "resolve" /\ x.entry = e
              /\ x.added = x.wanted \ topicIDs[e] /\ x.removed = topicIDs[e] \ x.wanted
<1>1. PICK e \in Entries, wanted \in SUBSET TopicIDs :
         req' = [req EXCEPT ![r] =
                    [Ended("resolve") EXCEPT !.entry = e, !.wanted = wanted,
                                             !.added = wanted \ topicIDs[e],
                                             !.removed = topicIDs[e] \ wanted]]
  BY DEF ReadEntry
<1>2. PICK y : y = Ended("resolve")
  OBVIOUS
<1>3. "resolve" \in RequestPlaces
  BY DEF RequestPlaces
<1>4. y \in RequestType /\ y.pc = "resolve"
  BY <1>2, <1>3, EndedTyped
<1>5. PICK added, removed : added = wanted \ topicIDs[e] /\ removed = topicIDs[e] \ wanted
  OBVIOUS
<1>6. added \in SUBSET TopicIDs /\ removed \in SUBSET TopicIDs
  BY <1>5 DEF TypeInv, TypeOK
<1>7. PICK x : x = [y EXCEPT !.entry = e, !.wanted = wanted, !.added = added,
                             !.removed = removed]
  OBVIOUS
<1>8. /\ x \in RequestType /\ x.pc = "resolve" /\ x.entry = e /\ x.wanted = wanted
      /\ x.added = added /\ x.removed = removed
  BY <1>4, <1>6, <1>7 DEF RequestType
<1>9. req' = [req EXCEPT ![r] = x]
  BY <1>1, <1>2, <1>5, <1>7
<1>10. RequestFits(x)
  BY <1>8 DEF RequestFits, Choosing
<1> QED
  BY <1>5, <1>8, <1>9, <1>10 DEF Becomes

LEMMA Resolves ==
    ASSUME TypeInv, NEW r \in Requests, Resolve(r)
    PROVE  \E x : /\ Becomes(r, x)
                  /\ \/ Over(x)
                     \/ /\ x.pc = "reread" /\ Carries(req[r], x)
                        /\ req[r].wanted \subseteq Topics
<1>1. CASE req' = [req EXCEPT ![r] = Ended("over")]
  BY <1>1, Ends
<1>2. CASE req' = [req EXCEPT ![r].pc = "reread"] /\ req[r].wanted \subseteq Topics
  <2>1. PICK pc \in Choosing : pc = "reread"
    BY DEF Choosing
  <2>2. req[r].pc \in Choosing /\ req' = [req EXCEPT ![r].pc = pc]
    BY <1>2, <2>1 DEF Resolve, Choosing
  <2>3. PICK x : Becomes(r, x) /\ Carries(req[r], x) /\ x.pc = pc
    BY <2>1, <2>2, RequestStepsOn
  <2> QED
    BY <1>2, <2>1, <2>3
<1> QED
  BY <1>1, <1>2 DEF Resolve

LEMMA Rereads ==
    ASSUME TypeInv, NEW r \in Requests, Reread(r)
    PROVE  \E x : /\ Becomes(r, x) /\ x.pc = "topicids" /\ Carries(req[r], x)
                  /\ req[r].entry \in Entries
                  /\ x.ai = aiTopicIDs[req[r].entry] \cap x.wanted
                  /\ x.why = reasons[req[r].entry] \cap x.ai
<1>1. /\ req[r] \in RequestType /\ RequestFits(req[r]) /\ req[r].entry \in Entries
  BY DEF TypeInv, TypeOK, RequestFits, Reread, Choosing
<1>2. PICK ai : ai = aiTopicIDs[req[r].entry] \cap req[r].wanted
  OBVIOUS
<1>3. PICK why : why = reasons[req[r].entry] \cap ai
  OBVIOUS
<1>4. ai \in SUBSET TopicIDs /\ why \in SUBSET TopicIDs
  BY <1>1, <1>2, <1>3 DEF TypeInv, TypeOK, RequestType
<1>5. PICK x : x = [req[r] EXCEPT !.pc = "topicids", !.ai = ai, !.why = why]
  OBVIOUS
<1>6. /\ x \in RequestType /\ x.pc = "topicids" /\ Carries(req[r], x)
      /\ x.ai = ai /\ x.why = why
  BY <1>1, <1>4, <1>5 DEF RequestType, Carries
<1>7. req' = [req EXCEPT ![r] = x]
  BY <1>2, <1>3, <1>5 DEF TypeInv, TypeOK, Reread
<1>8. RequestFits(x)
  BY <1>1, <1>6 DEF RequestFits, Carries, Choosing
<1> QED
  BY <1>1, <1>2, <1>3, <1>6, <1>7, <1>8 DEF Becomes, Carries

\* The writes of a choice: the request goes on with what it had.
Carried(r, pc) == \E x : /\ Becomes(r, x) /\ Carries(req[r], x) /\ x.pc = pc
                         /\ x.ai = req[r].ai /\ x.why = req[r].why

LEMMA Writes ==
    ASSUME TypeInv, NEW r \in Requests
    PROVE  /\ SetTopicIDs(r) => Carried(r, "aitopicids")
           /\ SetAITopicIDs(r) => Carried(r, "reasons")
           /\ SetReasons(r) => Carried(r, "disable") \/ Carried(r, "record")
           /\ Disable(r) => Carried(r, "record")
<1>1. ASSUME NEW pc \in Choosing, req[r].pc \in Choosing,
             req' = [req EXCEPT ![r].pc = pc]
      PROVE  Carried(r, pc)
  BY <1>1, RequestStepsOn DEF Carried
<1>2. {"aitopicids", "reasons", "disable", "record", "topicids"} \subseteq Choosing
  BY DEF Choosing
<1>3. ASSUME SetTopicIDs(r) PROVE Carried(r, "aitopicids")
  BY <1>1, <1>2, <1>3 DEF SetTopicIDs
<1>4. ASSUME SetAITopicIDs(r) PROVE Carried(r, "reasons")
  BY <1>1, <1>2, <1>4 DEF SetAITopicIDs
<1>5. ASSUME SetReasons(r) PROVE Carried(r, "disable") \/ Carried(r, "record")
  <2>1. CASE req[r].wanted = {}
    <3>1. req' = [req EXCEPT ![r].pc = "record"]
      BY <1>5, <2>1 DEF SetReasons
    <3> QED
      BY <1>1, <1>2, <1>5, <3>1 DEF SetReasons
  <2>2. CASE req[r].wanted # {}
    <3>1. req' = [req EXCEPT ![r].pc = "disable"]
      BY <1>5, <2>2 DEF SetReasons
    <3> QED
      BY <1>1, <1>2, <1>5, <3>1 DEF SetReasons
  <2> QED
    BY <2>1, <2>2
<1>6. ASSUME Disable(r) PROVE Carried(r, "record")
  BY <1>1, <1>2, <1>6 DEF Disable
<1> QED
  BY <1>3, <1>4, <1>5, <1>6

\* A request that has one row less to write.
LEMMA RecordsOne ==
    ASSUME TypeInv, NEW r \in Requests, req[r].pc = "record",
           NEW added \in SUBSET req[r].added, NEW removed \in SUBSET req[r].removed,
           \/ /\ req' = [req EXCEPT ![r].added = added]
              /\ removed = req[r].removed
           \/ /\ req' = [req EXCEPT ![r].removed = removed]
              /\ added = req[r].added
    PROVE  \E x : /\ Becomes(r, x) /\ x.pc = "record" /\ x.entry = req[r].entry
                  /\ x.wanted = req[r].wanted /\ x.title = req[r].title
                  /\ x.added = added /\ x.removed = removed
<1>1. req[r] \in RequestType /\ RequestFits(req[r])
  BY DEF TypeInv, TypeOK
<1>2. CASE req' = [req EXCEPT ![r].added = added] /\ removed = req[r].removed
  <2>1. PICK x : x = [req[r] EXCEPT !.added = added]
    OBVIOUS
  <2>2. /\ x \in RequestType /\ x.pc = "record" /\ x.entry = req[r].entry
        /\ x.wanted = req[r].wanted /\ x.title = req[r].title
        /\ x.added = added /\ x.removed = removed
    BY <1>1, <1>2, <2>1 DEF RequestType
  <2>3. req' = [req EXCEPT ![r] = x]
    BY <1>2, <2>1 DEF TypeInv, TypeOK
  <2>4. RequestFits(x)
    BY <1>1, <2>2 DEF RequestFits, Choosing
  <2> QED
    BY <2>2, <2>3, <2>4 DEF Becomes
<1>3. CASE req' = [req EXCEPT ![r].removed = removed] /\ added = req[r].added
  <2>1. PICK x : x = [req[r] EXCEPT !.removed = removed]
    OBVIOUS
  <2>2. /\ x \in RequestType /\ x.pc = "record" /\ x.entry = req[r].entry
        /\ x.wanted = req[r].wanted /\ x.title = req[r].title
        /\ x.added = added /\ x.removed = removed
    BY <1>1, <1>3, <2>1 DEF RequestType
  <2>3. req' = [req EXCEPT ![r] = x]
    BY <1>3, <2>1 DEF TypeInv, TypeOK
  <2>4. RequestFits(x)
    BY <1>1, <2>2 DEF RequestFits, Choosing
  <2> QED
    BY <2>2, <2>3, <2>4 DEF Becomes
<1> QED
  BY <1>2, <1>3

LEMMA RecordsAdded ==
    ASSUME TypeInv, NEW r \in Requests, RecordAdded(r)
    PROVE  \E t \in req[r].added, x \in RequestType :
              /\ Becomes(r, x) /\ x.pc = "record" /\ x.entry = req[r].entry
              /\ x.wanted = req[r].wanted /\ x.title = req[r].title
              /\ x.added = req[r].added \ {t} /\ x.removed = req[r].removed
              /\ replay' = [replay EXCEPT ![req[r].entry] = @ \cup {t}]
              /\ t \in TopicIDs
<1>1. PICK t \in req[r].added :
         /\ replay' = [replay EXCEPT ![req[r].entry] = @ \cup {t}]
         /\ req' = [req EXCEPT ![r].added = @ \ {t}]
  BY DEF RecordAdded
<1>2. PICK added, removed : added = req[r].added \ {t} /\ removed = req[r].removed
  OBVIOUS
<1>3. req' = [req EXCEPT ![r].added = added]
  BY <1>1, <1>2 DEF TypeInv, TypeOK
<1>4. added \in SUBSET req[r].added /\ removed \in SUBSET req[r].removed
  BY <1>2
<1>5. PICK x : /\ Becomes(r, x) /\ x.pc = "record" /\ x.entry = req[r].entry
               /\ x.wanted = req[r].wanted /\ x.title = req[r].title
               /\ x.added = added /\ x.removed = removed
  <2>1. req[r].pc = "record"
    BY DEF RecordAdded
  <2>2. \/ /\ req' = [req EXCEPT ![r].added = added]
           /\ removed = req[r].removed
        \/ /\ req' = [req EXCEPT ![r].removed = removed]
           /\ added = req[r].added
    BY <1>2, <1>3
  <2> QED
    BY <1>4, <2>1, <2>2, RecordsOne
<1>6. t \in TopicIDs
  BY <1>1 DEF TypeInv, TypeOK, RequestType
<1> QED
  BY <1>1, <1>2, <1>5, <1>6 DEF Becomes

LEMMA RecordsRemoved ==
    ASSUME TypeInv, NEW r \in Requests, RecordRemoved(r)
    PROVE  \E t \in req[r].removed, x \in RequestType :
              /\ Becomes(r, x) /\ x.pc = "record" /\ x.entry = req[r].entry
              /\ x.wanted = req[r].wanted /\ x.title = req[r].title
              /\ x.added = {} /\ req[r].added = {}
              /\ x.removed = req[r].removed \ {t}
              /\ replay' = [replay EXCEPT ![req[r].entry] = @ \ {t}]
<1>1. PICK t \in req[r].removed :
         /\ replay' = [replay EXCEPT ![req[r].entry] = @ \ {t}]
         /\ req' = [req EXCEPT ![r].removed = @ \ {t}]
  BY DEF RecordRemoved
<1>2. PICK added, removed : added = {} /\ removed = req[r].removed \ {t}
  OBVIOUS
<1>3. req' = [req EXCEPT ![r].removed = removed] /\ added = req[r].added
  BY <1>1, <1>2 DEF TypeInv, TypeOK, RecordRemoved
<1>4. added \in SUBSET req[r].added /\ removed \in SUBSET req[r].removed
  BY <1>2
<1>5. PICK x : /\ Becomes(r, x) /\ x.pc = "record" /\ x.entry = req[r].entry
               /\ x.wanted = req[r].wanted /\ x.title = req[r].title
               /\ x.added = added /\ x.removed = removed
  <2>1. req[r].pc = "record"
    BY DEF RecordRemoved
  <2>2. \/ /\ req' = [req EXCEPT ![r].added = added]
           /\ removed = req[r].removed
        \/ /\ req' = [req EXCEPT ![r].removed = removed]
           /\ added = req[r].added
    BY <1>2, <1>3
  <2> QED
    BY <1>4, <2>1, <2>2, RecordsOne
<1> QED
  BY <1>1, <1>2, <1>3, <1>5 DEF Becomes

LEMMA LooksCreated ==
    ASSUME TypeInv, NEW r \in Requests, LookupCreated(r)
    PROVE  \E n \in Titles, x \in RequestType :
              /\ Becomes(r, x)
              /\ \/ Over(x)
                 \/ /\ x.pc = "create" /\ x.title = n /\ x.entry = NoEntry
                    /\ x.added = {} /\ FoundByTitle(n) = {}
<1>1. PICK n \in Titles :
         req' = [req EXCEPT ![r] = IF FoundByTitle(n) # {} THEN Ended("over")
                                   ELSE [Ended("create") EXCEPT !.title = n]]
  BY DEF LookupCreated
<1>2. CASE FoundByTitle(n) # {}
  <2>1. PICK x : Becomes(r, x) /\ Over(x)
    BY <1>1, <1>2, Ends
  <2> QED
    BY <2>1 DEF Becomes
<1>3. CASE FoundByTitle(n) = {}
  <2>1. PICK pc \in RequestPlaces : pc = "create"
    BY DEF RequestPlaces
  <2>2. PICK y : y = Ended(pc)
    OBVIOUS
  <2>3. y \in RequestType /\ y.pc = "create" /\ y.entry = NoEntry /\ y.added = {}
    BY <2>1, <2>2, EndedTyped
  <2>4. PICK x : x = [y EXCEPT !.title = n]
    OBVIOUS
  <2>5. /\ x \in RequestType /\ x.pc = "create" /\ x.entry = NoEntry /\ x.title = n
        /\ x.added = {}
    BY <2>3, <2>4 DEF RequestType
  <2>6. req' = [req EXCEPT ![r] = x]
    BY <1>1, <1>3, <2>1, <2>2, <2>4
  <2>7. RequestFits(x)
    BY <2>5, Apart DEF RequestFits, Choosing
  <2> QED
    BY <1>3, <2>5, <2>6, <2>7 DEF Becomes
<1> QED
  BY <1>2, <1>3

LEMMA ReadsRenamed ==
    ASSUME TypeInv, NEW r \in Requests, ReadRenamed(r)
    PROVE  \E x : /\ Becomes(r, x) /\ x.entry = NoEntry /\ x.added = {}
                  /\ x.pc \in {"find", "retitle"} /\ x.title \in Titles
                  /\ x.pc = "retitle" => title[x.topic] = x.title
<1>1. PICK t \in Topics, n \in Titles :
         req' = [req EXCEPT ![r] =
                    [Ended(IF title[t] = n THEN "retitle" ELSE "find")
                        EXCEPT !.topic = t, !.title = n]]
  BY DEF ReadRenamed
<1>2. PICK pc \in {"find", "retitle"} : pc = IF title[t] = n THEN "retitle" ELSE "find"
  OBVIOUS
<1>3. PICK y : y = Ended(pc)
  OBVIOUS
<1>4. y \in RequestType /\ y.pc = pc /\ y.entry = NoEntry /\ y.added = {}
  BY <1>3, EndedTyped DEF RequestPlaces
<1>5. PICK x : x = [y EXCEPT !.topic = t, !.title = n]
  OBVIOUS
<1>6. /\ x \in RequestType /\ x.pc = pc /\ x.entry = NoEntry /\ x.title = n
      /\ x.topic = t /\ x.added = {} /\ t \in TopicIDs
  BY <1>4, <1>5 DEF RequestType, Topics
<1>7. req' = [req EXCEPT ![r] = x]
  BY <1>1, <1>2, <1>3, <1>5
<1>8. RequestFits(x)
  BY <1>6, Apart DEF RequestFits, Choosing
<1> QED
  BY <1>2, <1>6, <1>7, <1>8 DEF Becomes

LEMMA LooksRenamed ==
    ASSUME TypeInv, NEW r \in Requests, LookupRenamed(r)
    PROVE  \E x : /\ Becomes(r, x)
                  /\ \/ Over(x)
                     \/ /\ x.pc = "retitle" /\ Carries(req[r], x)
                        /\ FoundByTitle(req[r].title) \subseteq {req[r].topic}
<1>1. CASE ~(FoundByTitle(req[r].title) \subseteq {req[r].topic})
  <2>1. req' = [req EXCEPT ![r] = Ended("over")]
    BY <1>1 DEF LookupRenamed
  <2> QED
    BY <2>1, Ends
<1>2. CASE FoundByTitle(req[r].title) \subseteq {req[r].topic}
  <2>1. req[r] \in RequestType /\ RequestFits(req[r]) /\ req[r].pc = "find"
    BY DEF TypeInv, TypeOK, LookupRenamed
  <2>2. PICK x : x = [req[r] EXCEPT !.pc = "retitle"]
    OBVIOUS
  <2>3. x \in RequestType /\ x.pc = "retitle" /\ Carries(req[r], x)
    BY <2>1, <2>2 DEF RequestType, Carries
  <2>4. req' = [req EXCEPT ![r] = x]
    BY <1>2, <2>2 DEF TypeInv, TypeOK, LookupRenamed
  <2>5. RequestFits(x)
    BY <2>1, <2>3 DEF RequestFits, Carries, Choosing
  <2> QED
    BY <1>2, <2>3, <2>4, <2>5 DEF Becomes
<1> QED
  BY <1>1, <1>2

LEMMA ReadsDeleted ==
    ASSUME TypeInv, NEW r \in Requests, ReadDeleted(r)
    PROVE  \E x : /\ Becomes(r, x) /\ x.pc = "sweep" /\ x.topic \in Topics
                  /\ x.sweep = {"pull", "unset"} /\ x.added = {} /\ x.title = NoTitle
<1>1. PICK t \in Topics :
         req' = [req EXCEPT ![r] = [Ended("sweep") EXCEPT
                                        !.topic = t,
                                        !.sweep = {"pull", "unset"}]]
  BY DEF ReadDeleted
<1>2. PICK pc \in RequestPlaces : pc = "sweep"
  BY DEF RequestPlaces
<1>3. PICK y : y = Ended(pc)
  OBVIOUS
<1>4. /\ y \in RequestType /\ y.pc = "sweep" /\ y.entry = NoEntry /\ y.added = {}
      /\ y.title = NoTitle
  BY <1>2, <1>3, EndedTyped
<1>5. PICK x : x = [y EXCEPT !.topic = t, !.sweep = {"pull", "unset"}]
  OBVIOUS
<1>6. /\ x \in RequestType /\ x.pc = "sweep" /\ x.entry = NoEntry /\ x.topic = t
      /\ x.sweep = {"pull", "unset"} /\ x.added = {} /\ x.title = NoTitle
      /\ t \in TopicIDs
  BY <1>4, <1>5 DEF RequestType, Topics
<1>7. req' = [req EXCEPT ![r] = x]
  BY <1>1, <1>2, <1>3, <1>5
<1>8. RequestFits(x)
  BY <1>6, Apart DEF RequestFits, Choosing
<1> QED
  BY <1>6, <1>7, <1>8 DEF Becomes

\* A deletion that has done one of its two sweeps, or lost it.
LEMMA Sweeps ==
    ASSUME TypeInv, NEW r \in Requests, req[r].pc = "sweep", NEW part,
           req' = [req EXCEPT ![r].sweep = @ \ {part}]
    PROVE  \E x : /\ Becomes(r, x) /\ x.pc = "sweep" /\ Carries(req[r], x)
                  /\ x.sweep = req[r].sweep \ {part}
<1>1. req[r] \in RequestType /\ RequestFits(req[r])
  BY DEF TypeInv, TypeOK
<1>2. PICK s : s = req[r].sweep \ {part}
  OBVIOUS
<1>3. s \in SUBSET {"pull", "unset"}
  BY <1>1, <1>2 DEF RequestType
<1>4. PICK x : x = [req[r] EXCEPT !.sweep = s]
  OBVIOUS
<1>5. /\ x \in RequestType /\ x.pc = "sweep" /\ Carries(req[r], x) /\ x.sweep = s
  BY <1>1, <1>3, <1>4 DEF RequestType, Carries
<1>6. req' = [req EXCEPT ![r] = x]
  BY <1>2, <1>4 DEF TypeInv, TypeOK
<1>7. RequestFits(x)
  BY <1>1, <1>5 DEF RequestFits, Carries, Choosing
<1> QED
  BY <1>2, <1>5, <1>6, <1>7 DEF Becomes

-----------------------------------------------------------------------------
(* Typing.                                                                 *)

\* The steps of an analyzer, and of a request.
WorkerStep(w) == Analyzer(w) \/ FailStatus(w) \/ SkipRecord(w) \/ Abandon(w)
RequestStep(r) == SetTopics(r) \/ AdministerTopics(r) \/ SkipSweep(r) \/ AbortRequest(r)

LEMMA Turned ==
    ASSUME TypeInv, NEW w \in Workers, WorkerStep(w)
    PROVE  req' = req /\ \E x : Turns(w, x)
<1>1. req' = req
  BY DEF WorkerStep, Analyzer, ClaimNext, Release, ListTopics, AnswerListed, AnswerNew,
         Lookup, InsertNew, WriteTopicIDs, WriteAITopicIDs, Record, SkipRecord, Finish,
         FailStatus, FailClaim, Abandon, SetEntryTopicAnalysis
<1>2. ClaimNext(w) => \E x : Turns(w, x)
  BY Claims
<1>3. ListTopics(w) => \E x : Turns(w, x)
  BY ListedTopics
<1>4. AnswerListed(w) => \E x : Turns(w, x)
  BY Answers
<1>5. AnswerNew(w) => \E x : Turns(w, x)
  BY AnswersNew
<1>6. Lookup(w) => \E x : Turns(w, x)
  BY Looks
<1>7. InsertNew(w) => \E x : Turns(w, x)
  BY InsertsNew
<1>8. WriteTopicIDs(w) \/ WriteAITopicIDs(w) \/ Record(w) \/ SkipRecord(w)
      \/ FailStatus(w) => \E x : Turns(w, x)
  BY Steps DEF Onwards
<1>9. Release(w) \/ Finish(w) \/ FailClaim(w) \/ Abandon(w) => \E x : Turns(w, x)
  BY Quits
<1> QED
  BY <1>1, <1>2, <1>3, <1>4, <1>5, <1>6, <1>7, <1>8, <1>9 DEF WorkerStep, Analyzer

\* The entry of an analyzer that has one.
LEMMA Works ==
    ASSUME TypeInv, NEW w \in Workers, wrk[w].pc # "idle"
    PROVE  wrk[w] \in WorkType /\ wrk[w].entry \in Entries
BY DEF TypeInv, TypeOK, WorkType

LEMMA WorkerStores ==
    ASSUME TypeInv, NEW w \in Workers, WorkerStep(w)
    PROVE  StoreTyped'
<1> USE DEF StoreTyped
<1>0. StoreTyped
  BY DEF TypeInv, TypeOK
<1>1. CASE ClaimNext(w)
  BY <1>0, <1>1 DEF ClaimNext, records, entry
<1>2. CASE Release(w)
  <2>1. wrk[w].entry \in Entries
    BY <1>2, Works DEF Release
  <2> QED
    BY <1>0, <1>2, <2>1 DEF Release, SetEntryTopicAnalysis, records
<1>3. CASE ListTopics(w) \/ AnswerListed(w) \/ AnswerNew(w) \/ Lookup(w)
  BY <1>0, <1>3 DEF ListTopics, AnswerListed, AnswerNew, Lookup, records, entry, analysis
<1>4. CASE InsertNew(w)
  <2>1. PICK t \in TopicIDs : wrk[w].title \in Titles /\ InsertEntryTopic(t, wrk[w].title)
    BY <1>4, InsertsNew
  <2>2. PICK n \in Titles : n = wrk[w].title /\ InsertEntryTopic(t, n)
    BY <2>1
  <2>3. title' \in [TopicIDs -> Titles \cup {NoTitle}] /\ unused' \in SUBSET TopicIDs
    BY <2>2, Inserts
  <2> QED
    BY <1>0, <1>4, <2>3 DEF InsertNew, entry, analysis
<1>5. CASE WriteTopicIDs(w)
  <2>1. wrk[w] \in WorkType /\ wrk[w].entry \in Entries
    BY <1>5, Works DEF WriteTopicIDs
  <2>2. wrk[w].chosen \in SUBSET TopicIDs
    BY <2>1 DEF WorkType
  <2> QED
    BY <1>0, <1>5, <2>1, <2>2 DEF WriteTopicIDs, records, analysis
<1>6. CASE WriteAITopicIDs(w)
  <2>1. wrk[w] \in WorkType /\ wrk[w].entry \in Entries
    BY <1>6, Works DEF WriteAITopicIDs
  <2>2. wrk[w].chosen \in SUBSET TopicIDs
    BY <2>1 DEF WorkType
  <2> QED
    BY <1>0, <1>6, <2>1, <2>2 DEF WriteAITopicIDs, records, analysis
<1>7. CASE Record(w)
  <2>1. wrk[w] \in WorkType /\ wrk[w].entry \in Entries
    BY <1>7, Works DEF Record
  <2>2. wrk[w].chosen \in SUBSET TopicIDs
    BY <2>1 DEF WorkType
  <2> QED
    BY <1>0, <1>7, <2>1, <2>2 DEF Record, records, analysis
<1>8. CASE SkipRecord(w) \/ Abandon(w)
  <2>1. faults' \in 0..MaxFaults
    BY <1>0, <1>8, Apart DEF SkipRecord, Abandon
  <2> QED
    BY <1>0, <1>8, <2>1 DEF SkipRecord, Abandon, records, entry, analysis
<1>9. CASE Finish(w)
  <2>1. wrk[w] \in WorkType /\ wrk[w].entry \in Entries
    BY <1>9, Works DEF Finish
  <2>2. wrk[w].chosen \in SUBSET TopicIDs
    BY <2>1 DEF WorkType
  <2> QED
    BY <1>0, <1>9, <2>1, <2>2 DEF Finish, SetEntryTopicAnalysis, records
<1>10. CASE FailStatus(w)
  <2>1. wrk[w].entry \in Entries
    BY <1>10, Works DEF FailStatus
  <2>2. faults' \in 0..MaxFaults
    BY <1>0, <1>10, Apart DEF FailStatus
  <2> QED
    BY <1>0, <1>10, <2>1, <2>2 DEF FailStatus, records, entry
<1>11. CASE FailClaim(w)
  <2>1. wrk[w].entry \in Entries
    BY <1>11, Works DEF FailClaim
  <2> QED
    BY <1>0, <1>11, <2>1 DEF FailClaim, records, entry
<1> QED
  BY <1>1, <1>2, <1>3, <1>4, <1>5, <1>6, <1>7, <1>8, <1>9, <1>10, <1>11
     DEF WorkerStep, Analyzer

LEMMA Became ==
    ASSUME TypeInv, NEW r \in Requests, RequestStep(r)
    PROVE  wrk' = wrk /\ \E x : Becomes(r, x)
<1>1. wrk' = wrk
  BY DEF RequestStep, SetTopics, AdministerTopics, ReadEntry, Resolve, Reread, SetTopicIDs,
         SetAITopicIDs, SetReasons, Disable, RecordAdded, RecordRemoved, Recorded,
         LookupCreated, InsertCreated, ReadRenamed, LookupRenamed, Retitle, ReadDeleted,
         Pull, UnsetReason, SkipSweep, DeleteRecord, AbortRequest
<1>2. ReadEntry(r) => \E x : Becomes(r, x)
  BY ReadsEntry
<1>3. Resolve(r) => \E x : Becomes(r, x)
  BY Resolves
<1>4. Reread(r) => \E x : Becomes(r, x)
  BY Rereads
<1>5. SetTopicIDs(r) \/ SetAITopicIDs(r) \/ SetReasons(r) \/ Disable(r)
      => \E x : Becomes(r, x)
  BY Writes DEF Carried
<1>6. RecordAdded(r) => \E x : Becomes(r, x)
  BY RecordsAdded
<1>7. RecordRemoved(r) => \E x : Becomes(r, x)
  BY RecordsRemoved
<1>8. Recorded(r) \/ InsertCreated(r) \/ Retitle(r) \/ DeleteRecord(r) \/ AbortRequest(r)
      => \E x : Becomes(r, x)
  BY Finishes
<1>9. LookupCreated(r) => \E x : Becomes(r, x)
  BY LooksCreated
<1>10. ReadRenamed(r) => \E x : Becomes(r, x)
  BY ReadsRenamed
<1>11. LookupRenamed(r) => \E x : Becomes(r, x)
  BY LooksRenamed
<1>12. ReadDeleted(r) => \E x : Becomes(r, x)
  BY ReadsDeleted
<1>13. ASSUME req[r].pc = "sweep", NEW part, req' = [req EXCEPT ![r].sweep = @ \ {part}]
       PROVE  \E x : Becomes(r, x)
  BY <1>13, Sweeps
<1>14. Pull(r) => \E x : Becomes(r, x)
  BY <1>13 DEF Pull
<1>15. UnsetReason(r) => \E x : Becomes(r, x)
  BY <1>13 DEF UnsetReason
<1>16. SkipSweep(r) => \E x : Becomes(r, x)
  BY <1>13 DEF SkipSweep
<1> QED
  BY <1>1, <1>2, <1>3, <1>4, <1>5, <1>6, <1>7, <1>8, <1>9, <1>10, <1>11, <1>12, <1>14,
     <1>15, <1>16 DEF RequestStep, SetTopics, AdministerTopics

\* The entry of a choice.
LEMMA Chooses ==
    ASSUME TypeInv, NEW r \in Requests, req[r].pc \in Choosing
    PROVE  req[r] \in RequestType /\ req[r].entry \in Entries
BY DEF TypeInv, TypeOK, RequestFits

LEMMA RequestStores ==
    ASSUME TypeInv, NEW r \in Requests, RequestStep(r)
    PROVE  StoreTyped'
<1> USE DEF StoreTyped
<1>0. StoreTyped /\ req[r] \in RequestType /\ RequestFits(req[r])
  BY DEF TypeInv, TypeOK
<1>1. CASE \/ ReadEntry(r) \/ Resolve(r) \/ Reread(r) \/ Recorded(r)
           \/ LookupCreated(r) \/ ReadRenamed(r) \/ LookupRenamed(r)
           \/ ReadDeleted(r) \/ AbortRequest(r)
  BY <1>0, <1>1 DEF ReadEntry, Resolve, Reread, Recorded, LookupCreated, ReadRenamed,
     LookupRenamed, ReadDeleted, AbortRequest, records, entry, analysis
<1>2. CASE SetTopicIDs(r) \/ SetAITopicIDs(r) \/ SetReasons(r) \/ Disable(r)
  <2>1. req[r].entry \in Entries
    BY <1>2, Chooses DEF SetTopicIDs, SetAITopicIDs, SetReasons, Disable, Choosing
  <2>2. /\ req[r].wanted \in SUBSET TopicIDs /\ req[r].ai \in SUBSET TopicIDs
        /\ req[r].why \in SUBSET TopicIDs
    BY <1>0 DEF RequestType
  <2>3. CASE SetTopicIDs(r)
    BY <1>0, <2>1, <2>2, <2>3 DEF SetTopicIDs, records, analysis
  <2>4. CASE SetAITopicIDs(r)
    BY <1>0, <2>1, <2>2, <2>4 DEF SetAITopicIDs, records, analysis
  <2>5. CASE SetReasons(r)
    BY <1>0, <2>1, <2>2, <2>5 DEF SetReasons, records, analysis
  <2>6. CASE Disable(r)
    BY <1>0, <2>1, <2>6 DEF Disable, records, entry
  <2> QED
    BY <1>2, <2>3, <2>4, <2>5, <2>6
<1>3. CASE RecordAdded(r)
  <2>1. req[r].entry \in Entries
    BY <1>3, Chooses DEF RecordAdded, Choosing
  <2>2. PICK t \in TopicIDs : replay' = [replay EXCEPT ![req[r].entry] = @ \cup {t}]
    BY <1>3, RecordsAdded
  <2> QED
    BY <1>0, <1>3, <2>1, <2>2 DEF RecordAdded, records, analysis
<1>4. CASE RecordRemoved(r)
  <2>1. req[r].entry \in Entries
    BY <1>4, Chooses DEF RecordRemoved, Choosing
  <2>2. PICK t : replay' = [replay EXCEPT ![req[r].entry] = @ \ {t}]
    BY <1>4 DEF RecordRemoved
  <2> QED
    BY <1>0, <1>4, <2>1, <2>2 DEF RecordRemoved, records, analysis
<1>5. CASE InsertCreated(r)
  <2>1. PICK t \in TopicIDs, n \in Titles : n = req[r].title /\ InsertEntryTopic(t, n)
    BY <1>0, <1>5 DEF InsertCreated, RequestFits
  <2>2. title' \in [TopicIDs -> Titles \cup {NoTitle}] /\ unused' \in SUBSET TopicIDs
    BY <2>1, Inserts
  <2> QED
    BY <1>0, <1>5, <2>2 DEF InsertCreated, entry, analysis
<1>6. CASE Retitle(r)
  <2>1. req[r].topic \in TopicIDs /\ req[r].title \in Titles
    BY <1>0, <1>6 DEF Retitle, RequestFits
  <2> QED
    BY <1>0, <1>6, <2>1 DEF Retitle, entry, analysis
<1>7. CASE Pull(r) \/ UnsetReason(r)
  BY <1>0, <1>7 DEF Pull, UnsetReason, records, analysis
<1>8. CASE SkipSweep(r)
  <2>1. faults' \in 0..MaxFaults
    BY <1>0, <1>8, Apart DEF SkipSweep
  <2> QED
    BY <1>0, <1>8, <2>1 DEF SkipSweep, records, entry, analysis
<1>9. CASE DeleteRecord(r)
  BY <1>0, <1>9 DEF DeleteRecord, entry, analysis
<1> QED
  BY <1>1, <1>2, <1>3, <1>4, <1>5, <1>6, <1>7, <1>8, <1>9
     DEF RequestStep, SetTopics, AdministerTopics

\* The steps of Next, by who takes them.
LEMMA NextSteps ==
    ASSUME TypeInv, Next
    PROVE  \/ \E w \in Workers : WorkerStep(w)
           \/ \E r \in Requests : RequestStep(r)
           \/ \E w \in Workers : Refresh(w)
           \/ \E e \in Entries : Expire(e)
BY DEF Next, WorkerStep, RequestStep

LEMMA ReachIs ==
    ASSUME TypeInv, NEW r \in Requests
    PROVE  Reach(r) \in SUBSET Entries
BY DEF Reach, TypeInv, TypeOK, RequestType

\* What every step notes.
LEMMA Observes ==
    ASSUME TypeInv, Next
    PROVE  /\ \E left \in SUBSET Entries : Observe(left)
           /\ contested' \in SUBSET Entries /\ crossed' \in SUBSET Titles
<1>1. \E left \in SUBSET Entries : Observe(left)
  <2>1. {} \in SUBSET Entries
    OBVIOUS
  <2>2. ASSUME NEW w \in Workers, FailStatus(w) \/ SkipRecord(w) \/ Abandon(w)
        PROVE  {wrk[w].entry} \in SUBSET Entries
    BY <2>2, Works DEF FailStatus, SkipRecord, Abandon
  <2> QED
    BY <2>1, <2>2, ReachIs DEF Next
<1>2. \A left \in SUBSET Entries : Observe(left) =>
         contested' \in SUBSET Entries /\ crossed' \in SUBSET Titles
  BY DEF Observe, TypeInv, TypeOK
<1> QED
  BY <1>1, <1>2

LEMMA Typed == Spec => []TypeInv
<1>1. Init => TypeInv
  <2> SUFFICES ASSUME Init PROVE TypeInv
    OBVIOUS
  <2>1. NoWork \in WorkType /\ WorkFits(NoWork) /\ NoWork.pc = "idle" /\ NoWork.entry = NoEntry
    BY DEF NoWork, WorkType, WorkFits
  <2>2. PICK pc \in RequestPlaces : pc = "new"
    BY DEF RequestPlaces
  <2>3. Ended(pc) \in RequestType /\ Ended(pc).pc = "new" /\ Ended(pc).entry = NoEntry
    BY <2>2, EndedTyped
  <2>4. RequestFits(Ended("new"))
    BY <2>2, <2>3, Apart DEF RequestFits, Choosing
  <2>5. Busy = {} /\ Begun = {}
    BY <2>1, <2>2, <2>3 DEF Init, Busy, Begun
  <2>6. IsFiniteSet(Busy) /\ IsFiniteSet(Begun)
    BY <2>5, FS_EmptySet
  <2>7. TypeOK
    BY <2>1, <2>2, <2>3, Apart DEF Init, TypeOK
  <2> QED
    BY <2>1, <2>4, <2>6, <2>7 DEF Init, TypeInv
<1>2. TypeInv /\ [Next]_vars => TypeInv'
  <2> SUFFICES ASSUME TypeInv, [Next]_vars PROVE TypeInv'
    OBVIOUS
  <2>1. CASE Next
    <3>0. contested' \in SUBSET Entries /\ crossed' \in SUBSET Titles
      BY <2>1, Observes
    <3>1. ASSUME NEW w \in Workers, WorkerStep(w) PROVE TypeInv'
      BY <3>0, <3>1, Turned, WorkerStores, AnalyzerTyped
    <3>2. ASSUME NEW r \in Requests, RequestStep(r) PROVE TypeInv'
      BY <3>0, <3>2, Became, RequestStores, RequestTyped
    <3>3. ASSUME UNCHANGED <<wrk, req>>, StoreTyped' PROVE TypeInv'
      BY <3>0, <3>3 DEF TypeInv, TypeOK, StoreTyped, Busy, Begun
    <3>4. ASSUME NEW w \in Workers, Refresh(w) PROVE TypeInv'
      BY <3>3, <3>4 DEF TypeInv, TypeOK, Refresh, StoreTyped, records, entry, analysis
    <3>5. ASSUME NEW e \in Entries, Expire(e) PROVE TypeInv'
      BY <3>3, <3>5 DEF TypeInv, TypeOK, Expire, StoreTyped, records, entry
    <3> QED
      BY <2>1, <3>1, <3>2, <3>4, <3>5, NextSteps
  <2>2. CASE UNCHANGED vars
    BY <2>2 DEF TypeInv, TypeOK, vars, records, entry, analysis, ghosts, Busy, Begun
  <2> QED
    BY <2>1, <2>2
<1> QED
  BY <1>1, <1>2, PTL DEF Spec

\* Every variable of the code about topics stays in its type, and exactly a busy
\* analyzer has an entry, for any numbers of instances, requests, entries and
\* topics.
THEOREM TopicsAreTyped == Spec => []TypeOK
<1>1. TypeInv => TypeOK
  BY DEF TypeInv
<1> QED
  BY <1>1, Typed, PTL

-----------------------------------------------------------------------------
(* The one shot at an entry.                                               *)

LEMMA StaysDecided ==
    ASSUME TypeInv, [Next]_vars, NEW e \in Entries,
           status[e] \in {"disabled", "done"}, Unattended(e)
    PROVE  status'[e] \in {"disabled", "done"}
<1>0. status \in [Entries -> {"unset", "pending", "done", "failed", "disabled"}]
  BY DEF TypeInv, TypeOK
<1>1. ASSUME NEW w \in Workers, WorkerStep(w) PROVE status'[e] = status[e]
  <2>1. wrk[w].entry # e
    BY DEF Unattended
  <2>2. CASE ClaimNext(w)
    <3>1. PICK f \in Entries :
             NeedsAnalysis(f) /\ status' = [status EXCEPT ![f] = "pending"]
      BY <2>2 DEF ClaimNext
    <3>2. f # e
      BY <3>1 DEF NeedsAnalysis
    <3> QED
      BY <1>0, <3>1, <3>2
  <2>3. CASE Release(w) \/ Finish(w) \/ FailStatus(w)
    BY <1>0, <2>1, <2>3 DEF Release, Finish, SetEntryTopicAnalysis, FailStatus
  <2>4. CASE \/ ListTopics(w) \/ AnswerListed(w) \/ AnswerNew(w) \/ Lookup(w)
             \/ InsertNew(w) \/ WriteTopicIDs(w) \/ WriteAITopicIDs(w) \/ Record(w)
             \/ SkipRecord(w) \/ FailClaim(w) \/ Abandon(w)
    BY <2>4 DEF ListTopics, AnswerListed, AnswerNew, Lookup, InsertNew, WriteTopicIDs,
       WriteAITopicIDs, Record, SkipRecord, FailClaim, Abandon, analysis
  <2> QED
    BY <1>1, <2>2, <2>3, <2>4 DEF WorkerStep, Analyzer
<1>2. ASSUME NEW r \in Requests, RequestStep(r)
      PROVE  status'[e] \in {status[e], "disabled"}
  <2>1. CASE Disable(r)
    BY <1>0, <2>1 DEF Disable
  <2>2. CASE ~Disable(r)
    BY <1>2, <2>2 DEF RequestStep, SetTopics, AdministerTopics, ReadEntry, Resolve, Reread,
       SetTopicIDs, SetAITopicIDs, SetReasons, RecordAdded, RecordRemoved, Recorded,
       LookupCreated, InsertCreated, ReadRenamed, LookupRenamed, Retitle, ReadDeleted,
       Pull, UnsetReason, SkipSweep, DeleteRecord, AbortRequest, analysis
  <2> QED
    BY <2>1, <2>2
<1>3. (\E w \in Workers : Refresh(w)) \/ (\E f \in Entries : Expire(f)) \/ UNCHANGED vars
      => status' = status
  BY DEF Refresh, Expire, vars, analysis
<1> QED
  BY <1>1, <1>2, <1>3, NextSteps

\* An entry that was decided on, by the analyzer or an admin, stays decided unless it
\* is being processed, whatever clears its topics, expires its claim or fails, and for
\* any number of instances: the analyzer has one shot.
THEOREM OneShotOnly == Spec => OneShot
<1>1. TypeInv /\ [Next]_vars =>
         [\A e \in Entries : status[e] \in {"disabled", "done"} /\ Unattended(e)
                             => status'[e] \in {"disabled", "done"}]_vars
  BY StaysDecided
<1> QED
  BY <1>1, Typed, PTL DEF Spec, OneShot

-----------------------------------------------------------------------------
(* The flags.                                                              *)

\* What carries a flag or a reason was applied; so was what an analyzer is about to
\* flag, and what a request keeps of the flags it read.
FlagsApplied(e) == aiTopicIDs[e] \cup reasons[e] \subseteq applied[e]
WorkApplied(w) == wrk[w].pc \in {"aitopicids", "record", "finish"} =>
                     wrk[w].chosen \subseteq applied[wrk[w].entry]
KeepApplied(r) == req[r].pc \in {"topicids", "aitopicids", "reasons"} =>
                     req[r].ai \cup req[r].why \subseteq applied[req[r].entry]

AppliedInv == /\ \A e \in Entries : FlagsApplied(e)
              /\ \A w \in Workers : WorkApplied(w)
              /\ \A r \in Requests : KeepApplied(r)

\* What is applied stays applied.
LEMMA AppliedGrows ==
    ASSUME TypeInv, [Next]_vars
    PROVE  \A e \in Entries : applied[e] \subseteq applied'[e]
<1>0. applied \in [Entries -> SUBSET TopicIDs]
  BY DEF TypeInv, TypeOK
<1>1. ASSUME NEW w \in Workers, WorkerStep(w)
      PROVE  WriteTopicIDs(w) \/ applied' = applied
  BY <1>1 DEF WorkerStep, Analyzer, ClaimNext, Release, ListTopics, AnswerListed, AnswerNew,
     Lookup, InsertNew, WriteAITopicIDs, Record, SkipRecord, Finish, FailStatus, FailClaim,
     Abandon, SetEntryTopicAnalysis
<1>2. ASSUME NEW w \in Workers, WriteTopicIDs(w)
      PROVE  \A e \in Entries : applied[e] \subseteq applied'[e]
  BY <1>0, <1>2 DEF WriteTopicIDs
<1>3. ASSUME NEW r \in Requests, RequestStep(r) PROVE applied' = applied
  BY <1>3 DEF RequestStep, SetTopics, AdministerTopics, ReadEntry, Resolve, Reread,
     SetTopicIDs, SetAITopicIDs, SetReasons, Disable, RecordAdded, RecordRemoved, Recorded,
     LookupCreated, InsertCreated, ReadRenamed, LookupRenamed, Retitle, ReadDeleted,
     Pull, UnsetReason, SkipSweep, DeleteRecord, AbortRequest
<1>4. (\E w \in Workers : Refresh(w)) \/ (\E f \in Entries : Expire(f)) \/ UNCHANGED vars
      => applied' = applied
  BY DEF Refresh, Expire, vars, ghosts
<1> QED
  BY <1>1, <1>2, <1>3, <1>4, NextSteps

LEMMA WorkerApplies ==
    ASSUME TypeInv, AppliedInv, NEW w \in Workers, WorkerStep(w), [Next]_vars
    PROVE  AppliedInv'
<1>0. /\ applied \in [Entries -> SUBSET TopicIDs]
      /\ aiTopicIDs \in [Entries -> SUBSET TopicIDs]
      /\ reasons \in [Entries -> SUBSET TopicIDs]
      /\ wrk[w] \in WorkType
      /\ \A e \in Entries : applied[e] \subseteq applied'[e]
  BY AppliedGrows DEF TypeInv, TypeOK
<1>1. PICK x : Turns(w, x) /\ req' = req
  BY Turned
<1>2. wrk'[w] = x /\ \A v \in Workers : v # w => wrk'[v] = wrk[v]
  BY <1>1, Turn
<1>3. \A r \in Requests : KeepApplied(r)'
  <2> SUFFICES ASSUME NEW r \in Requests, req[r].pc \in {"topicids", "aitopicids", "reasons"}
               PROVE  req[r].ai \cup req[r].why \subseteq applied'[req[r].entry]
    BY <1>1 DEF KeepApplied
  <2>1. req[r].entry \in Entries
    BY Chooses DEF Choosing
  <2> QED
    BY <1>0, <2>1 DEF AppliedInv, KeepApplied
<1>4. ASSUME NEW v \in Workers, v # w PROVE WorkApplied(v)'
  <2> SUFFICES ASSUME wrk[v].pc \in {"aitopicids", "record", "finish"}
               PROVE  wrk[v].chosen \subseteq applied'[wrk[v].entry]
    BY <1>2, <1>4 DEF WorkApplied
  <2>1. wrk[v].entry \in Entries
    BY Works
  <2> QED
    BY <1>0, <2>1 DEF AppliedInv, WorkApplied
<1>5. ASSUME UNCHANGED <<aiTopicIDs, reasons>> PROVE \A e \in Entries : FlagsApplied(e)'
  BY <1>0, <1>5 DEF AppliedInv, FlagsApplied
<1>6. ASSUME NEW y, Turns(w, y), y.pc \notin {"aitopicids", "record", "finish"}
      PROVE  WorkApplied(w)'
  <2>1. wrk'[w] = y
    BY <1>6, Turn
  <2> QED
    BY <1>6, <2>1 DEF WorkApplied
<1>7. ASSUME NEW pc, Onwards(w, pc), wrk[w].pc \in {"aitopicids", "record"}
      PROVE  WorkApplied(w)'
  <2>1. PICK y : Turns(w, y) /\ Onward(wrk[w], y)
    BY <1>7 DEF Onwards
  <2>2. wrk'[w] = y /\ y.entry = wrk[w].entry /\ y.chosen = wrk[w].chosen
    BY <2>1, Turn DEF Onward
  <2>3. wrk[w].entry \in Entries /\ wrk[w].chosen \subseteq applied[wrk[w].entry]
    BY <1>7, Works DEF AppliedInv, WorkApplied
  <2> QED
    BY <1>0, <2>2, <2>3 DEF WorkApplied
<1>8. CASE ClaimNext(w)
  <2>1. WorkApplied(w)'
    BY <1>6, <1>8, Claims
  <2> QED
    BY <1>3, <1>4, <1>5, <1>8, <2>1 DEF ClaimNext, entry, AppliedInv
<1>9. CASE ListTopics(w) \/ AnswerListed(w) \/ AnswerNew(w) \/ Lookup(w) \/ InsertNew(w)
  <2>1. PICK y : Turns(w, y) /\ y.pc \notin {"aitopicids", "record", "finish"}
    BY <1>9, ListedTopics, Answers, AnswersNew, Looks, InsertsNew
  <2>2. WorkApplied(w)'
    BY <1>6, <2>1
  <2>3. UNCHANGED <<aiTopicIDs, reasons>>
    BY <1>9 DEF ListTopics, AnswerListed, AnswerNew, Lookup, InsertNew, entry
  <2> QED
    BY <1>3, <1>4, <1>5, <2>2, <2>3 DEF AppliedInv
<1>10. CASE FailStatus(w)
  <2>1. PICK y : Turns(w, y) /\ y.pc = "failing"
    BY <1>10, Steps DEF Onwards
  <2>2. WorkApplied(w)'
    BY <1>6, <2>1
  <2> QED
    BY <1>3, <1>4, <1>5, <1>10, <2>2 DEF AppliedInv, FailStatus, entry
<1>11. CASE Release(w) \/ Finish(w) \/ FailClaim(w) \/ Abandon(w)
  <2>1. PICK y : Turns(w, y) /\ y.pc = "idle"
    BY <1>11, Quits DEF Rests
  <2>2. WorkApplied(w)'
    BY <1>6, <2>1
  <2>3. CASE FailClaim(w) \/ Abandon(w)
    BY <1>3, <1>4, <1>5, <2>2, <2>3 DEF AppliedInv, FailClaim, Abandon, entry
  <2>4. CASE Release(w) \/ Finish(w)
    <3>1. PICK s : /\ reasons' = [reasons EXCEPT ![wrk[w].entry] = s]
                   /\ aiTopicIDs' = aiTopicIDs
                   /\ s \subseteq applied[wrk[w].entry]
      BY <2>4 DEF Release, Finish, SetEntryTopicAnalysis, AppliedInv, WorkApplied
    <3>2. \A e \in Entries : FlagsApplied(e)'
      BY <1>0, <3>1 DEF AppliedInv, FlagsApplied
    <3> QED
      BY <1>3, <1>4, <2>2, <3>2 DEF AppliedInv
  <2> QED
    BY <1>11, <2>3, <2>4
<1>12. CASE WriteTopicIDs(w)
  <2>1. wrk[w].entry \in Entries
    BY <1>12, Works DEF WriteTopicIDs
  <2>2. PICK y : Turns(w, y) /\ Onward(wrk[w], y)
    BY <1>12, Steps DEF Onwards
  <2>3. wrk'[w] = y /\ y.entry = wrk[w].entry /\ y.chosen = wrk[w].chosen
    BY <2>2, Turn DEF Onward
  <2>4. WorkApplied(w)'
    BY <1>0, <1>12, <2>1, <2>3 DEF WriteTopicIDs, WorkApplied
  <2> QED
    BY <1>3, <1>4, <1>5, <1>12, <2>4 DEF AppliedInv, WriteTopicIDs
<1>13. CASE WriteAITopicIDs(w)
  <2>1. WorkApplied(w)'
    BY <1>7, <1>13, Steps DEF WriteAITopicIDs
  <2>2. wrk[w].entry \in Entries /\ wrk[w].chosen \subseteq applied[wrk[w].entry]
    BY <1>13, Works DEF WriteAITopicIDs, AppliedInv, WorkApplied
  <2>3. \A e \in Entries : FlagsApplied(e)'
    BY <1>0, <1>13, <2>2 DEF WriteAITopicIDs, AppliedInv, FlagsApplied
  <2> QED
    BY <1>3, <1>4, <2>1, <2>3 DEF AppliedInv
<1>14. CASE Record(w) \/ SkipRecord(w)
  <2>1. WorkApplied(w)'
    BY <1>7, <1>14, Steps DEF Record, SkipRecord
  <2> QED
    BY <1>3, <1>4, <1>5, <1>14, <2>1 DEF AppliedInv, Record, SkipRecord, entry
<1> QED
  BY <1>8, <1>9, <1>10, <1>11, <1>12, <1>13, <1>14 DEF WorkerStep, Analyzer

LEMMA RequestApplies ==
    ASSUME TypeInv, AppliedInv, NEW r \in Requests, RequestStep(r), [Next]_vars
    PROVE  AppliedInv'
<1>0. /\ applied \in [Entries -> SUBSET TopicIDs]
      /\ aiTopicIDs \in [Entries -> SUBSET TopicIDs]
      /\ reasons \in [Entries -> SUBSET TopicIDs]
      /\ req[r] \in RequestType
      /\ \A e \in Entries : applied[e] \subseteq applied'[e]
  BY AppliedGrows DEF TypeInv, TypeOK
<1>1. PICK x : Becomes(r, x) /\ wrk' = wrk
  BY Became
<1>2. req'[r] = x /\ \A q \in Requests : q # r => req'[q] = req[q]
  BY <1>1, Become
<1>3. \A w \in Workers : WorkApplied(w)'
  <2> SUFFICES ASSUME NEW w \in Workers, wrk[w].pc \in {"aitopicids", "record", "finish"}
               PROVE  wrk[w].chosen \subseteq applied'[wrk[w].entry]
    BY <1>1 DEF WorkApplied
  <2>1. wrk[w].entry \in Entries
    BY Works
  <2> QED
    BY <1>0, <2>1 DEF AppliedInv, WorkApplied
<1>4. ASSUME NEW q \in Requests, q # r PROVE KeepApplied(q)'
  <2> SUFFICES ASSUME req[q].pc \in {"topicids", "aitopicids", "reasons"}
               PROVE  req[q].ai \cup req[q].why \subseteq applied'[req[q].entry]
    BY <1>2, <1>4 DEF KeepApplied
  <2>1. req[q].entry \in Entries
    BY Chooses DEF Choosing
  <2> QED
    BY <1>0, <2>1 DEF AppliedInv, KeepApplied
<1>5. ASSUME UNCHANGED <<aiTopicIDs, reasons>> PROVE \A e \in Entries : FlagsApplied(e)'
  BY <1>0, <1>5 DEF AppliedInv, FlagsApplied
<1>6. ASSUME NEW y, Becomes(r, y), y.pc \notin {"topicids", "aitopicids", "reasons"}
      PROVE  KeepApplied(r)'
  <2>1. req'[r] = y
    BY <1>6, Become
  <2> QED
    BY <1>6, <2>1 DEF KeepApplied
<1>7. ASSUME NEW pc, Carried(r, pc), req[r].pc \in {"topicids", "aitopicids"}
      PROVE  KeepApplied(r)'
  <2>1. PICK y : Becomes(r, y) /\ Carries(req[r], y) /\ y.ai = req[r].ai /\ y.why = req[r].why
    BY <1>7 DEF Carried
  <2>2. req'[r] = y /\ y.entry = req[r].entry
    BY <2>1, Become DEF Carries
  <2>3. /\ req[r].entry \in Entries
        /\ req[r].ai \cup req[r].why \subseteq applied[req[r].entry]
    BY <1>7, Chooses DEF AppliedInv, KeepApplied, Choosing
  <2> QED
    BY <1>0, <2>1, <2>2, <2>3 DEF KeepApplied
<1>8. CASE \/ ReadEntry(r) \/ Resolve(r) \/ RecordAdded(r) \/ RecordRemoved(r)
           \/ Recorded(r) \/ LookupCreated(r) \/ InsertCreated(r) \/ ReadRenamed(r)
           \/ LookupRenamed(r) \/ Retitle(r) \/ ReadDeleted(r) \/ DeleteRecord(r)
           \/ AbortRequest(r) \/ Disable(r)
  <2>1. PICK y : Becomes(r, y) /\ y.pc \notin {"topicids", "aitopicids", "reasons"}
    BY <1>8, ReadsEntry, Resolves, RecordsAdded, RecordsRemoved, Finishes, LooksCreated,
       ReadsRenamed, LooksRenamed, ReadsDeleted, Writes DEF Over, Carried
  <2>2. KeepApplied(r)'
    BY <1>6, <2>1
  <2>3. UNCHANGED <<aiTopicIDs, reasons>>
    BY <1>8 DEF ReadEntry, Resolve, RecordAdded, RecordRemoved, Recorded, LookupCreated,
       InsertCreated, ReadRenamed, LookupRenamed, Retitle, ReadDeleted, DeleteRecord,
       AbortRequest, Disable, entry
  <2> QED
    BY <1>3, <1>4, <1>5, <2>2, <2>3 DEF AppliedInv
<1>9. CASE Reread(r)
  <2>1. PICK y : /\ Becomes(r, y) /\ Carries(req[r], y) /\ req[r].entry \in Entries
                 /\ y.ai = aiTopicIDs[req[r].entry] \cap y.wanted
                 /\ y.why = reasons[req[r].entry] \cap y.ai
    BY <1>9, Rereads
  <2>2. req'[r] = y /\ y.entry = req[r].entry
    BY <2>1, Become DEF Carries
  <2>3. KeepApplied(r)'
    BY <1>0, <2>1, <2>2 DEF KeepApplied, AppliedInv, FlagsApplied
  <2> QED
    BY <1>3, <1>4, <1>5, <1>9, <2>3 DEF AppliedInv, Reread, entry
<1>10. CASE SetTopicIDs(r)
  <2>1. KeepApplied(r)'
    BY <1>7, <1>10, Writes DEF SetTopicIDs
  <2> QED
    BY <1>3, <1>4, <1>5, <1>10, <2>1 DEF AppliedInv, SetTopicIDs
<1>11. CASE SetAITopicIDs(r) \/ SetReasons(r)
  <2>1. KeepApplied(r)'
    <3>1. CASE SetAITopicIDs(r)
      BY <1>7, <3>1, Writes DEF SetAITopicIDs
    <3>2. CASE SetReasons(r)
      <4>1. PICK y : Becomes(r, y) /\ y.pc \notin {"topicids", "aitopicids", "reasons"}
        BY <3>2, Writes DEF Carried
      <4> QED
        BY <1>6, <4>1
    <3> QED
      BY <1>11, <3>1, <3>2
  <2>2. /\ req[r].entry \in Entries
        /\ req[r].ai \cup req[r].why \subseteq applied[req[r].entry]
    BY <1>11, Chooses DEF AppliedInv, KeepApplied, Choosing, SetAITopicIDs, SetReasons
  <2>3. \A e \in Entries : FlagsApplied(e)'
    BY <1>0, <1>11, <2>2 DEF SetAITopicIDs, SetReasons, AppliedInv, FlagsApplied
  <2> QED
    BY <1>3, <1>4, <2>1, <2>3 DEF AppliedInv
<1>12. CASE Pull(r) \/ UnsetReason(r) \/ SkipSweep(r)
  <2>1. KeepApplied(r)'
    <3>1. PICK part : req[r].pc = "sweep" /\ req' = [req EXCEPT ![r].sweep = @ \ {part}]
      BY <1>12 DEF Pull, UnsetReason, SkipSweep
    <3>2. PICK y : Becomes(r, y) /\ y.pc = "sweep"
      BY <3>1, Sweeps
    <3> QED
      BY <1>6, <3>2
  <2>2. \A e \in Entries : FlagsApplied(e)'
    BY <1>0, <1>12 DEF Pull, UnsetReason, SkipSweep, entry, AppliedInv, FlagsApplied
  <2> QED
    BY <1>3, <1>4, <2>1, <2>2 DEF AppliedInv
<1> QED
  BY <1>8, <1>9, <1>10, <1>11, <1>12 DEF RequestStep, SetTopics, AdministerTopics

\* Whatever analyses, choices and deletions overlap or fail, for any numbers of them, an
\* entry carries the AI flag or the reason of no topic that the analyzer did not apply
\* to it.
THEOREM OnlyGenuineFlags == Spec => []FlagsAreGenuine
<1>1. Init => AppliedInv
  BY DEF Init, AppliedInv, FlagsApplied, WorkApplied, KeepApplied, NoWork, Ended
<1>2. TypeInv /\ AppliedInv /\ [Next]_vars => AppliedInv'
  <2> SUFFICES ASSUME TypeInv, AppliedInv, [Next]_vars PROVE AppliedInv'
    OBVIOUS
  <2>1. (\E w \in Workers : Refresh(w)) \/ (\E f \in Entries : Expire(f)) \/ UNCHANGED vars
        => UNCHANGED <<aiTopicIDs, reasons, wrk, req, applied>>
    BY DEF Refresh, Expire, vars, entry, ghosts
  <2>2. UNCHANGED <<aiTopicIDs, reasons, wrk, req, applied>> => AppliedInv'
    BY DEF AppliedInv, FlagsApplied, WorkApplied, KeepApplied
  <2> QED
    BY <2>1, <2>2, NextSteps, WorkerApplies, RequestApplies
<1>3. AppliedInv => FlagsAreGenuine
  BY DEF AppliedInv, FlagsApplied, FlagsAreGenuine
<1> QED
  BY <1>1, <1>2, <1>3, Typed, PTL DEF Spec

-----------------------------------------------------------------------------
(* Where writers meet.                                                     *)

\* On an entry or a title that the ghosts do not name, nobody meets anybody.
LEMMA Meet ==
    ASSUME TypeInv, TypeInv', Next
    PROVE  /\ contested \subseteq contested' /\ crossed \subseteq crossed'
           /\ \A e \in Entries \ contested' : \A a, b \in Writers(e)' : a = b
           /\ \A n \in Titles \ crossed' : \A a, b \in TitleWriters(n)' : a = b
<1>1. PICK left \in SUBSET Entries : Observe(left)
  BY Observes
<1>2. /\ \A e \in Entries : IsFiniteSet(Writers(e)')
      /\ \A n \in Titles : IsFiniteSet(TitleWriters(n)')
  <2>1. IsFiniteSet(Busy' \cup Begun')
    BY FS_Union DEF TypeInv
  <2>2. ASSUME NEW e \in Entries PROVE Writers(e)' \subseteq Busy' \cup Begun'
    <3>1. ASSUME NEW w \in Workers, wrk'[w].entry = e PROVE w \in Busy'
      BY <3>1, Apart DEF Busy, TypeInv, TypeOK
    <3>2. ASSUME NEW r \in Requests, e \in Reach(r)' PROVE r \in Begun'
      <4>1. req'[r].pc = "sweep" \/ req'[r].entry \in Entries
        BY <3>2 DEF Reach
      <4>2. RequestFits(req'[r])
        BY DEF TypeInv
      <4> QED
        BY <4>1, <4>2 DEF Begun, RequestFits, Choosing
    <3> QED
      BY <3>1, <3>2 DEF Writers
  <2>3. ASSUME NEW n \in Titles PROVE TitleWriters(n)' \subseteq Busy' \cup Begun'
    BY DEF TitleWriters, Busy, Begun
  <2> QED
    BY <2>1, <2>2, <2>3, FS_Subset
<1>3. ASSUME NEW e \in Entries \ contested' PROVE \A a, b \in Writers(e)' : a = b
  <2>1. ~(Cardinality(Writers(e)') > 1)
    BY <1>1 DEF Observe
  <2> QED
    BY <1>2, <2>1, CountedOne
<1>4. ASSUME NEW n \in Titles \ crossed' PROVE \A a, b \in TitleWriters(n)' : a = b
  <2>1. ~(Cardinality(TitleWriters(n)') > 1)
    BY <1>1 DEF Observe
  <2> QED
    BY <1>2, <2>1, CountedOne
<1>5. contested \subseteq contested' /\ crossed \subseteq crossed'
  BY <1>1 DEF Observe
<1> QED
  BY <1>3, <1>4, <1>5

-----------------------------------------------------------------------------
(* Titles.                                                                 *)

\* Who is about to write a title may do so: a new topic when no topic has it, a
\* renamed one when no other topic has it.
MayInsert(w, n) == wrk[w].pc = "insert" /\ wrk[w].title = n => Titled(n) = {}
MayWrite(r, n) ==
    req[r].title = n => /\ req[r].pc = "create" => Titled(n) = {}
                        /\ req[r].pc = "retitle" => Titled(n) \subseteq {req[r].topic}

\* A title that no two writers met on has one topic at most, and one writer.
TitleInv(n) == /\ \A a, b \in TitleWriters(n) : a = b
               /\ \A s, t \in Titled(n) : s = t
               /\ \A w \in Workers : MayInsert(w, n)
               /\ \A r \in Requests : MayWrite(r, n)

TitlesInv == \A n \in Titles \ crossed : TitleInv(n)

LEMMA TitleKept ==
    ASSUME NEW n, TitleInv(n), \A a, b \in TitleWriters(n)' : a = b,
           Titled(n)' \subseteq Titled(n),
           \A w \in Workers : wrk'[w] = wrk[w] \/ MayInsert(w, n)',
           \A r \in Requests : req'[r] = req[r] \/ MayWrite(r, n)'
    PROVE  TitleInv(n)'
<1>1. \A w \in Workers : MayInsert(w, n)'
  BY DEF TitleInv, MayInsert
<1>2. \A r \in Requests : MayWrite(r, n)'
  BY DEF TitleInv, MayWrite
<1> QED
  BY <1>1, <1>2 DEF TitleInv

\* The one writer of a title writes it.
LEMMA TitleWritten ==
    ASSUME NEW n, \A a, b \in TitleWriters(n)' : a = b,
           NEW t, Titled(n)' \subseteq {t},
           \A w \in Workers : ~(wrk'[w].pc = "insert" /\ wrk'[w].title = n),
           \A r \in Requests : req'[r].title = n => req'[r].pc \notin {"create", "retitle"}
    PROVE  TitleInv(n)'
BY DEF TitleInv, MayInsert, MayWrite

LEMMA WorkerTitles ==
    ASSUME TypeInv, TypeInv', Next, TitlesInv, NEW w \in Workers, WorkerStep(w)
    PROVE  TitlesInv'
<1> SUFFICES ASSUME NEW n \in Titles \ crossed' PROVE TitleInv(n)'
  BY DEF TitlesInv
<1>1. TitleInv(n) /\ \A a, b \in TitleWriters(n)' : a = b
  BY Meet DEF TitlesInv
<1>2. ASSUME NEW x, Turns(w, x), MayInsert(w, n)', Titled(n)' \subseteq Titled(n)
      PROVE  TitleInv(n)'
  <2>1. \A v \in Workers : v # w => wrk'[v] = wrk[v]
    BY <1>2, Turn
  <2>2. req' = req
    BY Turned
  <2> QED
    BY <1>1, <1>2, <2>1, <2>2, TitleKept
<1>3. ASSUME NEW x, Turns(w, x), x.pc # "insert" PROVE MayInsert(w, n)'
  <2>1. wrk'[w] = x
    BY <1>3, Turn
  <2> QED
    BY <1>3, <2>1 DEF MayInsert
<1>4. title' = title => Titled(n)' = Titled(n)
  BY DEF Titled, Topics
<1>5. CASE Lookup(w)
  <2>0. title' = title
    BY <1>5 DEF Lookup, records
  <2>1. PICK x : /\ Turns(w, x)
                 /\ \/ x.pc = "topicids"
                    \/ /\ x.pc = "insert" /\ x.title = wrk[w].title
                       /\ FoundByTitle(wrk[w].title) = {}
    BY <1>5, Looks
  <2>2. CASE x.pc = "topicids"
    BY <1>2, <1>3, <1>4, <2>0, <2>1, <2>2
  <2>3. CASE x.pc = "insert" /\ x.title = n
    <3>1. FoundByTitle(n) = {}
      BY <2>1, <2>3
    <3>2. FoundByTitle(n) = Titled(n)
      BY <1>1, FoundIs DEF TitleInv
    <3>3. MayInsert(w, n)'
      BY <1>4, <2>0, <3>1, <3>2 DEF MayInsert
    <3> QED
      BY <1>2, <1>4, <2>0, <2>1, <3>3
  <2>4. CASE x.title # n
    <3>1. wrk'[w] = x
      BY <2>1, Turn
    <3>2. MayInsert(w, n)'
      BY <2>4, <3>1 DEF MayInsert
    <3> QED
      BY <1>2, <1>4, <2>0, <2>1, <3>2
  <2> QED
    BY <2>1, <2>2, <2>3, <2>4
<1>6. CASE InsertNew(w)
  <2>1. PICK t \in TopicIDs, x \in WorkType :
           /\ InsertEntryTopic(t, wrk[w].title) /\ wrk[w].title \in Titles
           /\ Turns(w, x) /\ x.pc = "topicids"
    BY <1>6, InsertsNew
  <2>2. PICK m \in Titles : m = wrk[w].title /\ InsertEntryTopic(t, m)
    BY <2>1
  <2>3. /\ Titled(m)' = Titled(m) \cup {t}
        /\ m # n => Titled(n)' \subseteq Titled(n)
    BY <2>2, Inserts
  <2>4. CASE m # n
    BY <1>2, <1>3, <2>1, <2>3, <2>4
  <2>5. CASE m = n
    <3>1. w \in TitleWriters(n) /\ Titled(n) = {}
      BY <1>1, <1>6, <2>2, <2>5 DEF InsertNew, TitleWriters, TitleInv, MayInsert
    <3>2. \A v \in Workers : ~(wrk'[v].pc = "insert" /\ wrk'[v].title = n)
      <4>1. wrk'[w] = x /\ \A v \in Workers : v # w => wrk'[v] = wrk[v]
        BY <2>1, Turn
      <4>2. \A v \in Workers : wrk[v].pc = "insert" /\ wrk[v].title = n => v = w
        BY <1>1, <3>1 DEF TitleInv, TitleWriters
      <4> QED
        BY <2>1, <4>1, <4>2
    <3>3. \A r \in Requests : req'[r].title = n => req'[r].pc \notin {"create", "retitle"}
      <4>1. \A r \in TitleWriters(n) : r = w
        BY <1>1, <3>1 DEF TitleInv
      <4>2. req' = req
        BY Turned
      <4> QED
        BY <4>1, <4>2, Apart DEF TitleWriters
    <3>4. Titled(n)' \subseteq {t}
      BY <2>3, <2>5, <3>1
    <3> QED
      BY <1>1, <3>2, <3>3, <3>4, TitleWritten
  <2> QED
    BY <2>4, <2>5
<1>7. ASSUME ~Lookup(w), ~InsertNew(w) PROVE TitleInv(n)'
  <2>1. title' = title
    BY <1>7 DEF WorkerStep, Analyzer, ClaimNext, Release, ListTopics, AnswerListed, AnswerNew,
       WriteTopicIDs, WriteAITopicIDs, Record, SkipRecord, Finish, FailStatus, FailClaim,
       Abandon, SetEntryTopicAnalysis, records
  <2>2. PICK x : Turns(w, x) /\ x.pc # "insert"
    BY <1>7, Claims, ListedTopics, Answers, AnswersNew, Steps, Quits
       DEF WorkerStep, Analyzer, Onwards, Rests
  <2> QED
    BY <1>2, <1>3, <1>4, <2>1, <2>2
<1> QED
  BY <1>5, <1>6, <1>7

LEMMA RequestTitles ==
    ASSUME TypeInv, TypeInv', Next, TitlesInv, NEW r \in Requests, RequestStep(r)
    PROVE  TitlesInv'
<1> SUFFICES ASSUME NEW n \in Titles \ crossed' PROVE TitleInv(n)'
  BY DEF TitlesInv
<1>1. TitleInv(n) /\ \A a, b \in TitleWriters(n)' : a = b
  BY Meet DEF TitlesInv
<1>2. ASSUME NEW x, Becomes(r, x), MayWrite(r, n)', Titled(n)' \subseteq Titled(n)
      PROVE  TitleInv(n)'
  <2>1. \A q \in Requests : q # r => req'[q] = req[q]
    BY <1>2, Become
  <2>2. wrk' = wrk
    BY Became
  <2> QED
    BY <1>1, <1>2, <2>1, <2>2, TitleKept
<1>3. ASSUME NEW x, Becomes(r, x), x.pc \notin {"create", "retitle"} \/ x.title # n
      PROVE MayWrite(r, n)'
  <2>1. req'[r] = x
    BY <1>3, Become
  <2> QED
    BY <1>3, <2>1 DEF MayWrite
<1>4. title' = title => Titled(n)' = Titled(n)
  BY DEF Titled, Topics
<1>5. CASE LookupCreated(r)
  <2>0. title' = title
    BY <1>5 DEF LookupCreated, records
  <2>1. PICK m \in Titles, x \in RequestType :
           /\ Becomes(r, x)
           /\ \/ Over(x)
              \/ x.pc = "create" /\ x.title = m /\ FoundByTitle(m) = {}
    BY <1>5, LooksCreated
  <2>2. CASE Over(x) \/ x.title # n
    BY <1>2, <1>3, <1>4, <2>0, <2>1, <2>2 DEF Over
  <2>3. CASE x.pc = "create" /\ x.title = n /\ FoundByTitle(n) = {}
    <3>1. Titled(n) = {}
      BY <1>1, <2>3, FoundIs DEF TitleInv
    <3>2. req'[r] = x
      BY <2>1, Become
    <3>3. MayWrite(r, n)'
      BY <1>4, <2>0, <2>3, <3>1, <3>2 DEF MayWrite
    <3> QED
      BY <1>2, <1>4, <2>0, <2>1, <3>3
  <2> QED
    BY <2>1, <2>2, <2>3
<1>6. CASE ReadRenamed(r)
  <2>0. title' = title
    BY <1>6 DEF ReadRenamed, records
  <2>1. PICK x : /\ Becomes(r, x) /\ x.pc \in {"find", "retitle"} /\ x.title \in Titles
                 /\ x.pc = "retitle" => title[x.topic] = x.title
    BY <1>6, ReadsRenamed
  <2>2. CASE x.pc = "find" \/ x.title # n
    BY <1>2, <1>3, <1>4, <2>0, <2>1, <2>2
  <2>3. CASE x.pc = "retitle" /\ x.title = n
    <3>1. x.topic \in TopicIDs
      BY <2>1, <2>3 DEF Becomes, RequestFits
    <3>2. x.topic \in Titled(n)
      BY <2>1, <2>3, <3>1, Apart DEF Titled, Topics
    <3>3. Titled(n) \subseteq {x.topic}
      BY <1>1, <3>2 DEF TitleInv
    <3>4. req'[r] = x
      BY <2>1, Become
    <3>5. MayWrite(r, n)'
      BY <1>4, <2>0, <2>3, <3>3, <3>4 DEF MayWrite
    <3> QED
      BY <1>2, <1>4, <2>0, <2>1, <3>5
  <2> QED
    BY <2>1, <2>2, <2>3
<1>7. CASE LookupRenamed(r)
  <2>0. title' = title
    BY <1>7 DEF LookupRenamed, records
  <2>1. PICK x : /\ Becomes(r, x)
                 /\ \/ Over(x)
                    \/ /\ x.pc = "retitle" /\ Carries(req[r], x)
                       /\ FoundByTitle(req[r].title) \subseteq {req[r].topic}
    BY <1>7, LooksRenamed
  <2>2. CASE Over(x) \/ x.title # n
    BY <1>2, <1>3, <1>4, <2>0, <2>1, <2>2 DEF Over
  <2>3. CASE /\ x.pc = "retitle" /\ Carries(req[r], x) /\ x.title = n
             /\ FoundByTitle(req[r].title) \subseteq {req[r].topic}
    <3>1. FoundByTitle(n) \subseteq {x.topic}
      BY <2>3 DEF Carries
    <3>2. Titled(n) \subseteq {x.topic}
      BY <1>1, <3>1, FoundIs DEF TitleInv
    <3>3. req'[r] = x
      BY <2>1, Become
    <3>4. MayWrite(r, n)'
      BY <1>4, <2>0, <2>3, <3>2, <3>3 DEF MayWrite
    <3> QED
      BY <1>2, <1>4, <2>0, <2>1, <3>4
  <2> QED
    BY <2>1, <2>2, <2>3
<1>8. ASSUME InsertCreated(r) \/ Retitle(r), req[r].title = n,
             NEW t, Titled(n)' \subseteq {t}
      PROVE  TitleInv(n)'
  <2>1. r \in TitleWriters(n)
    BY <1>8 DEF InsertCreated, Retitle, TitleWriters
  <2>2. PICK x : Becomes(r, x) /\ x.pc = "over"
    BY <1>8, Finishes DEF Over
  <2>3. \A q \in TitleWriters(n) : q = r
    BY <1>1, <2>1 DEF TitleInv
  <2>4. wrk' = wrk
    BY Became
  <2>5. \A w \in Workers : ~(wrk'[w].pc = "insert" /\ wrk'[w].title = n)
    BY <2>3, <2>4, Apart DEF TitleWriters
  <2>6. req'[r] = x /\ \A q \in Requests : q # r => req'[q] = req[q]
    BY <2>2, Become
  <2>7. \A q \in Requests : req'[q].title = n => req'[q].pc \notin {"create", "retitle"}
    BY <2>2, <2>3, <2>6 DEF TitleWriters
  <2> QED
    BY <1>1, <1>8, <2>5, <2>7, TitleWritten
<1>9. ASSUME InsertCreated(r) \/ Retitle(r) \/ DeleteRecord(r), Titled(n)' \subseteq Titled(n)
      PROVE  TitleInv(n)'
  <2>1. PICK x : Becomes(r, x) /\ x.pc = "over"
    BY <1>9, Finishes DEF Over
  <2> QED
    BY <1>2, <1>3, <1>9, <2>1
<1>10. CASE InsertCreated(r)
  <2>0. req[r].title \in Titles
    BY <1>10 DEF InsertCreated, TypeInv, RequestFits
  <2>1. PICK t \in TopicIDs, m \in Titles : m = req[r].title /\ InsertEntryTopic(t, m)
    BY <1>10, <2>0 DEF InsertCreated
  <2>2. /\ Titled(m)' = Titled(m) \cup {t}
        /\ m # n => Titled(n)' \subseteq Titled(n)
    BY <2>1, Inserts
  <2>3. CASE m = n
    <3>1. Titled(n) = {}
      BY <1>1, <1>10, <2>1, <2>3 DEF InsertCreated, TitleInv, MayWrite
    <3> QED
      BY <1>8, <1>10, <2>1, <2>2, <2>3, <3>1
  <2>4. CASE m # n
    BY <1>9, <1>10, <2>2, <2>4
  <2> QED
    BY <2>3, <2>4
<1>11. CASE Retitle(r)
  <2>0. title \in [TopicIDs -> Titles \cup {NoTitle}]
    BY DEF TypeInv, TypeOK
  <2>1. PICK t, m : t = req[r].topic /\ m = req[r].title
    OBVIOUS
  <2>2. /\ t \in TopicIDs
        /\ title' = IF t \in Topics THEN [title EXCEPT ![t] = m] ELSE title
    BY <1>11, <2>1 DEF Retitle, TypeInv, RequestFits
  <2>3. CASE m = n
    <3>1. Titled(n) \subseteq {t}
      BY <1>1, <1>11, <2>1, <2>3 DEF Retitle, TitleInv, MayWrite
    <3>2. Titled(n)' \subseteq {t}
      BY <2>0, <2>2, <3>1 DEF Titled, Topics
    <3> QED
      BY <1>8, <1>11, <2>1, <2>3, <3>2
  <2>4. CASE m # n
    <3>1. Titled(n)' \subseteq Titled(n)
      BY <2>0, <2>2, <2>4 DEF Titled, Topics
    <3> QED
      BY <1>9, <1>11, <3>1
  <2> QED
    BY <2>3, <2>4
<1>12. CASE DeleteRecord(r)
  <2>1. PICK t : title' = [title EXCEPT ![t] = NoTitle]
    BY <1>12 DEF DeleteRecord
  <2>2. Titled(n)' \subseteq Titled(n)
    BY <2>1, Apart DEF Titled, Topics, TypeInv, TypeOK
  <2> QED
    BY <1>9, <1>12, <2>2
<1>13. ASSUME ~LookupCreated(r), ~ReadRenamed(r), ~LookupRenamed(r), ~InsertCreated(r),
              ~Retitle(r), ~DeleteRecord(r)
       PROVE  TitleInv(n)'
  <2>1. title' = title
    BY <1>13 DEF RequestStep, SetTopics, AdministerTopics, ReadEntry, Resolve, Reread,
       SetTopicIDs, SetAITopicIDs, SetReasons, Disable, RecordAdded, RecordRemoved, Recorded,
       ReadDeleted, Pull, UnsetReason, SkipSweep, AbortRequest, records
  <2>2. Pull(r) \/ UnsetReason(r) \/ SkipSweep(r) => \E x : Becomes(r, x) /\ x.pc = "sweep"
    <3>1. ASSUME Pull(r) \/ UnsetReason(r) \/ SkipSweep(r)
          PROVE  \E x : Becomes(r, x) /\ x.pc = "sweep"
      <4>1. PICK part : req[r].pc = "sweep" /\ req' = [req EXCEPT ![r].sweep = @ \ {part}]
        BY <3>1 DEF Pull, UnsetReason, SkipSweep
      <4> QED
        BY <4>1, Sweeps
    <3> QED
      BY <3>1
  <2>3. Resolve(r) \/ Recorded(r) \/ AbortRequest(r)
        => \E x : Becomes(r, x) /\ x.pc \notin {"create", "retitle"}
    BY Resolves, Finishes DEF Over
  <2>4. SetTopicIDs(r) \/ SetAITopicIDs(r) \/ SetReasons(r) \/ Disable(r)
        => \E x : Becomes(r, x) /\ x.pc \notin {"create", "retitle"}
    BY Writes DEF Carried
  <2>5. ReadEntry(r) \/ Reread(r) \/ RecordAdded(r) \/ RecordRemoved(r) \/ ReadDeleted(r)
        => \E x : Becomes(r, x) /\ x.pc \notin {"create", "retitle"}
    BY ReadsEntry, Rereads, RecordsAdded, RecordsRemoved, ReadsDeleted
  <2>6. PICK x : Becomes(r, x) /\ x.pc \notin {"create", "retitle"}
    BY <1>13, <2>2, <2>3, <2>4, <2>5 DEF RequestStep, SetTopics, AdministerTopics
  <2> QED
    BY <1>2, <1>3, <1>4, <2>1, <2>6
<1> QED
  BY <1>5, <1>6, <1>7, <1>10, <1>11, <1>12, <1>13

\* For any numbers of instances, requests and topics: however analyzers, creations,
\* renamings and deletions interleave and fail between their lookups and their writes, a
\* title is one topic's, but for a title that two of them had looked up at once.
THEOREM UniqueTitles == Spec => []TitlesUnique
<1>1. Init => TitlesInv
  <2> SUFFICES ASSUME Init, NEW n \in Titles PROVE TitleInv(n)
    BY DEF TitlesInv
  <2>1. Topics = {}
    BY DEF Init, Topics
  <2>2. TitleWriters(n) = {} /\ Titled(n) = {}
    BY <2>1 DEF Init, TitleWriters, Titled, NoWork, Ended
  <2> QED
    BY <2>2 DEF TitleInv, MayInsert, MayWrite
<1>2. TypeInv /\ TypeInv' /\ TitlesInv /\ [Next]_vars => TitlesInv'
  <2> SUFFICES ASSUME TypeInv, TypeInv', TitlesInv, [Next]_vars PROVE TitlesInv'
    OBVIOUS
  <2>1. CASE UNCHANGED vars
    BY <2>1 DEF TitlesInv, TitleInv, MayInsert, MayWrite, TitleWriters, Titled, Topics, vars,
       records, ghosts
  <2>2. ASSUME Next, UNCHANGED <<title, wrk, req>> PROVE TitlesInv'
    <3> SUFFICES ASSUME NEW n \in Titles \ crossed' PROVE TitleInv(n)'
      BY DEF TitlesInv
    <3>1. TitleInv(n)
      BY <2>2, Meet DEF TitlesInv
    <3> QED
      BY <2>2, <3>1 DEF TitleInv, MayInsert, MayWrite, TitleWriters, Titled, Topics
  <2>3. (\E w \in Workers : Refresh(w)) \/ (\E e \in Entries : Expire(e))
        => UNCHANGED <<title, wrk, req>>
    BY DEF Refresh, Expire, records
  <2> QED
    BY <2>1, <2>2, <2>3, NextSteps, WorkerTitles, RequestTitles
<1>3. TitlesInv => TitlesUnique
  BY AtMostOne DEF TitlesInv, TitleInv, TitlesUnique
<1> QED
  BY <1>1, <1>2, <1>3, Typed, PTL DEF Spec

-----------------------------------------------------------------------------
(* New ids.                                                                *)

Adds(r) == /\ req[r].added \subseteq req[r].wanted
           /\ req[r].pc # "resolve" => req[r].added \cap unused = {}

\* An id that no topic has had is nowhere yet: a timeline, a list and a choice name
\* topics that exist or existed.
IdsInv == /\ Topics \cap unused = {}
          /\ \A e \in Entries : replay[e] \cap unused = {}
          /\ \A w \in Workers : Lists(wrk[w]) \cap unused = {}
          /\ \A r \in Requests : Adds(r)

LEMMA WorkerLists ==
    ASSUME TypeInv, Topics \cap unused = {}, NEW w \in Workers, WorkerStep(w)
    PROVE  /\ \E x : Turns(w, x) /\ Lists(x) \subseteq Lists(wrk[w]) \cup Topics'
           /\ unused' \subseteq unused /\ Topics \subseteq Topics'
           /\ Topics' \cap unused' = {}
<1>1. CASE InsertNew(w)
  <2>1. PICK t \in TopicIDs, x \in WorkType :
           /\ InsertEntryTopic(t, wrk[w].title) /\ wrk[w].title \in Titles
           /\ Turns(w, x) /\ Lists(x) \subseteq Lists(wrk[w]) \cup {t}
    BY <1>1, InsertsNew
  <2>2. PICK m \in Titles : m = wrk[w].title /\ InsertEntryTopic(t, m)
    BY <2>1
  <2>3. t \in unused /\ unused' = unused \ {t} /\ Topics' = Topics \cup {t}
    BY <2>2, Inserts
  <2> QED
    BY <2>1, <2>3
<1>2. CASE ~InsertNew(w)
  <2>1. title' = title /\ unused' = unused
    BY <1>2 DEF WorkerStep, Analyzer, ClaimNext, Release, ListTopics, AnswerListed, AnswerNew,
       Lookup, WriteTopicIDs, WriteAITopicIDs, Record, SkipRecord, Finish, FailStatus, FailClaim,
       Abandon, SetEntryTopicAnalysis, records
  <2>2. Topics' = Topics
    BY <2>1 DEF Topics
  <2>3. ClaimNext(w) => \E x : Turns(w, x) /\ Lists(x) \subseteq Lists(wrk[w]) \cup Topics
    <3>1. ASSUME ClaimNext(w) PROVE \E x : Turns(w, x) /\ Lists(x) \subseteq Lists(wrk[w]) \cup Topics
      <4>1. PICK x : Turns(w, x) /\ x.listed = {} /\ x.chosen = {}
        BY <3>1, Claims
      <4>2. Lists(x) = {}
        BY <4>1 DEF Lists
      <4> QED
        BY <4>1, <4>2
    <3> QED
      BY <3>1
  <2>4. ListTopics(w) => \E x : Turns(w, x) /\ Lists(x) \subseteq Lists(wrk[w]) \cup Topics
    BY ListedTopics DEF Lists
  <2>5. AnswerListed(w) \/ AnswerNew(w) \/ Lookup(w)
        => \E x : Turns(w, x) /\ Lists(x) \subseteq Lists(wrk[w]) \cup Topics
    BY Answers, AnswersNew, Looks
  <2>6. ASSUME NEW pc, Onwards(w, pc)
        PROVE  \E x : Turns(w, x) /\ Lists(x) \subseteq Lists(wrk[w]) \cup Topics
    <3>1. PICK x : Turns(w, x) /\ Onward(wrk[w], x)
      BY <2>6 DEF Onwards
    <3>2. Lists(x) = Lists(wrk[w])
      BY <3>1 DEF Onward, Lists
    <3> QED
      BY <3>1, <3>2
  <2>7. Release(w) \/ Finish(w) \/ FailClaim(w) \/ Abandon(w)
        => \E x : Turns(w, x) /\ Lists(x) \subseteq Lists(wrk[w]) \cup Topics
    <3>1. ASSUME Release(w) \/ Finish(w) \/ FailClaim(w) \/ Abandon(w)
          PROVE \E x : Turns(w, x) /\ Lists(x) \subseteq Lists(wrk[w]) \cup Topics
      <4>1. PICK x : Turns(w, x) /\ Rests(x)
        BY <3>1, Quits
      <4>2. Lists(x) = {}
        BY <4>1 DEF Lists, Rests
      <4> QED
        BY <4>1, <4>2
    <3> QED
      BY <3>1
  <2>8. \E x : Turns(w, x) /\ Lists(x) \subseteq Lists(wrk[w]) \cup Topics
    BY <1>2, <2>3, <2>4, <2>5, <2>6, <2>7, Steps DEF WorkerStep, Analyzer
  <2> QED
    BY <2>1, <2>2, <2>8
<1> QED
  BY <1>1, <1>2

LEMMA WorkerIds ==
    ASSUME TypeInv, IdsInv, NEW w \in Workers, WorkerStep(w)
    PROVE  IdsInv'
<1>1. PICK x : Turns(w, x) /\ Lists(x) \subseteq Lists(wrk[w]) \cup Topics'
  BY WorkerLists DEF IdsInv
<1>2. unused' \subseteq unused /\ Topics \subseteq Topics' /\ Topics' \cap unused' = {}
  BY WorkerLists DEF IdsInv
<1>3. wrk'[w] = x /\ \A v \in Workers : v # w => wrk'[v] = wrk[v]
  BY <1>1, Turn
<1>4. ASSUME NEW v \in Workers PROVE Lists(wrk[v])' \cap unused' = {}
  <2>1. CASE v = w
    <3>1. Lists(wrk[v])' = Lists(x)
      BY <1>3, <2>1 DEF Lists
    <3> QED
      BY <1>1, <1>2, <3>1 DEF IdsInv
  <2>2. CASE v # w
    <3>1. Lists(wrk[v])' = Lists(wrk[v])
      BY <1>3, <2>2 DEF Lists
    <3> QED
      BY <1>2, <3>1 DEF IdsInv
  <2> QED
    BY <2>1, <2>2
<1>5. \A r \in Requests : Adds(r)'
  <2>1. req' = req
    BY Turned
  <2> QED
    BY <1>2, <2>1 DEF IdsInv, Adds
<1>6. ASSUME NEW e \in Entries PROVE replay'[e] \cap unused' = {}
  <2>1. replay \in [Entries -> SUBSET TopicIDs]
    BY DEF TypeInv, TypeOK
  <2>2. CASE Record(w)
    <3>1. wrk[w].chosen \cap unused = {}
      BY DEF IdsInv, Lists
    <3>2. replay'[e] \subseteq replay[e] \cup wrk[w].chosen
      BY <2>1, <2>2 DEF Record
    <3> QED
      BY <1>2, <3>1, <3>2 DEF IdsInv
  <2>3. CASE ~Record(w)
    <3>1. replay' = replay
      BY <2>3 DEF WorkerStep, Analyzer, ClaimNext, Release, ListTopics, AnswerListed, AnswerNew,
         Lookup, InsertNew, WriteTopicIDs, WriteAITopicIDs, SkipRecord, Finish, FailStatus,
         FailClaim, Abandon, SetEntryTopicAnalysis, entry
    <3> QED
      BY <1>2, <3>1 DEF IdsInv
  <2> QED
    BY <2>2, <2>3
<1> QED
  BY <1>2, <1>4, <1>5, <1>6 DEF IdsInv

\* What a request adds is what it wants, and exists since it was resolved.
LEMMA RequestAdds ==
    ASSUME TypeInv, IdsInv, NEW r \in Requests, RequestStep(r)
    PROVE  \E x : /\ Becomes(r, x) /\ x.added \subseteq x.wanted
                  /\ x.pc # "resolve" => x.added \cap unused = {}
<1> DEFINE Good(x) == /\ Becomes(r, x) /\ x.added \subseteq x.wanted
                      /\ x.pc # "resolve" => x.added \cap unused = {}
<1>0. Adds(r) /\ Topics \cap unused = {}
  BY DEF IdsInv
<1>1. ASSUME NEW x, Becomes(r, x), Over(x) \/ x.added = {} PROVE Good(x)
  BY <1>1 DEF Over
<1>2. ASSUME NEW x, Becomes(r, x), Carries(req[r], x), req[r].pc # "resolve" PROVE Good(x)
  BY <1>0, <1>2 DEF Carries, Adds
<1>3. CASE ReadEntry(r)
  BY <1>3, ReadsEntry
<1>4. CASE Resolve(r)
  <2>1. PICK x : /\ Becomes(r, x)
                 /\ \/ Over(x)
                    \/ Carries(req[r], x) /\ req[r].wanted \subseteq Topics
    BY <1>4, Resolves
  <2>2. CASE Over(x)
    BY <1>1, <2>1, <2>2
  <2>3. CASE Carries(req[r], x) /\ req[r].wanted \subseteq Topics
    BY <1>0, <2>1, <2>3 DEF Carries, Adds
  <2> QED
    BY <2>1, <2>2, <2>3
<1>5. CASE Reread(r)
  <2>1. PICK x : Becomes(r, x) /\ Carries(req[r], x)
    BY <1>5, Rereads
  <2> QED
    BY <1>2, <1>5, <2>1 DEF Reread
<1>6. CASE SetTopicIDs(r) \/ SetAITopicIDs(r) \/ SetReasons(r) \/ Disable(r)
  <2>1. PICK x : Becomes(r, x) /\ Carries(req[r], x)
    BY <1>6, Writes DEF Carried
  <2> QED
    BY <1>2, <1>6, <2>1 DEF SetTopicIDs, SetAITopicIDs, SetReasons, Disable
<1>7. CASE RecordAdded(r)
  <2>1. PICK t \in req[r].added, x \in RequestType :
           /\ Becomes(r, x) /\ x.wanted = req[r].wanted /\ x.added = req[r].added \ {t}
    BY <1>7, RecordsAdded
  <2> QED
    BY <1>0, <1>7, <2>1 DEF RecordAdded, Adds
<1>8. CASE RecordRemoved(r)
  BY <1>1, <1>8, RecordsRemoved
<1>9. CASE \/ Recorded(r) \/ InsertCreated(r) \/ Retitle(r) \/ DeleteRecord(r)
           \/ AbortRequest(r)
  <2>1. PICK x : Becomes(r, x) /\ Over(x)
    BY <1>9, Finishes
  <2> QED
    BY <1>1, <2>1
<1>10. CASE LookupCreated(r)
  <2>1. PICK x : Becomes(r, x) /\ (Over(x) \/ x.added = {})
    BY <1>10, LooksCreated
  <2> QED
    BY <1>1, <2>1
<1>11. CASE ReadRenamed(r) \/ ReadDeleted(r)
  <2>1. PICK x : Becomes(r, x) /\ x.added = {}
    BY <1>11, ReadsRenamed, ReadsDeleted
  <2> QED
    BY <1>1, <2>1
<1>12. CASE LookupRenamed(r)
  <2>1. PICK x : Becomes(r, x) /\ (Over(x) \/ Carries(req[r], x))
    BY <1>12, LooksRenamed
  <2> QED
    BY <1>1, <1>2, <1>12, <2>1 DEF LookupRenamed
<1>13. CASE Pull(r) \/ UnsetReason(r) \/ SkipSweep(r)
  <2>1. PICK part : req[r].pc = "sweep" /\ req' = [req EXCEPT ![r].sweep = @ \ {part}]
    BY <1>13 DEF Pull, UnsetReason, SkipSweep
  <2>2. PICK x : Becomes(r, x) /\ Carries(req[r], x)
    BY <2>1, Sweeps
  <2> QED
    BY <1>2, <2>1, <2>2
<1> QED
  BY <1>3, <1>4, <1>5, <1>6, <1>7, <1>8, <1>9, <1>10, <1>11, <1>12, <1>13
     DEF RequestStep, SetTopics, AdministerTopics

LEMMA RequestTopics ==
    ASSUME TypeInv, Topics \cap unused = {}, NEW r \in Requests, RequestStep(r)
    PROVE  /\ unused' \subseteq unused /\ Topics' \cap unused' = {}
           /\ ~DeleteRecord(r) => Topics \subseteq Topics' /\ Topics' \ Topics \subseteq unused
<1>1. CASE InsertCreated(r)
  <2>0. req[r].title \in Titles
    BY <1>1 DEF InsertCreated, TypeInv, RequestFits
  <2>1. PICK t \in TopicIDs, m \in Titles : m = req[r].title /\ InsertEntryTopic(t, m)
    BY <1>1, <2>0 DEF InsertCreated
  <2>2. t \in unused /\ unused' = unused \ {t} /\ Topics' = Topics \cup {t}
    BY <2>1, Inserts
  <2> QED
    BY <2>2
<1>2. CASE Retitle(r)
  <2>1. req[r].title \in Titles
    BY <1>2 DEF Retitle, TypeInv, RequestFits
  <2>2. Topics' = Topics /\ unused' = unused
    BY <1>2, <2>1, Apart DEF Retitle, Topics, TypeInv, TypeOK
  <2> QED
    BY <2>2
<1>3. CASE DeleteRecord(r)
  <2>1. Topics' \subseteq Topics /\ unused' = unused
    BY <1>3 DEF DeleteRecord, Topics, TypeInv, TypeOK
  <2> QED
    BY <1>3, <2>1
<1>4. CASE ~InsertCreated(r) /\ ~Retitle(r) /\ ~DeleteRecord(r)
  <2>1. title' = title /\ unused' = unused
    BY <1>4 DEF RequestStep, SetTopics, AdministerTopics, ReadEntry, Resolve, Reread,
       SetTopicIDs, SetAITopicIDs, SetReasons, Disable, RecordAdded, RecordRemoved, Recorded,
       LookupCreated, ReadRenamed, LookupRenamed, ReadDeleted, Pull, UnsetReason, SkipSweep,
       AbortRequest, records
  <2> QED
    BY <2>1 DEF Topics
<1> QED
  BY <1>1, <1>2, <1>3, <1>4

LEMMA RequestIds ==
    ASSUME TypeInv, IdsInv, NEW r \in Requests, RequestStep(r)
    PROVE  IdsInv'
<1>1. PICK x : /\ Becomes(r, x) /\ x.added \subseteq x.wanted
               /\ x.pc # "resolve" => x.added \cap unused = {}
  BY RequestAdds
<1>2. unused' \subseteq unused /\ Topics' \cap unused' = {}
  BY RequestTopics DEF IdsInv
<1>3. req'[r] = x /\ \A q \in Requests : q # r => req'[q] = req[q]
  BY <1>1, Become
<1>4. \A q \in Requests : Adds(q)'
  BY <1>1, <1>2, <1>3 DEF IdsInv, Adds
<1>5. \A w \in Workers : Lists(wrk[w])' \cap unused' = {}
  <2>1. wrk' = wrk
    BY Became
  <2>2. \A w \in Workers : Lists(wrk[w])' = Lists(wrk[w])
    BY <2>1 DEF Lists
  <2> QED
    BY <1>2, <2>2 DEF IdsInv
<1>6. ASSUME NEW e \in Entries PROVE replay'[e] \cap unused' = {}
  <2>1. replay \in [Entries -> SUBSET TopicIDs]
    BY DEF TypeInv, TypeOK
  <2>2. CASE RecordAdded(r)
    <3>1. req[r].added \cap unused = {}
      BY <2>2 DEF RecordAdded, IdsInv, Adds
    <3>2. replay'[e] \subseteq replay[e] \cup req[r].added
      BY <2>1, <2>2 DEF RecordAdded
    <3> QED
      BY <1>2, <3>1, <3>2 DEF IdsInv
  <2>3. CASE RecordRemoved(r)
    <3>1. replay'[e] \subseteq replay[e]
      BY <2>1, <2>3 DEF RecordRemoved
    <3> QED
      BY <1>2, <3>1 DEF IdsInv
  <2>4. CASE ~RecordAdded(r) /\ ~RecordRemoved(r)
    <3>1. replay' = replay
      BY <2>4 DEF RequestStep, SetTopics, AdministerTopics, ReadEntry, Resolve, Reread,
         SetTopicIDs, SetAITopicIDs, SetReasons, Disable, Recorded, LookupCreated, InsertCreated,
         ReadRenamed, LookupRenamed, Retitle, ReadDeleted, Pull, UnsetReason, SkipSweep,
         DeleteRecord, AbortRequest, entry
    <3> QED
      BY <1>2, <3>1 DEF IdsInv
  <2> QED
    BY <2>2, <2>3, <2>4
<1> QED
  BY <1>2, <1>4, <1>5, <1>6 DEF IdsInv

LEMMA IdsAlways == Spec => []IdsInv
<1>1. Init => IdsInv
  BY DEF Init, IdsInv, Lists, Adds, Topics, NoWork, Ended
<1>2. TypeInv /\ IdsInv /\ [Next]_vars => IdsInv'
  <2> SUFFICES ASSUME TypeInv, IdsInv, [Next]_vars PROVE IdsInv'
    OBVIOUS
  <2>1. (\E w \in Workers : Refresh(w)) \/ (\E e \in Entries : Expire(e)) \/ UNCHANGED vars
        => UNCHANGED <<title, unused, replay, wrk, req>>
    BY DEF Refresh, Expire, vars, records, entry
  <2>2. UNCHANGED <<title, unused, replay, wrk, req>> => IdsInv'
    BY DEF IdsInv, Lists, Adds, Topics
  <2> QED
    BY <2>1, <2>2, NextSteps, WorkerIds, RequestIds
<1> QED
  BY <1>1, <1>2, Typed, PTL DEF Spec

-----------------------------------------------------------------------------
(* Entries.                                                                *)

\* An entry as one that nobody is writing should be.
Settled(e) == /\ aiTopicIDs[e] \subseteq topicIDs[e] /\ reasons[e] = aiTopicIDs[e]
              /\ topicIDs[e] \subseteq Topics
              /\ replay[e] \cap Topics = topicIDs[e]

\* An entry that the analyzer w has, and nobody else, with what it wrote so far.
Analyzed(w, e) ==
    /\ Lists(wrk[w]) \subseteq Topics
    /\ topicIDs[e] = IF wrk[w].pc \in {"aitopicids", "record", "finish"}
                     THEN wrk[w].chosen ELSE {}
    /\ aiTopicIDs[e] = IF wrk[w].pc \in {"record", "finish"} THEN wrk[w].chosen ELSE {}
    /\ replay[e] \cap Topics = IF wrk[w].pc = "finish" THEN wrk[w].chosen ELSE {}
    /\ reasons[e] = {}

\* An entry that the choice r has, and nobody else: its rows to come are the
\* difference between the timeline and what is wanted.
Chosen(r, e) ==
    /\ req[r].removed \cap req[r].wanted = {}
    /\ ((replay[e] \cap Topics) \cup req[r].added) \ req[r].removed = req[r].wanted
    /\ req[r].pc # "resolve" => req[r].wanted \subseteq Topics
    /\ req[r].pc \in {"resolve", "reread", "topicids"} => Settled(e)
    /\ req[r].pc \in {"topicids", "aitopicids", "reasons"} =>
          req[r].ai \subseteq req[r].wanted /\ req[r].why = req[r].ai
    /\ req[r].pc \in {"aitopicids", "reasons", "disable", "record"} =>
          topicIDs[e] = req[r].wanted
    /\ req[r].pc = "reasons" => aiTopicIDs[e] = req[r].ai
    /\ req[r].pc \in {"disable", "record"} =>
          aiTopicIDs[e] \subseteq req[r].wanted /\ reasons[e] = aiTopicIDs[e]

\* An entry while the deletion r of a topic goes on, and nothing else: only that
\* topic may be out of step, until it is swept.
Swept(r, e) ==
    /\ aiTopicIDs[e] \subseteq topicIDs[e] /\ topicIDs[e] \subseteq Topics
    /\ reasons[e] \ {req[r].topic} = aiTopicIDs[e] \ {req[r].topic}
    /\ (replay[e] \cap Topics) \ {req[r].topic} = topicIDs[e] \ {req[r].topic}
    /\ "pull" \notin req[r].sweep => req[r].topic \notin topicIDs[e]
    /\ "unset" \notin req[r].sweep => req[r].topic \notin reasons[e]

\* On an entry that no two writers met on, and none died on, a writer is alone and
\* the entry is as it left it so far; one without a writer is settled.
EntryInv(e) ==
    /\ \A a, b \in Writers(e) : a = b
    /\ Writers(e) = {} => Settled(e)
    /\ \A w \in Workers : wrk[w].entry = e => Analyzed(w, e)
    /\ \A r \in Requests : req[r].entry = e => Chosen(r, e)
    /\ \A r \in Requests : req[r].pc = "sweep" => Swept(r, e)

EntriesInv == \A e \in Entries \ contested : EntryInv(e)

LEMMA WritersAre ==
    ASSUME NEW e \in Entries
    PROVE  /\ \A w \in Workers : w \in Writers(e) <=> wrk[w].entry = e
           /\ \A r \in Requests : r \in Writers(e)
                                  <=> req[r].entry = e \/ req[r].pc = "sweep"
           /\ Writers(e) \subseteq Workers \cup Requests
           /\ \A w \in Workers : w \in Writers(e)' <=> wrk'[w].entry = e
           /\ \A r \in Requests : r \in Writers(e)'
                                  <=> req'[r].entry = e \/ req'[r].pc = "sweep"
           /\ Writers(e)' \subseteq Workers \cup Requests
<1>1. /\ \A r \in Requests : e \in Reach(r) <=> req[r].entry = e \/ req[r].pc = "sweep"
      /\ \A r \in Requests : e \in Reach(r)' <=> req'[r].entry = e \/ req'[r].pc = "sweep"
  BY Apart DEF Reach
<1> QED
  BY <1>1, Apart DEF Writers

\* What is left of an entry when others move: topics that are new are on none of it.
Untouched(e) == /\ topicIDs'[e] = topicIDs[e] /\ aiTopicIDs'[e] = aiTopicIDs[e]
                /\ reasons'[e] = reasons[e] /\ replay'[e] = replay[e]
                /\ Topics \subseteq Topics' /\ replay[e] \cap Topics' = replay[e] \cap Topics

LEMMA Elsewhere ==
    ASSUME NEW e \in Entries, EntryInv(e), \A a, b \in Writers(e)' : a = b, Untouched(e),
           \A w \in Workers : \/ wrk'[w] = wrk[w]
                              \/ wrk[w].entry # e /\ wrk'[w].entry # e,
           \A r \in Requests : \/ req'[r] = req[r]
                               \/ /\ req[r].entry # e /\ req'[r].entry # e
                                  /\ req[r].pc # "sweep" /\ req'[r].pc # "sweep"
    PROVE  EntryInv(e)'
<1>1. Settled(e) => Settled(e)'
  BY DEF Settled, Untouched
<1>2. Writers(e)' = {} => Writers(e) = {}
  BY WritersAre
<1>3. ASSUME NEW w \in Workers, wrk'[w].entry = e PROVE Analyzed(w, e)'
  <2>1. wrk'[w] = wrk[w] /\ Analyzed(w, e)
    BY <1>3 DEF EntryInv
  <2>2. Lists(wrk[w])' = Lists(wrk[w])
    BY <2>1 DEF Lists
  <2> QED
    BY <2>1, <2>2 DEF Analyzed, Untouched
<1>4. ASSUME NEW r \in Requests, req'[r].entry = e PROVE Chosen(r, e)'
  <2>1. req'[r] = req[r] /\ Chosen(r, e)
    BY <1>4 DEF EntryInv
  <2> QED
    BY <1>1, <2>1 DEF Chosen, Untouched
<1>5. ASSUME NEW r \in Requests, req'[r].pc = "sweep" PROVE Swept(r, e)'
  <2>1. req'[r] = req[r] /\ Swept(r, e)
    BY <1>5 DEF EntryInv
  <2> QED
    BY <2>1 DEF Swept, Untouched
<1> QED
  BY <1>1, <1>2, <1>3, <1>4, <1>5 DEF EntryInv

\* The one writer of an entry moves, an analyzer or a request.
LEMMA WorkerHere ==
    ASSUME TypeInv, NEW e \in Entries, EntryInv(e), \A a, b \in Writers(e)' : a = b,
           NEW w \in Workers, NEW x, Turns(w, x), req' = req,
           wrk[w].entry = e \/ x.entry = e,
           x.entry = e => Analyzed(w, e)', x.entry # e => Settled(e)'
    PROVE  EntryInv(e)'
<1>1. wrk'[w] = x /\ \A v \in Workers : v # w => wrk'[v] = wrk[v]
  BY Turn
<1>2. ASSUME NEW v \in Workers, v # w PROVE wrk'[v].entry # e
  BY <1>1, <1>2, WritersAre DEF EntryInv
<1>3. ASSUME NEW r \in Requests PROVE req'[r].entry # e /\ req'[r].pc # "sweep"
  BY <1>1, Apart, WritersAre DEF EntryInv
<1>4. Writers(e)' = {} => x.entry # e
  BY <1>1, WritersAre
<1> QED
  BY <1>1, <1>2, <1>3, <1>4 DEF EntryInv

LEMMA RequestHere ==
    ASSUME TypeInv, NEW e \in Entries, EntryInv(e), \A a, b \in Writers(e)' : a = b,
           NEW r \in Requests, NEW x, Becomes(r, x), wrk' = wrk,
           \/ req[r].entry = e \/ req[r].pc = "sweep"
           \/ x.entry = e \/ x.pc = "sweep",
           x.entry = e => Chosen(r, e)', x.pc = "sweep" => Swept(r, e)',
           x.entry # e /\ x.pc # "sweep" => Settled(e)'
    PROVE  EntryInv(e)'
<1>1. req'[r] = x /\ \A q \in Requests : q # r => req'[q] = req[q]
  BY Become
<1>2. ASSUME NEW q \in Requests, q # r PROVE req'[q].entry # e /\ req'[q].pc # "sweep"
  BY <1>1, <1>2, WritersAre DEF EntryInv
<1>3. ASSUME NEW w \in Workers PROVE wrk'[w].entry # e
  BY <1>1, Apart, WritersAre DEF EntryInv
<1>4. Writers(e)' = {} => x.entry # e /\ x.pc # "sweep"
  BY <1>1, WritersAre
<1> QED
  BY <1>1, <1>2, <1>3, <1>4 DEF EntryInv

\* An entry that gets its one writer was settled.
LEMMA WorkerComes ==
    ASSUME TypeInv, NEW e \in Entries, EntryInv(e), \A a, b \in Writers(e)' : a = b,
           NEW w \in Workers, NEW x, Turns(w, x), req' = req,
           wrk[w].entry # e, x.entry = e
    PROVE  Settled(e)
<1>1. wrk'[w] = x /\ \A v \in Workers : v # w => wrk'[v] = wrk[v]
  BY Turn
<1>2. ASSUME NEW v \in Workers PROVE v \notin Writers(e)
  BY <1>1, <1>2, WritersAre
<1>3. ASSUME NEW r \in Requests PROVE r \notin Writers(e)
  BY <1>1, <1>3, Apart, WritersAre
<1>4. Writers(e) = {}
  BY <1>2, <1>3, WritersAre
<1> QED
  BY <1>4 DEF EntryInv

LEMMA RequestComes ==
    ASSUME TypeInv, NEW e \in Entries, EntryInv(e), \A a, b \in Writers(e)' : a = b,
           NEW r \in Requests, NEW x, Becomes(r, x), wrk' = wrk,
           req[r].entry # e, req[r].pc # "sweep", x.entry = e \/ x.pc = "sweep"
    PROVE  Settled(e)
<1>1. req'[r] = x /\ \A q \in Requests : q # r => req'[q] = req[q]
  BY Become
<1>2. ASSUME NEW q \in Requests PROVE q \notin Writers(e)
  BY <1>1, <1>2, WritersAre
<1>3. ASSUME NEW w \in Workers PROVE w \notin Writers(e)
  BY <1>1, <1>3, Apart, WritersAre
<1>4. Writers(e) = {}
  BY <1>2, <1>3, WritersAre
<1> QED
  BY <1>4 DEF EntryInv

\* A new topic is on the timeline of no entry.
LEMMA NewIsNowhere ==
    ASSUME TypeInv, IdsInv, NEW w \in Workers, WorkerStep(w), NEW e \in Entries
    PROVE  Topics \subseteq Topics' /\ replay[e] \cap Topics' = replay[e] \cap Topics
<1>1. CASE InsertNew(w)
  <2>1. PICK t \in TopicIDs, m \in Titles : InsertEntryTopic(t, m)
    BY <1>1, InsertsNew
  <2>2. t \in unused /\ Topics' = Topics \cup {t}
    BY <2>1, Inserts
  <2> QED
    BY <2>2 DEF IdsInv
<1>2. CASE ~InsertNew(w)
  <2>1. title' = title
    BY <1>2 DEF WorkerStep, Analyzer, ClaimNext, Release, ListTopics, AnswerListed, AnswerNew,
       Lookup, WriteTopicIDs, WriteAITopicIDs, Record, SkipRecord, Finish, FailStatus, FailClaim,
       Abandon, SetEntryTopicAnalysis, records
  <2> QED
    BY <2>1 DEF Topics
<1> QED
  BY <1>1, <1>2

LEMMA WorkerElsewhere ==
    ASSUME TypeInv, IdsInv, NEW w \in Workers, WorkerStep(w), NEW e \in Entries,
           EntryInv(e), \A a, b \in Writers(e)' : a = b,
           wrk[w].entry # e, wrk'[w].entry # e
    PROVE  EntryInv(e)'
<1>0. /\ topicIDs \in [Entries -> SUBSET TopicIDs]
      /\ aiTopicIDs \in [Entries -> SUBSET TopicIDs]
      /\ reasons \in [Entries -> SUBSET TopicIDs]
      /\ replay \in [Entries -> SUBSET TopicIDs]
  BY DEF TypeInv, TypeOK
<1>1. /\ topicIDs'[e] = topicIDs[e] /\ aiTopicIDs'[e] = aiTopicIDs[e]
      /\ reasons'[e] = reasons[e] /\ replay'[e] = replay[e]
  <2>1. CASE WriteTopicIDs(w) \/ WriteAITopicIDs(w) \/ Record(w)
    BY <1>0, <2>1 DEF WriteTopicIDs, WriteAITopicIDs, Record
  <2>2. CASE Release(w) \/ Finish(w)
    BY <1>0, <2>2 DEF Release, Finish, SetEntryTopicAnalysis
  <2>3. CASE /\ ~WriteTopicIDs(w) /\ ~WriteAITopicIDs(w) /\ ~Record(w) /\ ~Release(w)
             /\ ~Finish(w)
    BY <2>3 DEF WorkerStep, Analyzer, ClaimNext, ListTopics, AnswerListed, AnswerNew,
       Lookup, InsertNew, SkipRecord, FailStatus, FailClaim, Abandon, entry
  <2> QED
    BY <2>1, <2>2, <2>3
<1>2. Untouched(e)
  BY <1>1, NewIsNowhere DEF Untouched
<1>3. /\ req' = req /\ \A v \in Workers : v # w => wrk'[v] = wrk[v]
  BY Turned, Turn
<1> QED
  BY <1>2, <1>3, Elsewhere

\* A step of an analyzer with what the ghosts note of it.
WorkerNotes(w) ==
    \/ Analyzer(w)
    \/ FailStatus(w) /\ Observe(IF wrk[w].pc = "aitopicids" THEN {wrk[w].entry} ELSE {})
    \/ (SkipRecord(w) \/ Abandon(w)) /\ Observe({wrk[w].entry})

\* The steps before the first write to the entry.
Early == {"claimed", "calling", "lookup", "insert", "topicids", "failing"}

LEMMA Prepares ==
    ASSUME NEW w \in Workers, NEW e \in Entries, NEW x, wrk'[w] = x,
           Analyzed(w, e), wrk[w].pc \in Early, x.pc \in Early, Untouched(e),
           Lists(x) \subseteq Lists(wrk[w]) \cup Topics'
    PROVE  Analyzed(w, e)'
<1>1. Lists(wrk[w])' = Lists(x)
  BY DEF Lists
<1>2. Lists(x) \subseteq Topics'
  BY DEF Analyzed, Untouched
<1> QED
  BY <1>1, <1>2 DEF Analyzed, Untouched, Early

LEMMA WorkerEntries ==
    ASSUME TypeInv, TypeInv', IdsInv, Next, EntriesInv, NEW w \in Workers, WorkerNotes(w)
    PROVE  EntriesInv'
<1> SUFFICES ASSUME NEW e \in Entries \ contested' PROVE EntryInv(e)'
  BY DEF EntriesInv
<1>1. EntryInv(e) /\ \A a, b \in Writers(e)' : a = b
  BY Meet DEF EntriesInv
<1>2. WorkerStep(w) /\ req' = req
  BY Turned DEF WorkerNotes, WorkerStep
<1>3. CASE wrk[w].entry # e /\ wrk'[w].entry # e
  BY <1>1, <1>2, <1>3, WorkerElsewhere
<1>4. /\ topicIDs \in [Entries -> SUBSET TopicIDs]
      /\ aiTopicIDs \in [Entries -> SUBSET TopicIDs]
      /\ reasons \in [Entries -> SUBSET TopicIDs]
      /\ replay \in [Entries -> SUBSET TopicIDs]
  BY DEF TypeInv, TypeOK
<1>5. /\ Topics \subseteq Topics' /\ replay[e] \cap Topics' = replay[e] \cap Topics
      /\ title' = title => Topics' = Topics
  BY <1>2, NewIsNowhere DEF Topics
<1>6. CASE ClaimNext(w) /\ wrk'[w].entry = e
  <2>1. PICK f \in Entries, x \in WorkType :
           /\ Turns(w, x) /\ x.pc = "claimed" /\ x.entry = f
           /\ x.listed = {} /\ x.chosen = {} /\ topicIDs[f] = {}
    BY <1>6, Claims
  <2>2. wrk'[w] = x /\ f = e
    BY <1>6, <2>1, Turn
  <2>3. wrk[w].entry # e
    BY <1>6, Apart DEF ClaimNext, TypeInv, TypeOK
  <2>4. Settled(e)
    BY <1>1, <1>2, <2>1, <2>2, <2>3, WorkerComes
  <2>5. UNCHANGED <<title, topicIDs, aiTopicIDs, reasons, replay>>
    BY <1>6 DEF ClaimNext, records, entry
  <2>6. Lists(wrk[w])' = {}
    BY <2>1, <2>2 DEF Lists
  <2>7. Analyzed(w, e)'
    BY <1>5, <2>1, <2>2, <2>4, <2>5, <2>6 DEF Analyzed, Settled
  <2> QED
    BY <1>1, <1>2, <2>1, <2>2, <2>7, WorkerHere
<1>7. ASSUME wrk[w].entry = e PROVE EntryInv(e)'
  <2>0. Analyzed(w, e)
    BY <1>1, <1>7 DEF EntryInv
  <2>1. ASSUME NEW x, Turns(w, x), x.entry = e, x.pc \in Early, wrk[w].pc \in Early,
               Lists(x) \subseteq Lists(wrk[w]) \cup Topics',
               UNCHANGED <<topicIDs, aiTopicIDs, reasons, replay>>
        PROVE  EntryInv(e)'
    <3>1. wrk'[w] = x
      BY <2>1, Turn
    <3>2. Untouched(e)
      BY <1>5, <2>1 DEF Untouched
    <3>3. Analyzed(w, e)'
      BY <2>0, <2>1, <3>1, <3>2, Prepares
    <3> QED
      BY <1>1, <1>2, <1>7, <2>1, <3>3, WorkerHere
  <2>2. ASSUME NEW x, Turns(w, x), Rests(x), Settled(e)' PROVE EntryInv(e)'
    <3>1. x.entry # e
      BY <2>2, Apart DEF Rests
    <3> QED
      BY <1>1, <1>2, <1>7, <2>2, <3>1, WorkerHere
  <2>3. CASE ListTopics(w) \/ AnswerListed(w) \/ AnswerNew(w) \/ Lookup(w) \/ InsertNew(w)
    <3>1. PICK x : /\ Turns(w, x) /\ x.entry = wrk[w].entry
                   /\ x.pc \in {"calling", "topicids", "lookup", "insert"}
      BY <2>3, ListedTopics, Answers, AnswersNew, Looks, InsertsNew
    <3>2. PICK y : Turns(w, y) /\ Lists(y) \subseteq Lists(wrk[w]) \cup Topics'
      BY <1>2, WorkerLists DEF IdsInv
    <3>3. x = y
      BY <3>1, <3>2, Turn
    <3>4. wrk[w].pc \in Early /\ UNCHANGED <<topicIDs, aiTopicIDs, reasons, replay>>
      BY <2>3 DEF ListTopics, AnswerListed, AnswerNew, Lookup, InsertNew, Early, entry
    <3>5. x.pc \in Early /\ x.entry = e
      BY <1>7, <3>1 DEF Early
    <3> QED
      BY <2>1, <3>1, <3>2, <3>3, <3>4, <3>5
  <2>4. CASE FailStatus(w) /\ wrk[w].pc # "aitopicids"
    <3>1. PICK x : Turns(w, x) /\ Onward(wrk[w], x) /\ x.pc = "failing"
      BY <2>4, Steps DEF Onwards
    <3>2. Lists(x) = Lists(wrk[w]) /\ x.entry = e
      BY <1>7, <3>1 DEF Onward, Lists
    <3>3. wrk[w].pc \in Early /\ x.pc \in Early
      BY <2>4, <3>1 DEF FailStatus, Early
    <3> QED
      BY <2>1, <2>4, <3>1, <3>2, <3>3 DEF FailStatus, entry
  <2>5. CASE Release(w) \/ FailClaim(w) \/ Finish(w)
    <3>1. PICK x : Turns(w, x) /\ Rests(x)
      BY <2>5, Quits
    <3>2. title' = title /\ UNCHANGED <<topicIDs, aiTopicIDs, replay>>
      BY <2>5 DEF Release, FailClaim, Finish, SetEntryTopicAnalysis, records, entry
    <3>3. Lists(wrk[w]) \subseteq Topics /\ wrk[w].chosen \subseteq Topics
      BY <2>0 DEF Analyzed, Lists
    <3>4. CASE Finish(w)
      <4>1. /\ reasons'[e] = wrk[w].chosen /\ topicIDs[e] = wrk[w].chosen
            /\ aiTopicIDs[e] = wrk[w].chosen /\ replay[e] \cap Topics = wrk[w].chosen
        BY <1>4, <1>7, <2>0, <3>4 DEF Finish, SetEntryTopicAnalysis, Analyzed
      <4>2. Settled(e)'
        BY <1>5, <3>2, <3>3, <4>1 DEF Settled
      <4> QED
        BY <2>2, <3>1, <4>2
    <3>5. CASE Release(w) \/ FailClaim(w)
      <4>1. /\ reasons'[e] = {} /\ topicIDs[e] = {} /\ aiTopicIDs[e] = {}
            /\ replay[e] \cap Topics = {}
        BY <1>4, <1>7, <2>0, <3>5
           DEF Release, FailClaim, SetEntryTopicAnalysis, Analyzed, entry
      <4>2. Settled(e)'
        BY <1>5, <3>2, <4>1 DEF Settled
      <4> QED
        BY <2>2, <3>1, <4>2
    <3> QED
      BY <2>5, <3>4, <3>5
  <2>6. CASE WriteTopicIDs(w) \/ WriteAITopicIDs(w) \/ Record(w)
    <3>1. PICK x : /\ Turns(w, x) /\ Onward(wrk[w], x)
                   /\ x.pc = CASE wrk[w].pc = "topicids" -> "aitopicids"
                               [] wrk[w].pc = "aitopicids" -> "record"
                               [] wrk[w].pc = "record" -> "finish"
      BY <2>6, Steps DEF Onwards, WriteTopicIDs, WriteAITopicIDs, Record
    <3>2. /\ Lists(x) = Lists(wrk[w]) /\ x.entry = e /\ x.chosen = wrk[w].chosen
          /\ wrk'[w] = x
      BY <1>7, <3>1, Turn DEF Onward, Lists
    <3>3. Lists(wrk[w])' \subseteq Topics /\ wrk[w].chosen \subseteq Topics
      BY <2>0, <3>2 DEF Analyzed, Lists
    <3>4. Topics' = Topics
      BY <1>5, <2>6 DEF WriteTopicIDs, WriteAITopicIDs, Record, records
    <3>5. Analyzed(w, e)'
      <4>1. CASE WriteTopicIDs(w)
        BY <1>4, <1>7, <2>0, <3>1, <3>2, <3>3, <3>4, <4>1 DEF WriteTopicIDs, Analyzed
      <4>2. CASE WriteAITopicIDs(w)
        BY <1>4, <1>7, <2>0, <3>1, <3>2, <3>3, <3>4, <4>2 DEF WriteAITopicIDs, Analyzed
      <4>3. CASE Record(w)
        BY <1>4, <1>7, <2>0, <3>1, <3>2, <3>3, <3>4, <4>3 DEF Record, Analyzed
      <4> QED
        BY <2>6, <4>1, <4>2, <4>3
    <3> QED
      BY <1>1, <1>2, <1>7, <3>1, <3>2, <3>5, WorkerHere
  <2>7. ~ClaimNext(w)
    BY <1>7, Apart DEF ClaimNext, TypeInv, TypeOK
  <2>8. ASSUME \/ FailStatus(w) /\ wrk[w].pc = "aitopicids"
               \/ SkipRecord(w) \/ Abandon(w),
               ~Analyzer(w), ~(FailStatus(w) /\ wrk[w].pc # "aitopicids")
        PROVE FALSE
    BY <1>7, <2>8 DEF WorkerNotes, Observe
  <2> QED
    BY <2>3, <2>4, <2>5, <2>6, <2>7, <2>8 DEF WorkerNotes, Analyzer
<1>8. ClaimNext(w) \/ wrk'[w].entry \in {wrk[w].entry, NoEntry}
  <2>1. ASSUME NEW x, Turns(w, x), x.entry \in {wrk[w].entry, NoEntry}
        PROVE  wrk'[w].entry \in {wrk[w].entry, NoEntry}
    BY <2>1, Turn
  <2>2. ListTopics(w) \/ AnswerListed(w) \/ AnswerNew(w) \/ Lookup(w) \/ InsertNew(w)
        => \E x : Turns(w, x) /\ x.entry \in {wrk[w].entry, NoEntry}
    BY ListedTopics, Answers, AnswersNew, Looks, InsertsNew
  <2>3. WriteTopicIDs(w) \/ WriteAITopicIDs(w) \/ Record(w) \/ SkipRecord(w) \/ FailStatus(w)
        => \E x : Turns(w, x) /\ x.entry \in {wrk[w].entry, NoEntry}
    BY Steps DEF Onwards, Onward
  <2>4. Release(w) \/ Finish(w) \/ FailClaim(w) \/ Abandon(w)
        => \E x : Turns(w, x) /\ x.entry \in {wrk[w].entry, NoEntry}
    BY Quits DEF Rests
  <2> QED
    BY <1>2, <2>1, <2>2, <2>3, <2>4 DEF WorkerStep, Analyzer
<1> QED
  BY <1>3, <1>6, <1>7, <1>8, Apart

\* A step of a request with what the ghosts note of it.
RequestNotes(r) == \/ SetTopics(r) \/ AdministerTopics(r)
                   \/ (SkipSweep(r) \/ AbortRequest(r)) /\ Observe(Reach(r))

LEMMA RequestElsewhere ==
    ASSUME TypeInv, IdsInv, NEW r \in Requests, RequestStep(r), NEW e \in Entries,
           EntryInv(e), \A a, b \in Writers(e)' : a = b,
           req[r].entry # e, req'[r].entry # e,
           req[r].pc # "sweep", req'[r].pc # "sweep"
    PROVE  EntryInv(e)'
<1>0. /\ topicIDs \in [Entries -> SUBSET TopicIDs]
      /\ aiTopicIDs \in [Entries -> SUBSET TopicIDs]
      /\ reasons \in [Entries -> SUBSET TopicIDs]
      /\ replay \in [Entries -> SUBSET TopicIDs]
  BY DEF TypeInv, TypeOK
<1>1. /\ topicIDs'[e] = topicIDs[e] /\ aiTopicIDs'[e] = aiTopicIDs[e]
      /\ reasons'[e] = reasons[e] /\ replay'[e] = replay[e]
  <2>1. CASE \/ SetTopicIDs(r) \/ SetAITopicIDs(r) \/ SetReasons(r)
             \/ RecordAdded(r) \/ RecordRemoved(r)
    BY <1>0, <2>1 DEF SetTopicIDs, SetAITopicIDs, SetReasons, RecordAdded, RecordRemoved
  <2>2. CASE /\ ~SetTopicIDs(r) /\ ~SetAITopicIDs(r) /\ ~SetReasons(r)
             /\ ~RecordAdded(r) /\ ~RecordRemoved(r)
    BY <2>2 DEF RequestStep, SetTopics, AdministerTopics, ReadEntry, Resolve, Reread,
       Disable, Recorded, LookupCreated, InsertCreated, ReadRenamed, LookupRenamed, Retitle,
       ReadDeleted, Pull, UnsetReason, SkipSweep, DeleteRecord, AbortRequest, entry
  <2> QED
    BY <2>1, <2>2
<1>2. Topics \subseteq Topics' /\ Topics' \ Topics \subseteq unused
  BY RequestTopics DEF IdsInv, DeleteRecord
<1>3. replay[e] \cap unused = {}
  BY DEF IdsInv
<1>4. Untouched(e)
  BY <1>1, <1>2, <1>3 DEF Untouched
<1>5. wrk' = wrk /\ \A q \in Requests : q # r => req'[q] = req[q]
  BY Became, Become
<1> QED
  BY <1>4, <1>5, Elsewhere

LEMMA ChoiceComes ==
    ASSUME TypeInv, NEW r \in Requests, NEW e \in Entries, NEW x, req'[r] = x,
           Settled(e), x.pc = "resolve",
           x.added = x.wanted \ topicIDs[e], x.removed = topicIDs[e] \ x.wanted,
           UNCHANGED <<title, topicIDs, aiTopicIDs, reasons, replay>>
    PROVE  Chosen(r, e)'
<1>1. Topics' = Topics
  BY DEF Topics
<1>2. Settled(e)'
  BY <1>1 DEF Settled
<1> QED
  BY <1>1, <1>2 DEF Chosen, Settled

\* The steps of a choice, on its entry.
LEMMA ChoiceGoesOn ==
    ASSUME TypeInv, NEW r \in Requests, NEW e \in Entries, req[r].entry = e, Chosen(r, e),
           Adds(r), SetTopics(r), ~ReadEntry(r)
    PROVE  \E x : /\ Becomes(r, x) /\ x.pc # "sweep"
                  /\ x.entry = e => Chosen(r, e)'
                  /\ x.entry # e => Settled(e)'
<1>0. /\ topicIDs \in [Entries -> SUBSET TopicIDs]
      /\ aiTopicIDs \in [Entries -> SUBSET TopicIDs]
      /\ reasons \in [Entries -> SUBSET TopicIDs]
      /\ replay \in [Entries -> SUBSET TopicIDs]
  BY DEF TypeInv, TypeOK
<1>1. title' = title
  BY DEF SetTopics, ReadEntry, Resolve, Reread, SetTopicIDs, SetAITopicIDs, SetReasons,
     Disable, RecordAdded, RecordRemoved, Recorded, records
<1>2. Topics' = Topics
  BY <1>1 DEF Topics
<1>3. ASSUME NEW x, Becomes(r, x), Over(x), Settled(e),
             UNCHANGED <<topicIDs, aiTopicIDs, reasons, replay>>
      PROVE  /\ Becomes(r, x) /\ x.pc # "sweep"
             /\ x.entry = e => Chosen(r, e)'
             /\ x.entry # e => Settled(e)'
  <2>1. Settled(e)'
    BY <1>2, <1>3 DEF Settled
  <2> QED
    BY <1>3, <2>1, Apart DEF Over
<1>4. CASE Resolve(r)
  <2>0. req[r].pc = "resolve" /\ UNCHANGED <<topicIDs, aiTopicIDs, reasons, replay>>
    BY <1>4 DEF Resolve, entry
  <2>1. PICK x : /\ Becomes(r, x)
                 /\ \/ Over(x)
                    \/ /\ x.pc = "reread" /\ Carries(req[r], x)
                       /\ req[r].wanted \subseteq Topics
    BY <1>4, Resolves
  <2>2. Settled(e)
    BY <2>0 DEF Chosen
  <2>3. CASE Over(x)
    BY <1>3, <2>0, <2>1, <2>2, <2>3
  <2>4. CASE x.pc = "reread" /\ Carries(req[r], x) /\ req[r].wanted \subseteq Topics
    <3>1. req'[r] = x
      BY <2>1, Become
    <3>2. Settled(e)'
      BY <1>2, <2>0, <2>2 DEF Settled
    <3>3. Chosen(r, e)'
      BY <1>2, <2>0, <2>4, <3>1, <3>2 DEF Chosen, Carries
    <3> QED
      BY <2>1, <2>4, <3>3 DEF Carries
  <2> QED
    BY <2>1, <2>3, <2>4
<1>5. CASE Reread(r)
  <2>0. req[r].pc = "reread" /\ UNCHANGED <<topicIDs, aiTopicIDs, reasons, replay>>
    BY <1>5 DEF Reread, entry
  <2>1. PICK x : /\ Becomes(r, x) /\ x.pc = "topicids" /\ Carries(req[r], x)
                 /\ x.ai = aiTopicIDs[e] \cap x.wanted /\ x.why = reasons[e] \cap x.ai
    BY <1>5, Rereads
  <2>2. Settled(e)
    BY <2>0 DEF Chosen
  <2>3. req'[r] = x
    BY <2>1, Become
  <2>4. Settled(e)'
    BY <1>2, <2>0, <2>2 DEF Settled
  <2>5. x.ai \subseteq x.wanted /\ x.why = x.ai
    BY <2>1, <2>2 DEF Settled
  <2>6. Chosen(r, e)'
    BY <1>2, <2>0, <2>1, <2>3, <2>4, <2>5 DEF Chosen, Carries
  <2> QED
    BY <2>1, <2>6 DEF Carries
<1>6. CASE SetTopicIDs(r) \/ SetAITopicIDs(r) \/ SetReasons(r) \/ Disable(r)
  <2>1. PICK x : /\ Becomes(r, x) /\ Carries(req[r], x)
                 /\ x.ai = req[r].ai /\ x.why = req[r].why
                 /\ SetTopicIDs(r) => x.pc = "aitopicids"
                 /\ SetAITopicIDs(r) => x.pc = "reasons"
                 /\ SetReasons(r) => x.pc \in {"disable", "record"}
                 /\ Disable(r) => x.pc = "record"
    BY <1>6, Writes DEF Carried, SetTopicIDs, SetAITopicIDs, SetReasons, Disable
  <2>2. req'[r] = x
    BY <2>1, Become
  <2>3. Chosen(r, e)'
    <3>1. CASE SetTopicIDs(r)
      <4>1. /\ topicIDs'[e] = req[r].wanted
            /\ UNCHANGED <<aiTopicIDs, reasons, replay>> /\ req[r].pc = "topicids"
        BY <1>0, <3>1 DEF SetTopicIDs
      <4> QED
        BY <1>2, <2>1, <2>2, <3>1, <4>1 DEF Chosen, Carries
    <3>2. CASE SetAITopicIDs(r)
      <4>1. /\ aiTopicIDs'[e] = req[r].ai
            /\ UNCHANGED <<topicIDs, reasons, replay>> /\ req[r].pc = "aitopicids"
        BY <1>0, <3>2 DEF SetAITopicIDs
      <4> QED
        BY <1>2, <2>1, <2>2, <3>2, <4>1 DEF Chosen, Carries
    <3>3. CASE SetReasons(r)
      <4>1. /\ reasons'[e] = req[r].why
            /\ UNCHANGED <<topicIDs, aiTopicIDs, replay>> /\ req[r].pc = "reasons"
        BY <1>0, <3>3 DEF SetReasons
      <4> QED
        BY <1>2, <2>1, <2>2, <3>3, <4>1 DEF Chosen, Carries
    <3>4. CASE Disable(r)
      <4>1. UNCHANGED <<topicIDs, aiTopicIDs, reasons, replay>> /\ req[r].pc = "disable"
        BY <3>4 DEF Disable, entry
      <4> QED
        BY <1>2, <2>1, <2>2, <3>4, <4>1 DEF Chosen, Carries
    <3> QED
      BY <1>6, <3>1, <3>2, <3>3, <3>4
  <2> QED
    BY <1>6, <2>1, <2>3 DEF Carries
<1>7. CASE RecordAdded(r)
  <2>1. PICK t \in req[r].added, x \in RequestType :
           /\ Becomes(r, x) /\ x.pc = "record" /\ x.entry = req[r].entry
           /\ x.wanted = req[r].wanted /\ x.added = req[r].added \ {t}
           /\ x.removed = req[r].removed
           /\ replay' = [replay EXCEPT ![req[r].entry] = @ \cup {t}]
    BY <1>7, RecordsAdded
  <2>2. req'[r] = x
    BY <2>1, Become
  <2>3. /\ replay'[e] = replay[e] \cup {t} /\ req[r].pc = "record"
        /\ UNCHANGED <<topicIDs, aiTopicIDs, reasons>>
    BY <1>0, <1>7, <2>1 DEF RecordAdded
  <2>4. t \in Topics
    BY <2>1, <2>3 DEF Chosen, Adds
  <2>5. (replay'[e] \cap Topics) \cup x.added = (replay[e] \cap Topics) \cup req[r].added
    BY <2>1, <2>3, <2>4
  <2>6. Chosen(r, e)'
    BY <1>2, <2>1, <2>2, <2>3, <2>5 DEF Chosen
  <2> QED
    BY <2>1, <2>6
<1>8. CASE RecordRemoved(r)
  <2>1. PICK t \in req[r].removed, x \in RequestType :
           /\ Becomes(r, x) /\ x.pc = "record" /\ x.entry = req[r].entry
           /\ x.wanted = req[r].wanted /\ x.added = {} /\ req[r].added = {}
           /\ x.removed = req[r].removed \ {t}
           /\ replay' = [replay EXCEPT ![req[r].entry] = @ \ {t}]
    BY <1>8, RecordsRemoved
  <2>2. req'[r] = x
    BY <2>1, Become
  <2>3. /\ replay'[e] = replay[e] \ {t} /\ req[r].pc = "record"
        /\ UNCHANGED <<topicIDs, aiTopicIDs, reasons>>
    BY <1>0, <1>8, <2>1 DEF RecordRemoved
  <2>4. (replay'[e] \cap Topics) \ x.removed = (replay[e] \cap Topics) \ req[r].removed
    BY <2>1, <2>3
  <2>5. Chosen(r, e)'
    BY <1>2, <2>1, <2>2, <2>3, <2>4 DEF Chosen
  <2> QED
    BY <2>1, <2>5
<1>9. CASE Recorded(r)
  <2>1. PICK x : Becomes(r, x) /\ Over(x)
    BY <1>9, Finishes
  <2>2. /\ req[r].pc = "record" /\ req[r].added = {} /\ req[r].removed = {}
        /\ UNCHANGED <<topicIDs, aiTopicIDs, reasons, replay>>
    BY <1>9 DEF Recorded, entry
  <2>3. Settled(e)
    BY <2>2 DEF Chosen, Settled
  <2> QED
    BY <1>3, <2>1, <2>2, <2>3
<1> QED
  BY <1>4, <1>5, <1>6, <1>7, <1>8, <1>9 DEF SetTopics

\* The steps of a deletion, on any entry.
LEMMA DeletionGoesOn ==
    ASSUME TypeInv, NEW r \in Requests, NEW e \in Entries, req[r].pc = "sweep",
           Swept(r, e), AdministerTopics(r)
    PROVE  \E x : /\ Becomes(r, x) /\ x.entry # e
                  /\ x.pc = "sweep" => Swept(r, e)'
                  /\ x.pc # "sweep" => Settled(e)'
<1>0. /\ topicIDs \in [Entries -> SUBSET TopicIDs]
      /\ aiTopicIDs \in [Entries -> SUBSET TopicIDs]
      /\ reasons \in [Entries -> SUBSET TopicIDs]
      /\ replay \in [Entries -> SUBSET TopicIDs]
      /\ title \in [TopicIDs -> Titles \cup {NoTitle}]
      /\ req[r].topic \in TopicIDs /\ req[r].entry # e
  BY Apart DEF TypeInv, TypeOK, RequestFits, Choosing
<1>1. PICK t : t = req[r].topic
  OBVIOUS
<1>2. CASE Pull(r)
  <2>1. PICK part : part = "pull" /\ req' = [req EXCEPT ![r].sweep = @ \ {part}]
    BY <1>2 DEF Pull
  <2>2. PICK x : /\ Becomes(r, x) /\ x.pc = "sweep" /\ Carries(req[r], x)
                 /\ x.sweep = req[r].sweep \ {part}
    BY <2>1, Sweeps
  <2>3. req'[r] = x /\ x.topic = t /\ x.entry # e
    BY <1>0, <1>1, <2>2, Become DEF Carries
  <2>4. /\ topicIDs'[e] = topicIDs[e] \ {t} /\ aiTopicIDs'[e] = aiTopicIDs[e] \ {t}
        /\ UNCHANGED <<title, reasons, replay>>
    BY <1>0, <1>1, <1>2 DEF Pull, records
  <2>5. Topics' = Topics
    BY <2>4 DEF Topics
  <2>6. Swept(r, e)'
    BY <1>1, <2>1, <2>2, <2>3, <2>4, <2>5 DEF Swept
  <2> QED
    BY <2>2, <2>3, <2>6
<1>3. CASE UnsetReason(r)
  <2>1. PICK part : part = "unset" /\ req' = [req EXCEPT ![r].sweep = @ \ {part}]
    BY <1>3 DEF UnsetReason
  <2>2. PICK x : /\ Becomes(r, x) /\ x.pc = "sweep" /\ Carries(req[r], x)
                 /\ x.sweep = req[r].sweep \ {part}
    BY <2>1, Sweeps
  <2>3. req'[r] = x /\ x.topic = t /\ x.entry # e
    BY <1>0, <1>1, <2>2, Become DEF Carries
  <2>4. reasons'[e] = reasons[e] \ {t} /\ UNCHANGED <<title, topicIDs, aiTopicIDs, replay>>
    BY <1>0, <1>1, <1>3 DEF UnsetReason, records
  <2>5. Topics' = Topics
    BY <2>4 DEF Topics
  <2>6. Swept(r, e)'
    BY <1>1, <2>1, <2>2, <2>3, <2>4, <2>5 DEF Swept
  <2> QED
    BY <2>2, <2>3, <2>6
<1>4. CASE DeleteRecord(r)
  <2>1. PICK x : Becomes(r, x) /\ Over(x)
    BY <1>4, Finishes
  <2>2. /\ req[r].sweep = {} /\ title' = [title EXCEPT ![t] = NoTitle]
        /\ UNCHANGED <<topicIDs, aiTopicIDs, reasons, replay>>
    BY <1>1, <1>4 DEF DeleteRecord, entry
  <2>3. Topics' = Topics \ {t}
    BY <1>0, <1>1, <2>2 DEF Topics
  <2>4. /\ t \notin topicIDs[e] /\ t \notin reasons[e] /\ t \notin aiTopicIDs[e]
        /\ reasons[e] = aiTopicIDs[e] /\ aiTopicIDs[e] \subseteq topicIDs[e]
        /\ topicIDs[e] \subseteq Topics \ {t}
        /\ replay[e] \cap (Topics \ {t}) = topicIDs[e]
    BY <1>1, <2>2 DEF Swept
  <2>5. Settled(e)'
    BY <2>2, <2>3, <2>4 DEF Settled
  <2> QED
    BY <2>1, <2>5, Apart DEF Over
<1> QED
  BY <1>2, <1>3, <1>4 DEF AdministerTopics, LookupCreated, InsertCreated, ReadRenamed,
     LookupRenamed, Retitle, ReadDeleted

LEMMA RequestEntries ==
    ASSUME TypeInv, TypeInv', IdsInv, Next, EntriesInv, NEW r \in Requests, RequestNotes(r)
    PROVE  EntriesInv'
<1> SUFFICES ASSUME NEW e \in Entries \ contested' PROVE EntryInv(e)'
  BY DEF EntriesInv
<1>1. EntryInv(e) /\ \A a, b \in Writers(e)' : a = b
  BY Meet DEF EntriesInv
<1>2. RequestStep(r) /\ wrk' = wrk
  BY Became DEF RequestNotes, RequestStep
<1>3. PICK x : Becomes(r, x)
  BY <1>2, Became
<1>4. req'[r] = x
  BY <1>3, Become
<1>5. CASE /\ req[r].entry # e /\ req'[r].entry # e
           /\ req[r].pc # "sweep" /\ req'[r].pc # "sweep"
  BY <1>1, <1>2, <1>5, RequestElsewhere
<1>6. ~(e \in Reach(r) /\ (SkipSweep(r) \/ AbortRequest(r)) /\ Observe(Reach(r)))
  BY DEF Observe
<1>7. e \in Reach(r) <=> req[r].entry = e \/ req[r].pc = "sweep"
  BY Apart DEF Reach
<1>8. CASE req[r].pc = "sweep"
  <2>1. AdministerTopics(r)
    BY <1>6, <1>7, <1>8 DEF RequestNotes, SetTopics, ReadEntry, Resolve, Reread, SetTopicIDs,
       SetAITopicIDs, SetReasons, Disable, RecordAdded, RecordRemoved, Recorded
  <2>2. PICK y : /\ Becomes(r, y) /\ y.entry # e
                 /\ y.pc = "sweep" => Swept(r, e)'
                 /\ y.pc # "sweep" => Settled(e)'
    BY <1>1, <1>8, <2>1, DeletionGoesOn DEF EntryInv
  <2> QED
    BY <1>1, <1>2, <1>8, <2>2, RequestHere
<1>9. CASE req[r].entry = e
  <2>1. req[r].pc \in Choosing /\ Adds(r)
    BY <1>9 DEF TypeInv, RequestFits, IdsInv
  <2>2. SetTopics(r) /\ ~ReadEntry(r)
    BY <1>6, <1>7, <1>9, <2>1 DEF Choosing, RequestNotes, ReadEntry, AdministerTopics,
       LookupCreated, InsertCreated, ReadRenamed, LookupRenamed, Retitle, ReadDeleted, Pull,
       UnsetReason, DeleteRecord
  <2>3. PICK y : /\ Becomes(r, y) /\ y.pc # "sweep"
                 /\ y.entry = e => Chosen(r, e)'
                 /\ y.entry # e => Settled(e)'
    BY <1>1, <1>9, <2>1, <2>2, ChoiceGoesOn DEF EntryInv
  <2> QED
    BY <1>1, <1>2, <1>9, <2>3, RequestHere
<1>10. ASSUME req[r].entry # e, req[r].pc # "sweep", x.entry = e \/ x.pc = "sweep"
       PROVE  EntryInv(e)'
  <2>1. Settled(e)
    BY <1>1, <1>2, <1>3, <1>10, RequestComes
  <2>2. CASE ReadEntry(r)
    <3>1. PICK f \in Entries, y \in RequestType :
             /\ Becomes(r, y) /\ y.pc = "resolve" /\ y.entry = f
             /\ y.added = y.wanted \ topicIDs[f] /\ y.removed = topicIDs[f] \ y.wanted
      BY <2>2, ReadsEntry
    <3>2. y = x
      BY <1>4, <3>1, Become
    <3>3. f = e
      BY <1>10, <3>1, <3>2
    <3>4. UNCHANGED <<title, topicIDs, aiTopicIDs, reasons, replay>>
      BY <2>2 DEF ReadEntry, records, entry
    <3>5. Chosen(r, e)'
      BY <1>4, <2>1, <3>1, <3>2, <3>3, <3>4, ChoiceComes
    <3> QED
      BY <1>1, <1>2, <3>1, <3>3, <3>5, RequestHere
  <2>3. CASE ReadDeleted(r)
    <3>1. PICK y : Becomes(r, y) /\ y.pc = "sweep" /\ y.sweep = {"pull", "unset"}
      BY <2>3, ReadsDeleted
    <3>2. UNCHANGED <<title, topicIDs, aiTopicIDs, reasons, replay>>
      BY <2>3 DEF ReadDeleted, records, entry
    <3>3. Topics' = Topics /\ req'[r] = y
      BY <3>1, <3>2, Become DEF Topics
    <3>4. Swept(r, e)'
      BY <2>1, <3>1, <3>2, <3>3 DEF Swept, Settled
    <3>5. y.entry # e
      BY <3>1, Apart DEF Becomes, RequestFits, Choosing
    <3> QED
      BY <1>1, <1>2, <3>1, <3>4, <3>5, RequestHere
  <2>4. ASSUME ~ReadEntry(r), ~ReadDeleted(r) PROVE FALSE
    <3>1. Resolve(r) \/ LookupRenamed(r)
          => \E y : Becomes(r, y) /\ (Over(y) \/ y.entry = req[r].entry) /\ y.pc # "sweep"
      BY Resolves, LooksRenamed DEF Over, Carries
    <3>2. Reread(r) \/ SetTopicIDs(r) \/ SetAITopicIDs(r) \/ SetReasons(r) \/ Disable(r)
          \/ RecordAdded(r) \/ RecordRemoved(r)
          => \E y : Becomes(r, y) /\ y.entry = req[r].entry /\ y.pc # "sweep"
      BY Rereads, Writes, RecordsAdded, RecordsRemoved DEF Carried, Carries
    <3>3. Recorded(r) \/ InsertCreated(r) \/ Retitle(r) \/ DeleteRecord(r) \/ AbortRequest(r)
          => \E y : Becomes(r, y) /\ Over(y)
      BY Finishes
    <3>4. LookupCreated(r) \/ ReadRenamed(r)
          => \E y : Becomes(r, y) /\ y.entry = NoEntry /\ y.pc # "sweep"
      BY LooksCreated, ReadsRenamed DEF Over
    <3>5. ~Pull(r) /\ ~UnsetReason(r) /\ ~SkipSweep(r)
      BY <1>10 DEF Pull, UnsetReason, SkipSweep
    <3>6. PICK y : /\ Becomes(r, y) /\ y.entry \in {req[r].entry, NoEntry}
                   /\ y.pc # "sweep"
      BY <1>2, <2>4, <3>1, <3>2, <3>3, <3>4, <3>5
         DEF RequestStep, SetTopics, AdministerTopics, Over
    <3>7. y = x
      BY <1>4, <3>6, Become
    <3> QED
      BY <1>10, <3>6, <3>7, Apart
  <2> QED
    BY <2>2, <2>3, <2>4
<1> QED
  BY <1>4, <1>5, <1>8, <1>9, <1>10

LEMMA EntriesAlways == Spec => []EntriesInv
<1>1. Init => EntriesInv
  <2> SUFFICES ASSUME Init, NEW e \in Entries PROVE EntryInv(e)
    BY DEF EntriesInv
  <2>1. \A w \in Workers : wrk[w].entry = NoEntry
    BY DEF Init, NoWork
  <2>2. \A r \in Requests : req[r].entry = NoEntry /\ req[r].pc = "new"
    BY DEF Init, Ended
  <2>3. Writers(e) = {}
    BY <2>1, <2>2, Apart, WritersAre
  <2>4. Settled(e)
    BY DEF Init, Settled
  <2> QED
    BY <2>1, <2>2, <2>3, <2>4, Apart DEF EntryInv
<1>2. TypeInv /\ TypeInv' /\ IdsInv /\ EntriesInv /\ [Next]_vars => EntriesInv'
  <2> SUFFICES ASSUME TypeInv, TypeInv', IdsInv, EntriesInv, [Next]_vars PROVE EntriesInv'
    OBVIOUS
  <2>1. CASE UNCHANGED vars
    <3>1. UNCHANGED <<title, topicIDs, aiTopicIDs, reasons, replay, wrk, req, contested>>
      BY <2>1 DEF vars, records, entry, ghosts
    <3> QED
      BY <3>1 DEF EntriesInv, EntryInv, Writers, Reach, Settled, Analyzed, Chosen, Swept,
         Topics, Lists
  <2>2. ASSUME Next, UNCHANGED <<title, topicIDs, aiTopicIDs, reasons, replay, wrk, req>>
        PROVE  EntriesInv'
    <3> SUFFICES ASSUME NEW e \in Entries \ contested' PROVE EntryInv(e)'
      BY DEF EntriesInv
    <3>1. EntryInv(e)
      BY <2>2, Meet DEF EntriesInv
    <3> QED
      BY <2>2, <3>1 DEF EntryInv, Writers, Reach, Settled, Analyzed, Chosen, Swept, Topics, Lists
  <2>3. (\E w \in Workers : Refresh(w)) \/ (\E e \in Entries : Expire(e))
        => UNCHANGED <<title, topicIDs, aiTopicIDs, reasons, replay, wrk, req>>
    BY DEF Refresh, Expire, records, entry
  <2>4. CASE Next
    <3>1. \/ \E w \in Workers : WorkerNotes(w) \/ Refresh(w)
          \/ \E e \in Entries : Expire(e)
          \/ \E r \in Requests : RequestNotes(r)
      BY <2>4 DEF Next, WorkerNotes, RequestNotes
    <3> QED
      BY <2>2, <2>3, <2>4, <3>1, WorkerEntries, RequestEntries
  <2> QED
    BY <2>1, <2>4
<1> QED
  BY <1>1, <1>2, Typed, IdsAlways, PTL DEF Spec

LEMMA QuietSettled ==
    ASSUME EntriesInv, NEW e \in Entries, Quiet(e) PROVE Settled(e)
BY DEF EntriesInv, EntryInv, Quiet

\* On an entry that no two writers met on and none died on, for any numbers of
\* analyzers, choices and deletions one after the other and however their steps
\* interleave with those on other entries, exactly topics of the entry carry an AI flag,
\* and exactly those with a flag a reason.
THEOREM FlagsStayInLockstep == Spec => []FlagsInLockstep
<1>1. EntriesInv => FlagsInLockstep
  BY QuietSettled DEF FlagsInLockstep, Settled
<1> QED
  BY <1>1, EntriesAlways, PTL

\* No deletion of a topic leaves its id on such an entry, and no analysis or choice
\* brings it back.
THEOREM DeletionsSweep == Spec => []NothingDangles
<1>1. EntriesInv => NothingDangles
  BY QuietSettled DEF NothingDangles, Settled
<1> QED
  BY <1>1, EntriesAlways, PTL

\* The rows that analyses and choices leave on the timeline of such an entry replay to
\* the topics it has, but for topics that are gone.
THEOREM TimelineTells == Spec => []TimelineReplays
<1>1. EntriesInv => TimelineReplays
  BY QuietSettled DEF TimelineReplays, Settled
<1> QED
  BY <1>1, EntriesAlways, PTL
=============================================================================
