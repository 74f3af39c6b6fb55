---------------------------- MODULE VotesProofs -----------------------------
(***************************************************************************)
(* Proofs about Votes, for every value of its constants.                   *)
(***************************************************************************)
EXTENDS Votes, FiniteSetTheorems, WellFoundedInduction, TLAPS

-----------------------------------------------------------------------------
(* Typing.  Tallies are naturals because votes is finite, so finiteness is  *)
(* part of the inductive invariant.                                         *)

TypeInv == TypeOK /\ IsFiniteSet(votes)

\* A tally is a natural number.
LEMMA TalliesType == ASSUME IsFiniteSet(votes)
                     PROVE  Tallies \in [Entries -> Nat]
<1> SUFFICES ASSUME NEW e \in Entries
             PROVE  Cardinality(RowsOn(e)) \in Nat
    BY DEF Tallies
<1>1. IsFiniteSet(RowsOn(e))
    BY FS_Subset DEF RowsOn
<1> QED BY <1>1, FS_CardinalityType

\* The initial states are typed: inherited rows are finitely many rows.
\* An instance is born in its type, without any row in hand: its pass is about
\* to begin, or it has none.
LEMMA BootedTypes ==
    \A x \in Booted : /\ x \in JanType
                      /\ x.groups = {} /\ x.surplus = {}
                      /\ x.pc = "off" \/ (x.pc = "idle" /\ x.boot = TRUE)
<1> DEFINE zero == [e \in Entries |-> 0]
<1>1. zero \in [Entries -> Nat]
    OBVIOUS
<1>2. ASSUME NEW x \in Booted
      PROVE  \/ x = AtRest("idle", TRUE)
             \/ x = AtRest("off", FALSE)
    BY <1>2 DEF Booted
<1>3. \A pc \in {"idle", "off"}, boot \in BOOLEAN :
          AtRest(pc, boot) = [pc |-> pc, boot |-> boot, groups |-> {},
                              surplus |-> {}, fix |-> {}, truth |-> zero]
    BY DEF AtRest
<1> HIDE DEF zero
<1>4. \A pc \in {"idle", "off"}, boot \in BOOLEAN :
          /\ AtRest(pc, boot) \in JanType
          /\ AtRest(pc, boot).groups = {} /\ AtRest(pc, boot).surplus = {}
          /\ AtRest(pc, boot).pc = pc /\ AtRest(pc, boot).boot = boot
    BY <1>1, <1>3 DEF JanType
<1> QED BY <1>2, <1>4

LEMMA InitTyped == Init => TypeInv
<1> SUFFICES ASSUME Init PROVE TypeInv
    OBVIOUS
<1> USE ConstantsAssumption DEF ConstantsAssumption
<1>1. count \in [Entries -> Int]
    <2>1. \A e \in Entries :
             Cardinality({v \in LegacyRows : v.entry = e}) \in Int
        <3> TAKE e \in Entries
        <3>1. IsFiniteSet({v \in LegacyRows : v.entry = e})
            BY FS_Subset
        <3> QED BY <3>1, FS_CardinalityType
    <2>2. PICK d \in [Entries -> LegacyDrift] :
             count = [e \in Entries |->
                        Cardinality({v \in LegacyRows : v.entry = e}) + d[e]]
        BY DEF Init
    <2>3. \A e \in Entries : d[e] \in Int
        BY <2>2
    <2> HIDE DEF ConstantsAssumption
    <2> QED BY <2>1, <2>2, <2>3
<1>2. votes \in SUBSET Row /\ archive \in SUBSET Row /\ index \in BOOLEAN
    BY DEF Init
<1>3. /\ cancelled \in SUBSET Entries
      /\ related \in SUBSET SUBSET Entries
      /\ timeline \in SUBSET (Merges \X Entries \X Entries)
      /\ faults \in 0..MaxFaults
    BY DEF Init
<1>4. req \in [Requests -> ReqType]
    BY DEF Init, ReqType
<1>5. mrg \in [Merges -> MrgType]
    BY DEF Init, MrgType
<1>6. jan \in [Janitors -> JanType]
    BY BootedTypes DEF Init
<1>7. IsFiniteSet(votes)
    BY DEF Init
<1> QED BY <1>1, <1>2, <1>3, <1>4, <1>5, <1>6, <1>7 DEF TypeInv, TypeOK
\* Toggles keep the types.
LEMMA ToggleTyped == ASSUME TypeInv, NEW r \in Requests, Toggle(r)
                     PROVE  TypeInv'
<1> USE ConstantsAssumption DEF ConstantsAssumption, TypeInv, TypeOK, entryVars
<1>1. CASE FindVote(r)
    BY <1>1 DEF FindVote, Step, ReqType
<1>2. CASE UpsertFind(r)
    BY <1>2 DEF UpsertFind, Step, ReqType
<1>3. CASE UpsertInsert(r)
    <2> DEFINE row == [id |-> r, user |-> req[r].user, entry |-> req[r].entry]
    <2>1. req' \in [Requests -> ReqType]
        BY <1>3 DEF UpsertInsert, Step, ReqType
    <2>2. row \in Row
        BY DEF Row, ReqType
    <2>3. votes' \in SUBSET Row /\ IsFiniteSet(votes')
        <3>1. IsFiniteSet(votes \cup {row})
            <4> HIDE DEF row
            <4> QED BY FS_AddElement
        <3>2. votes' = votes \/ votes' = votes \cup {row}
            BY <1>3 DEF UpsertInsert
        <3> QED BY <3>1, <3>2, <2>2
    <2> QED BY <1>3, <2>1, <2>3 DEF UpsertInsert
<1>4. CASE DeleteVote(r)
    <2>1. req' \in [Requests -> ReqType]
        BY <1>4 DEF DeleteVote, Step, ReqType
    <2>2. votes' \subseteq votes
        BY <1>4 DEF DeleteVote
    <2> QED BY <1>4, <2>1, <2>2, FS_Subset DEF DeleteVote
<1>5. CASE AdjustCount(r)
    <2>1. req' \in [Requests -> ReqType]
        BY <1>5 DEF AdjustCount, Step, ReqType
    <2>2. count' \in [Entries -> Int]
        BY <1>5 DEF AdjustCount, ReqType
    <2> QED BY <1>5, <2>1, <2>2 DEF AdjustCount
<1>6. CASE AbortRequest(r)
    <2>1. req' \in [Requests -> ReqType]
        BY <1>6 DEF AbortRequest, Step, ReqType
    <2> QED BY <1>6, <2>1 DEF AbortRequest
<1> QED BY <1>1, <1>2, <1>3, <1>4, <1>5, <1>6 DEF Toggle

\* The two reads of a merge keep its record typed.
LEMMA SourceReadTyped ==
    ASSUME NEW x \in MrgType, NEW rows \in SUBSET Row,
           NEW next \in {"migrate", "readDst"}
    PROVE  [x EXCEPT !.todo = rows, !.pc = next] \in MrgType
BY DEF MrgType

LEMMA DestinationReadTyped ==
    ASSUME NEW x \in MrgType, NEW users \in SUBSET Users
    PROVE  [x EXCEPT !.dstUsers = users, !.pc = "migrate"] \in MrgType
BY DEF MrgType

\* Merges keep the types.
LEMMA MergeTyped == ASSUME TypeInv, NEW m \in Merges, Merge(m)
                    PROVE  TypeInv'
<1> USE ConstantsAssumption DEF ConstantsAssumption, TypeInv, TypeOK, entryVars
<1>1. CASE Relate(m)
    BY <1>1 DEF Relate, MrgType
<1>2. CASE ReadSource(m)
    <2>1. RowsOn(mrg[m].src) \in SUBSET Row
        BY DEF RowsOn
    <2>2. mrg' \in [Merges -> MrgType]
        <3> DEFINE rows == RowsOn(mrg[m].src)
                   next == IF rows = {} THEN "migrate" ELSE "readDst"
        <3>1. mrg' = [mrg EXCEPT ![m].todo = rows, ![m].pc = next]
            BY <1>2 DEF ReadSource
        <3>2. next \in {"migrate", "readDst"}
            OBVIOUS
        <3>3. rows \in SUBSET Row
            BY <2>1
        <3> HIDE DEF rows, next
        <3>4. [mrg[m] EXCEPT !.todo = rows, !.pc = next] \in MrgType
            BY <3>2, <3>3, SourceReadTyped
        <3> QED BY <3>1, <3>4
    <2> QED BY <1>2, <2>2 DEF ReadSource
<1>3. CASE ReadDestination(m)
    <2>1. {v.user : v \in RowsOn(mrg[m].dst)} \ {Anonymous} \in SUBSET Users
        BY DEF RowsOn, Row
    <2>2. mrg' \in [Merges -> MrgType]
        <3> DEFINE users == {v.user : v \in RowsOn(mrg[m].dst)} \ {Anonymous}
        <3>1. mrg' = [mrg EXCEPT ![m].dstUsers = users, ![m].pc = "migrate"]
            BY <1>3 DEF ReadDestination
        <3>2. users \in SUBSET Users
            BY <2>1
        <3> HIDE DEF users
        <3>3. [mrg[m] EXCEPT !.dstUsers = users, !.pc = "migrate"] \in MrgType
            BY <3>2, DestinationReadTyped
        <3> QED BY <3>1, <3>3
    <2> QED BY <1>3, <2>2 DEF ReadDestination
<1>4. CASE DropVote(m)
    <2>1. mrg' \in [Merges -> MrgType]
        BY <1>4 DEF DropVote, MrgType
    <2>2. votes' \subseteq votes
        BY <1>4 DEF DropVote
    <2> QED BY <1>4, <2>1, <2>2, FS_Subset DEF DropVote
<1>5. CASE MoveVote(m)
    <2>1. PICK v \in mrg[m].todo : MoveVote(m)!(v)
        BY <1>5 DEF MoveVote
    <2> DEFINE src == {x \in votes : x.id = v.id}
               kept == {w \in votes : w.id # v.id}
               moved == {[w EXCEPT !.entry = mrg[m].dst] : w \in src}
    <2>2. mrg' \in [Merges -> MrgType]
        BY <2>1 DEF MrgType, Row
    <2>3. IsFiniteSet(src) /\ IsFiniteSet(kept)
        BY FS_Subset
    <2>4. IsFiniteSet(moved)
        <3> DEFINE f == [w \in src |-> [w EXCEPT !.entry = mrg[m].dst]]
        <3>1. f \in Surjection(src, moved)
            BY DEF Surjection
        <3> QED BY <3>1, <2>3, FS_Surjection
    <2>5. moved \subseteq Row
        BY DEF Row, MrgType
    <2>6. votes' = votes \/ votes' = kept \cup moved
        BY <2>1
    <2>7. IsFiniteSet(kept \cup moved)
        BY <2>3, <2>4, FS_Union
    <2>8. IsFiniteSet(votes') /\ votes' \subseteq Row
        BY <2>5, <2>6, <2>7
    <2> QED BY <2>1, <2>2, <2>8
<1>6. CASE CountSource(m)
    BY <1>6, TalliesType DEF CountSource, MrgType
<1>7. CASE SetSource(m)
    BY <1>7 DEF SetSource, MrgType
<1>8. CASE CountDestination(m)
    BY <1>8, TalliesType DEF CountDestination, MrgType
<1>9. CASE SetDestination(m)
    BY <1>9 DEF SetDestination, MrgType
<1>10. CASE CancelSource(m)
    BY <1>10 DEF CancelSource, MrgType
<1>11. CASE RecordMerge(m)
    BY <1>11 DEF RecordMerge, MrgType
<1>12. CASE AbortMerge(m)
    BY <1>12 DEF AbortMerge, MrgType
<1> QED BY <1>1, <1>2, <1>3, <1>4, <1>5, <1>6, <1>7, <1>8, <1>9, <1>10, <1>11,
           <1>12 DEF Merge
\* The reads of a pass keep its record typed.
LEMMA ScanTyped ==
    ASSUME NEW x \in JanType, NEW groups \in SUBSET SUBSET Row
    PROVE  [x EXCEPT !.groups = groups, !.pc = "archive"] \in JanType
BY DEF JanType

LEMMA TallyTyped ==
    ASSUME NEW x \in JanType, NEW truth \in [Entries -> Nat]
    PROVE  [x EXCEPT !.truth = truth, !.pc = "read"] \in JanType
BY DEF JanType

LEMMA FixTyped ==
    ASSUME NEW x \in JanType, NEW fix \in SUBSET Entries
    PROVE  [x EXCEPT !.fix = fix, !.pc = "repair"] \in JanType
BY DEF JanType

LEMMA RepairTyped ==
    ASSUME NEW x \in JanType, NEW e
    PROVE  [x EXCEPT !.fix = @ \ {e}] \in JanType
BY DEF JanType

LEMMA BootedTyped ==
    ASSUME NEW x \in JanType
    PROVE  [x EXCEPT !.pc = "idle", !.boot = FALSE] \in JanType
BY DEF JanType

\* The passes keep the types.
LEMMA JanitorTyped ==
    ASSUME TypeInv, NEW j \in Janitors, Janitor(j) \/ FailPass(j) \/ Restart(j)
    PROVE  TypeInv'
<1> USE ConstantsAssumption DEF ConstantsAssumption, TypeInv, TypeOK, entryVars
<1>1. CASE ScanDuplicates(j)
    <2> DEFINE groups == {g \ {Survivor(g)} : g \in DuplicateGroups}
    <2>1. groups \in SUBSET SUBSET Row
        BY DEF DuplicateGroups, RowsFor
    <2>2. jan' = [jan EXCEPT ![j].groups = groups, ![j].pc = "archive"]
        BY <1>1 DEF ScanDuplicates
    <2> HIDE DEF groups
    <2>3. jan' \in [Janitors -> JanType]
        <3>1. [jan[j] EXCEPT !.groups = groups, !.pc = "archive"] \in JanType
            BY <2>1, ScanTyped
        <3> QED BY <3>1, <2>2
    <2> QED BY <1>1, <2>3 DEF ScanDuplicates
<1>2. CASE ArchiveGroup(j)
    <2>1. PICK g \in jan[j].groups : ArchiveGroup(j)!(g)
        BY <1>2 DEF ArchiveGroup
    <2>2. g \in SUBSET Row
        BY DEF JanType
    <2>3. jan' \in [Janitors -> JanType]
        BY <2>1, <2>2 DEF JanType
    <2>4. archive' \in SUBSET Row
        BY <2>1, <2>2
    <2> QED BY <2>1, <2>3, <2>4
<1>3. CASE DeleteGroup(j)
    <2>1. jan' \in [Janitors -> JanType]
        BY <1>3 DEF DeleteGroup, JanType
    <2>2. votes' \subseteq votes
        BY <1>3 DEF DeleteGroup
    <2> QED BY <1>3, <2>1, <2>2, FS_Subset DEF DeleteGroup
<1>4. CASE TallyVotes(j)
    <2>1. jan' \in [Janitors -> JanType]
        <3>1. [jan[j] EXCEPT !.truth = Tallies, !.pc = "read"] \in JanType
            BY TalliesType, TallyTyped
        <3> QED BY <1>4, <3>1 DEF TallyVotes
    <2> QED BY <1>4, <2>1 DEF TallyVotes
<1>5. CASE ReadCounters(j)
    <2>1. jan' \in [Janitors -> JanType]
        <3> DEFINE fix == {e \in Entries : jan[j].truth[e] # count[e]}
        <3>1. [jan[j] EXCEPT !.fix = fix, !.pc = "repair"] \in JanType
            BY FixTyped
        <3> QED BY <1>5, <3>1 DEF ReadCounters
    <2> QED BY <1>5, <2>1 DEF ReadCounters
<1>6. CASE RepairCounter(j)
    <2>1. PICK e \in jan[j].fix : RepairCounter(j)!(e)
        BY <1>6 DEF RepairCounter
    <2>2. jan' \in [Janitors -> JanType]
        <3>1. [jan[j] EXCEPT !.fix = @ \ {e}] \in JanType
            BY RepairTyped
        <3> QED BY <2>1, <3>1
    <2>3. jan[j].truth[e] \in Int
        BY DEF JanType
    <2> QED BY <2>1, <2>2, <2>3
<1>7. ASSUME EndPass(j) PROVE jan' \in [Janitors -> JanType]
    BY <1>7 DEF EndPass, AtRest, JanType
<1>8. CASE FinishPass(j)
    BY <1>7, <1>8 DEF FinishPass
<1>9. CASE BuildIndex(j)
    <2>1. jan' \in [Janitors -> JanType]
        <3>1. [jan[j] EXCEPT !.pc = "idle", !.boot = FALSE] \in JanType
            BY BootedTyped
        <3> QED BY <1>9, <3>1 DEF BuildIndex
    <2>2. index' \in BOOLEAN
        <3>1. index' = (index \/ Unique(votes))
            BY <1>9 DEF BuildIndex
        <3> QED BY <3>1
    <2> QED BY <1>9, <2>1, <2>2 DEF BuildIndex
<1>10. CASE FailPass(j)
    BY <1>7, <1>10 DEF FailPass
<1>11. CASE Restart(j)
    <2>1. jan' \in [Janitors -> JanType]
        <3>1. PICK b \in Booted : jan' = [jan EXCEPT ![j] = b]
            BY <1>11 DEF Restart
        <3> QED BY <3>1, BootedTypes
    <2> QED BY <1>11, <2>1 DEF Restart
<1> QED BY <1>1, <1>2, <1>3, <1>4, <1>5, <1>6, <1>8, <1>9, <1>10, <1>11
        DEF Janitor

\* No step of any process leaves the types.
LEMMA NextTyped == TypeInv /\ [Next]_vars => TypeInv'
<1> SUFFICES ASSUME TypeInv, [Next]_vars PROVE TypeInv'
    OBVIOUS
<1>1. CASE \E r \in Requests : Toggle(r)
    BY <1>1, ToggleTyped
<1>2. CASE \E m \in Merges : Merge(m)
    BY <1>2, MergeTyped
<1>3. CASE \E j \in Janitors : Janitor(j) \/ FailPass(j) \/ Restart(j)
    BY <1>3, JanitorTyped
<1>4. CASE UNCHANGED vars
    BY <1>4 DEF vars, TypeInv, TypeOK
<1> QED BY <1>1, <1>2, <1>3, <1>4 DEF Next

\* Every variable of the voting code always has its type.
THEOREM VotesTyped == Spec => []TypeOK
<1>1. TypeInv => TypeOK
    BY DEF TypeInv
<1> QED BY InitTyped, NextTyped, <1>1, PTL DEF Spec
-----------------------------------------------------------------------------
(* The index.  That rows are unique while the index exists is inductive on *)
(* its own: each writer either asks the index, only deletes, or builds it. *)

\* Once the index exists the rows satisfy it, a premise of what follows.
IndexKeepsVotesUnique == index => Unique(votes)

\* A set with fewer rows keeps the index's demand.
LEMMA FewerRowsUnique == ASSUME NEW S, NEW T \in SUBSET S, Unique(S)
                         PROVE  Unique(T)
BY DEF Unique

LEMMA InitIndexed == Init => IndexKeepsVotesUnique
BY DEF Init, IndexKeepsVotesUnique

LEMMA NextIndexed == TypeInv /\ IndexKeepsVotesUnique /\ [Next]_vars
                     => IndexKeepsVotesUnique'
<1> SUFFICES ASSUME TypeInv, IndexKeepsVotesUnique, [Next]_vars, index'
             PROVE  Unique(votes')
    BY DEF IndexKeepsVotesUnique, Unique
<1>1. ASSUME index, votes' \subseteq votes PROVE Unique(votes')
    BY <1>1, FewerRowsUnique DEF IndexKeepsVotesUnique
<1>2. ASSUME NEW r \in Requests, Toggle(r) PROVE Unique(votes')
    <2>1. index
        BY <1>2 DEF Toggle, FindVote, UpsertFind, UpsertInsert, DeleteVote,
                    AdjustCount, AbortRequest
    <2>2. CASE votes' \subseteq votes
        BY <1>1, <2>1, <2>2
    <2>3. CASE UpsertInsert(r) /\ ~(votes' \subseteq votes)
        <3> DEFINE row == [id |-> r, user |-> req[r].user, entry |-> req[r].entry]
        <3>1. votes' = votes \cup {row} /\ RowsFor(row.user, row.entry) = {}
            BY <2>1, <2>3 DEF UpsertInsert
        <3>2. Unique(votes)
            BY <2>1 DEF IndexKeepsVotesUnique
        <3> QED BY <3>1, <3>2 DEF Unique, RowsFor
    <2> QED BY <1>2, <2>2, <2>3 DEF Toggle, FindVote, UpsertFind, DeleteVote,
                                    AdjustCount, AbortRequest
<1>3. ASSUME NEW m \in Merges, Merge(m) PROVE Unique(votes')
    <2>1. index
        BY <1>3 DEF Merge, Relate, ReadSource, ReadDestination, DropVote,
                    MoveVote, CountSource, SetSource, CountDestination,
                    SetDestination, CancelSource, RecordMerge, AbortMerge
    <2>2. CASE votes' \subseteq votes
        BY <1>1, <2>1, <2>2
    <2>3. CASE MoveVote(m) /\ ~(votes' \subseteq votes)
        BY <2>1, <2>3 DEF MoveVote
    <2> QED BY <1>3, <2>2, <2>3
            DEF Merge, Relate, ReadSource, ReadDestination, DropVote,
                CountSource, SetSource, CountDestination, SetDestination,
                CancelSource, RecordMerge, AbortMerge
<1>4. ASSUME NEW j \in Janitors, Janitor(j) \/ FailPass(j) \/ Restart(j)
      PROVE  Unique(votes')
    <2>1. CASE BuildIndex(j)
        <3>1. index' = (index \/ Unique(votes)) /\ votes' = votes
            BY <2>1 DEF BuildIndex
        <3> QED BY <3>1 DEF IndexKeepsVotesUnique
    <2>2. CASE ~BuildIndex(j)
        <3>1. index' = index /\ votes' \subseteq votes
            BY <1>4, <2>2
               DEF Janitor, ScanDuplicates, ArchiveGroup, DeleteGroup,
                   TallyVotes, ReadCounters, RepairCounter, FinishPass,
                   FailPass, Restart
        <3> QED BY <1>1, <3>1
    <2> QED BY <2>1, <2>2
<1>5. CASE UNCHANGED vars
    BY <1>1, <1>5 DEF vars
<1> QED BY <1>2, <1>3, <1>4, <1>5 DEF Next

-----------------------------------------------------------------------------
(* The counters.  On a deployment that starts with exact counters and with  *)
(* its index built, until a merge or a pass begins, only toggles write.     *)

StartsExact == /\ LegacyDrift = {0}
               /\ IndexAtStart /\ Unique(LegacyRows)

\* The sets of owed increments are finite: each toggle adds one request.
OwingFinite == \A e \in Entries : /\ IsFiniteSet(Owing(e, "cast"))
                                  /\ IsFiniteSet(Owing(e, "retracted"))

CounterInv == TypeInv /\ index /\ Unique(votes) /\ OwingFinite
              /\ Accounted

LEMMA InitCounted == ASSUME StartsExact, Init PROVE CounterInv
<1>1. TypeInv /\ index /\ Unique(votes)
    BY InitTyped DEF Init, StartsExact
<1>2. \A e \in Entries : Owing(e, "cast") = {} /\ Owing(e, "retracted") = {}
    BY DEF Init, Owing
<1>3. OwingFinite
    BY <1>2, FS_EmptySet DEF OwingFinite
<1>4. Accounted
    <2> SUFFICES ASSUME NEW e \in Entries
                 PROVE  count[e] + Cardinality(Owing(e, "cast"))
                                 - Cardinality(Owing(e, "retracted"))
                        = Cardinality(RowsOn(e))
        BY DEF Accounted
    <2>1. Cardinality(Owing(e, "cast")) = 0
          /\ Cardinality(Owing(e, "retracted")) = 0
        BY <1>2, FS_EmptySet
    <2>2. PICK d \in [Entries -> LegacyDrift] :
             count = [f \in Entries |->
                        Cardinality({v \in LegacyRows : v.entry = f}) + d[f]]
        BY DEF Init
    <2>3. d[e] = 0
        BY <2>2 DEF StartsExact
    <2>4. RowsOn(e) = {v \in LegacyRows : v.entry = e}
        BY DEF Init, RowsOn
    <2>5. Cardinality(RowsOn(e)) \in Nat
        BY <1>1, TalliesType DEF TypeInv, Tallies
    <2> QED BY <2>1, <2>2, <2>3, <2>4, <2>5
<1> QED BY <1>1, <1>3, <1>4 DEF CounterInv

\* One entry's account: what the invariant says of it.
Account(e) == /\ IsFiniteSet(Owing(e, "cast"))
              /\ IsFiniteSet(Owing(e, "retracted"))
              /\ count[e] + Cardinality(Owing(e, "cast"))
                          - Cardinality(Owing(e, "retracted"))
                 = Cardinality(RowsOn(e))

\* The sizes an account is made of are numbers.
LEMMA AccountSizes == ASSUME CounterInv, NEW e \in Entries
                      PROVE  /\ Account(e)
                             /\ count[e] \in Int
                             /\ IsFiniteSet(RowsOn(e))
                             /\ Cardinality(RowsOn(e)) \in Nat
                             /\ Cardinality(Owing(e, "cast")) \in Nat
                             /\ Cardinality(Owing(e, "retracted")) \in Nat
<1>1. Account(e)
    BY DEF Account, CounterInv, OwingFinite, Accounted
<1>2. count[e] \in Int
    BY DEF CounterInv, TypeInv, TypeOK
<1>3. IsFiniteSet(RowsOn(e))
    BY FS_Subset DEF CounterInv, TypeInv, RowsOn
<1> QED BY <1>1, <1>2, <1>3, FS_CardinalityType DEF Account

\* A step that changes neither rows nor debts nor counter of an entry keeps its
\* account.
LEMMA AccountUntouched ==
    ASSUME CounterInv, NEW e \in Entries, count'[e] = count[e],
           Owing(e, "cast")' = Owing(e, "cast"),
           Owing(e, "retracted")' = Owing(e, "retracted"),
           RowsOn(e)' = RowsOn(e)
    PROVE  Account(e)'
BY AccountSizes DEF Account

\* A cast adds the row and owes its increment in the same step.
LEMMA InsertAccounted ==
    ASSUME CounterInv, NEW r \in Requests, UpsertInsert(r), NEW e \in Entries
    PROVE  Account(e)'
<1> DEFINE row == [id |-> r, user |-> req[r].user, entry |-> req[r].entry]
<1> USE DEF CounterInv, TypeInv, TypeOK
<1>1. req[r] \in ReqType /\ req[r].pc = "insert" /\ count' = count
    BY DEF UpsertInsert
<1>2. CASE index /\ RowsFor(row.user, row.entry) # {}
    <2>1. votes' = votes /\ req' = [req EXCEPT ![r].pc = "done"]
        BY <1>2 DEF UpsertInsert, Step
    <2>2. Owing(e, "cast")' = Owing(e, "cast")
          /\ Owing(e, "retracted")' = Owing(e, "retracted")
        BY <1>1, <2>1 DEF Owing, ReqType
    <2> QED BY <1>1, <2>1, <2>2, AccountUntouched DEF RowsOn
<1>3. CASE RowsFor(row.user, row.entry) = {}
    <2>1. votes' = votes \cup {row}
          /\ req' = [req EXCEPT ![r].pc = "adjust", ![r].did = "cast"]
        BY <1>3 DEF UpsertInsert
    <2>2. Owing(e, "retracted")' = Owing(e, "retracted")
        BY <1>1, <2>1 DEF Owing, ReqType
    <2>3. CASE e # req[r].entry
        <3>1. Owing(e, "cast")' = Owing(e, "cast")
            BY <1>1, <2>1, <2>3 DEF Owing, ReqType
        <3>2. RowsOn(e)' = RowsOn(e)
            BY <2>1, <2>3 DEF RowsOn
        <3> QED BY <1>1, <2>2, <3>1, <3>2, AccountUntouched
    <2>4. CASE e = req[r].entry
        <3>1. Owing(e, "cast")' = Owing(e, "cast") \cup {r}
              /\ r \notin Owing(e, "cast")
            BY <1>1, <2>1, <2>4 DEF Owing, ReqType
        <3>2. RowsOn(e)' = RowsOn(e) \cup {row} /\ row \notin RowsOn(e)
            BY <1>3, <2>1, <2>4 DEF RowsOn, RowsFor
        <3>3. IsFiniteSet(Owing(e, "cast")') /\ Cardinality(Owing(e, "cast")')
                = Cardinality(Owing(e, "cast")) + 1
            BY <3>1, AccountSizes, FS_AddElement DEF Account
        <3>4. Cardinality(RowsOn(e)') = Cardinality(RowsOn(e)) + 1
            <4> HIDE DEF row
            <4> QED BY <3>2, AccountSizes, FS_AddElement
        <3> QED BY <1>1, <2>2, <3>3, <3>4, AccountSizes DEF Account
    <2> QED BY <2>3, <2>4
<1> QED BY <1>2, <1>3

LEMMA OnlyOne == ASSUME NEW S, NEW v \in S, \A w \in S : w = v PROVE S = {v}
OBVIOUS

\* An un-vote deletes the one row of its pair and owes the decrement.
LEMMA DeleteAccounted ==
    ASSUME CounterInv, NEW r \in Requests, DeleteVote(r), NEW e \in Entries
    PROVE  Account(e)'
<1> DEFINE rows == RowsFor(req[r].user, req[r].entry)
<1> USE DEF CounterInv, TypeInv, TypeOK
<1>1. req[r] \in ReqType /\ req[r].pc = "delete" /\ count' = count
      /\ votes' = votes \ rows
    BY DEF DeleteVote
<1>2. CASE rows = {}
    <2>1. req' = [req EXCEPT ![r].pc = "done"]
        BY <1>2 DEF DeleteVote, Step
    <2>2. Owing(e, "cast")' = Owing(e, "cast")
          /\ Owing(e, "retracted")' = Owing(e, "retracted")
        BY <1>1, <2>1 DEF Owing, ReqType
    <2> QED BY <1>1, <1>2, <2>2, AccountUntouched DEF RowsOn
<1>3. CASE rows # {}
    <2>1. req' = [req EXCEPT ![r].pc = "adjust", ![r].did = "retracted"]
        BY <1>3 DEF DeleteVote
    <2>2. Owing(e, "cast")' = Owing(e, "cast")
        BY <1>1, <2>1 DEF Owing, ReqType
    <2>3. CASE e # req[r].entry
        <3>1. Owing(e, "retracted")' = Owing(e, "retracted")
            BY <1>1, <2>1, <2>3 DEF Owing, ReqType
        <3>2. RowsOn(e)' = RowsOn(e)
            BY <1>1, <2>3 DEF RowsOn, RowsFor
        <3> QED BY <1>1, <2>2, <3>1, <3>2, AccountUntouched
    <2>4. CASE e = req[r].entry
        <3>1. PICK v : rows = {v}
            <4>1. PICK v \in rows : TRUE
                BY <1>3
            <4>2. req[r].user # Anonymous
                BY <1>1, ConstantsAssumption DEF ReqType, ConstantsAssumption
            <4>3. \A w \in rows : w = v
                BY <4>1, <4>2 DEF Unique, RowsFor
            <4>4. rows = {v}
                BY <4>1, <4>3, OnlyOne
            <4> QED BY <4>4
        <3>2. Owing(e, "retracted")' = Owing(e, "retracted") \cup {r}
              /\ r \notin Owing(e, "retracted")
            BY <1>1, <2>1, <2>4 DEF Owing, ReqType
        <3>3. RowsOn(e)' = RowsOn(e) \ {v} /\ v \in RowsOn(e)
            BY <1>1, <2>4, <3>1 DEF RowsOn, RowsFor
        <3>4. IsFiniteSet(Owing(e, "retracted")')
              /\ Cardinality(Owing(e, "retracted")')
                = Cardinality(Owing(e, "retracted")) + 1
            BY <3>2, AccountSizes, FS_AddElement DEF Account
        <3>5. Cardinality(RowsOn(e)') = Cardinality(RowsOn(e)) - 1
            <4>1. IsFiniteSet(RowsOn(e))
                BY AccountSizes
            <4>2. Cardinality(RowsOn(e) \ {v}) = Cardinality(RowsOn(e)) - 1
                BY <3>3, <4>1, FS_RemoveElement
            <4> QED BY <3>3, <4>2
        <3> QED BY <1>1, <2>2, <3>4, <3>5, AccountSizes DEF Account
    <2> QED BY <2>3, <2>4
<1> QED BY <1>2, <1>3
\* The increment pays the debt it was owed.
LEMMA AdjustAccounted ==
    ASSUME CounterInv, NEW r \in Requests, AdjustCount(r), NEW e \in Entries,
           req[r].did # "nothing"
    PROVE  Account(e)'
<1> USE DEF CounterInv, TypeInv, TypeOK
<1>1. /\ req[r] \in ReqType /\ req[r].pc = "adjust"
      /\ req' = [req EXCEPT ![r].pc = "done"]
      /\ votes' = votes
    BY DEF AdjustCount, Step
<1>2. RowsOn(e)' = RowsOn(e)
    BY <1>1 DEF RowsOn
<1>3. CASE e # req[r].entry
    <2>1. Owing(e, "cast")' = Owing(e, "cast")
          /\ Owing(e, "retracted")' = Owing(e, "retracted")
        BY <1>1, <1>3 DEF Owing, ReqType
    <2>2. count'[e] = count[e]
        BY <1>3 DEF AdjustCount
    <2> QED BY <1>2, <2>1, <2>2, AccountUntouched
<1>4. CASE e = req[r].entry /\ req[r].did = "cast"
    <2>1. Owing(e, "retracted")' = Owing(e, "retracted")
        BY <1>1, <1>4 DEF Owing, ReqType
    <2>2. Owing(e, "cast")' = Owing(e, "cast") \ {r} /\ r \in Owing(e, "cast")
        BY <1>1, <1>4 DEF Owing, ReqType
    <2>3. count'[e] = count[e] + 1
        BY <1>4 DEF AdjustCount
    <2>4. IsFiniteSet(Owing(e, "cast")') /\ Cardinality(Owing(e, "cast")')
            = Cardinality(Owing(e, "cast")) - 1
        BY <2>2, AccountSizes, FS_RemoveElement DEF Account
    <2> QED BY <1>2, <2>1, <2>3, <2>4, AccountSizes DEF Account
<1>5. CASE e = req[r].entry /\ req[r].did = "retracted"
    <2>1. Owing(e, "cast")' = Owing(e, "cast")
        BY <1>1, <1>5 DEF Owing, ReqType
    <2>2. Owing(e, "retracted")' = Owing(e, "retracted") \ {r}
          /\ r \in Owing(e, "retracted")
        BY <1>1, <1>5 DEF Owing, ReqType
    <2>3. count'[e] = count[e] - 1
        BY <1>5 DEF AdjustCount
    <2>4. IsFiniteSet(Owing(e, "retracted")')
          /\ Cardinality(Owing(e, "retracted")')
             = Cardinality(Owing(e, "retracted")) - 1
        BY <2>2, AccountSizes, FS_RemoveElement DEF Account
    <2>5. (count[e] - 1) + Cardinality(Owing(e, "cast"))
             - (Cardinality(Owing(e, "retracted")) - 1) = Cardinality(RowsOn(e))
        BY AccountSizes DEF Account
    <2>6. IsFiniteSet(Owing(e, "cast"))
        BY AccountSizes DEF Account
    <2> QED BY <1>2, <2>1, <2>3, <2>4, <2>5, <2>6 DEF Account
<1>6. req[r].did \in {"cast", "retracted"}
    BY <1>1 DEF ReqType
<1> QED BY <1>3, <1>4, <1>5, <1>6

\* A request about to adjust the counter has written its row.  A request that
\* has not written has done nothing: needed to know what an abort leaves owed.
EffectKnown == \A r \in Requests :
                   req[r].pc = "adjust" <=> /\ req[r].did # "nothing"
                                           /\ req[r].pc \notin {"done", "aborted"}

LEMMA InitEffect == Init => EffectKnown
BY DEF Init, EffectKnown

LEMMA NextEffect == ASSUME TypeInv, EffectKnown, NEW r \in Requests, Toggle(r)
                    PROVE  EffectKnown'
BY DEF TypeInv, TypeOK, ReqType, EffectKnown, Toggle, FindVote, UpsertFind,
       UpsertInsert, DeleteVote, AdjustCount, AbortRequest, Step

\* Every toggle step keeps every account.
LEMMA ToggleAccounted ==
    ASSUME CounterInv, EffectKnown, NEW r \in Requests, Toggle(r),
           NEW e \in Entries
    PROVE  Account(e)'
<1> USE DEF CounterInv, TypeInv, TypeOK
<1>1. CASE FindVote(r) \/ UpsertFind(r) \/ AbortRequest(r)
    <2>1. count' = count /\ votes' = votes
        BY <1>1 DEF FindVote, UpsertFind, AbortRequest
    <2>2. Owing(e, "cast")' = Owing(e, "cast")
          /\ Owing(e, "retracted")' = Owing(e, "retracted")
        <3>1. PICK pc \in {"delete", "upsert", "insert", "done", "aborted"} :
                 req' = [req EXCEPT ![r].pc = pc]
            BY <1>1 DEF FindVote, UpsertFind, AbortRequest, Step
        <3>2. CASE AbortRequest(r)
            <4>1. req' = [req EXCEPT ![r].pc = "aborted"]
                  /\ req[r].pc \notin {"done", "aborted"}
                BY <3>2 DEF AbortRequest, Step
            <4>2. req[r].did # "nothing" => req[r].pc = "adjust"
                BY <4>1 DEF EffectKnown
            <4> QED BY <4>1, <4>2 DEF Owing, ReqType
        <3>3. CASE FindVote(r) \/ UpsertFind(r)
            <4>1. /\ pc \notin {"adjust", "aborted"}
                  /\ req[r].pc \notin {"adjust", "aborted"}
                BY <3>1, <3>3 DEF FindVote, UpsertFind, Step, ReqType
            <4> QED BY <3>1, <4>1 DEF Owing, ReqType
        <3> QED BY <1>1, <3>2, <3>3
    <2> QED BY <2>1, <2>2, AccountUntouched DEF RowsOn
<1>2. CASE UpsertInsert(r)
    BY <1>2, InsertAccounted
<1>3. CASE DeleteVote(r)
    BY <1>3, DeleteAccounted
<1>4. CASE AdjustCount(r)
    <2>1. req[r].did # "nothing"
        BY <1>4 DEF AdjustCount, EffectKnown
    <2> QED BY <1>4, <2>1, AdjustAccounted
<1> QED BY <1>1, <1>2, <1>3, <1>4 DEF Toggle

\* No step undoes that a merge, a pass or a fault has been: as long as none has,
\* the step was a toggle's.
LEMMA StillToggling ==
    ASSUME TypeInv, Next, OnlyToggled'
    PROVE  OnlyToggled /\ \E r \in Requests : Toggle(r)
<1> USE DEF TypeInv, TypeOK, OnlyToggled
<1>1. CASE \E r \in Requests : Toggle(r)
    BY <1>1 DEF Toggle, FindVote, UpsertFind, UpsertInsert, DeleteVote,
                AdjustCount, AbortRequest, Step
<1>2. ASSUME NEW m \in Merges, Merge(m) PROVE FALSE
    <2>1. CASE Relate(m) \/ SetSource(m) \/ SetDestination(m)
               \/ CancelSource(m) \/ RecordMerge(m) \/ AbortMerge(m)
        <3>1. mrg'[m].pc # "new"
            BY <2>1 DEF Relate, SetSource, SetDestination, CancelSource,
                   RecordMerge, AbortMerge, MrgType
        <3> QED BY <3>1
    <2>2. CASE CountSource(m) \/ CountDestination(m)
        <3>1. mrg'[m].pc \in {"setSrc", "setDst"}
            BY <2>2 DEF CountSource, CountDestination, MrgType
        <3> QED BY <3>1
    <2>3. CASE ReadDestination(m)
        <3>1. mrg'[m].pc = "migrate"
            BY <2>3 DEF ReadDestination, MrgType
        <3> QED BY <3>1
    <2>4. CASE ReadSource(m)
        BY <1>2, <2>4 DEF ReadSource
    <2>5. CASE DropVote(m)
        <3>1. mrg[m].pc = "migrate" /\ mrg'[m].pc = mrg[m].pc
            BY <1>2, <2>5 DEF DropVote, MrgType
        <3> QED BY <1>2, <3>1
    <2>6. CASE MoveVote(m)
        <3>1. mrg[m].pc = "migrate" /\ mrg'[m].pc \in {"aborted", mrg[m].pc}
            BY <1>2, <2>6 DEF MoveVote, MrgType
        <3> QED BY <1>2, <3>1
    <2> QED BY <1>2, <2>1, <2>2, <2>3, <2>4, <2>5, <2>6 DEF Merge
<1>3. ASSUME NEW j \in Janitors, Janitor(j) PROVE FALSE
    <2>0. jan'[j].pc = "off" \/ (jan'[j].pc = "idle" /\ jan'[j].boot = TRUE)
        BY BootedTypes
    <2>1. CASE BuildIndex(j)
        <3>1. jan'[j].boot = FALSE /\ jan'[j].pc = "idle"
            BY <2>1 DEF BuildIndex, JanType
        <3> QED BY <2>0, <3>1
    <2>2. CASE ScanDuplicates(j)
        <3>1. jan'[j].pc = "archive"
            BY <2>2 DEF ScanDuplicates, JanType
        <3> QED BY <2>0, <3>1
    <2>3. CASE ArchiveGroup(j)
        <3>1. jan'[j].pc = "delete"
            BY <2>3 DEF ArchiveGroup, JanType
        <3> QED BY <2>0, <3>1
    <2>4. CASE DeleteGroup(j) \/ TallyVotes(j) \/ ReadCounters(j)
        <3>1. jan'[j].pc \in {"archive", "read", "repair"}
            BY <2>4 DEF DeleteGroup, TallyVotes, ReadCounters, JanType
        <3> QED BY <2>0, <3>1
    <2>5. CASE FinishPass(j)
        <3>1. /\ jan'[j].pc = IF jan[j].boot THEN "index" ELSE "idle"
              /\ jan'[j].boot = jan[j].boot
            BY <2>5 DEF FinishPass, EndPass, AtRest
        <3> QED BY <2>0, <3>1
    <2>6. CASE RepairCounter(j)
        <3>1. PICK e \in jan[j].fix :
                 /\ jan[j].pc = "repair"
                 /\ jan' = [jan EXCEPT ![j].fix = @ \ {e}]
            BY <2>6 DEF RepairCounter
        <3>2. jan'[j].pc = "repair"
            BY <3>1
        <3> QED BY <2>0, <3>2
    <2> QED BY <1>3, <2>1, <2>2, <2>3, <2>4, <2>5, <2>6 DEF Janitor
<1>4. ASSUME NEW j \in Janitors, FailPass(j) \/ Restart(j) PROVE FALSE
    BY <1>4 DEF FailPass, Restart
<1> QED BY <1>1, <1>2, <1>3, <1>4 DEF Next

LEMMA ToggleCounted ==
    ASSUME CounterInv, EffectKnown, NEW r \in Requests, Toggle(r)
    PROVE  CounterInv' /\ EffectKnown'
<1>1. TypeInv' /\ EffectKnown'
    BY ToggleTyped, NextEffect DEF CounterInv
<1>2. index'
    BY DEF CounterInv, Toggle, FindVote, UpsertFind, UpsertInsert,
           DeleteVote, AdjustCount, AbortRequest
<1>3. Unique(votes')
    BY <1>2, NextIndexed DEF CounterInv, IndexKeepsVotesUnique, Next
<1>4. \A e \in Entries : Account(e)'
    BY ToggleAccounted
<1> QED BY <1>1, <1>2, <1>3, <1>4
        DEF CounterInv, OwingFinite, Accounted, Account

ToggleInv == TypeInv /\ (OnlyToggled => CounterInv /\ EffectKnown)

LEMMA NextCounted == ASSUME ToggleInv, [Next]_vars PROVE ToggleInv'
<1>1. TypeInv'
    BY NextTyped DEF ToggleInv
<1>2. CASE UNCHANGED vars
    BY <1>1, <1>2 DEF vars, ToggleInv, OnlyToggled, CounterInv, Unique,
                      OwingFinite, Owing, Accounted, RowsOn, EffectKnown
<1>3. ASSUME Next, OnlyToggled' PROVE CounterInv' /\ EffectKnown'
    BY <1>3, StillToggling, ToggleCounted DEF ToggleInv
<1> QED BY <1>1, <1>2, <1>3 DEF ToggleInv

\* For any users, entries and concurrent requests, each free to die between any
\* two of its writes, and until a merge or a pass begins, an entry's counter is
\* its rows less the increments owed.
THEOREM TogglesAccounted ==
    ASSUME StartsExact
    PROVE  Spec => []CounterAccountsForVotes
<1>1. Init => ToggleInv
    BY InitCounted, InitTyped, InitEffect DEF ToggleInv
<1>2. ToggleInv /\ [Next]_vars => ToggleInv'
    BY NextCounted
<1>3. ToggleInv => CounterAccountsForVotes
    BY DEF ToggleInv, CounterInv, CounterAccountsForVotes
<1> QED BY <1>1, <1>2, <1>3, PTL DEF Spec
-----------------------------------------------------------------------------
(* The ledger, where no merge is made.  Toggles go for the pair of their    *)
(* user; a pass deletes only rows of which an earlier one of the same pair  *)
(* stays: a row that some pass has listed as surplus has an earlier one as  *)
(* long as it is there, so the earliest row of a pair is never listed.  As  *)
(* the passes delete by id, an id must tell its row, of all rows that are   *)
(* there, listed or archived.                                               *)

\* The row that a request inserts, if it does.
Own(r) == [id |-> r, user |-> req[r].user, entry |-> req[r].entry]

\* Every row there may ever have been.
Issued == LegacyRows
          \cup {Own(r) : r \in {q \in Requests : req[q].did # "nothing"}}

\* The rows a pass is to delete.
Listed(j) == jan[j].surplus \cup UNION jan[j].groups

\* The earlier rows of a row's pair.
Before(v) == {w \in RowsFor(v.user, v.entry) : w.id < v.id}

PassInv == /\ TypeInv /\ EffectKnown
           /\ votes \cup archive \subseteq Issued
           /\ \A j \in Janitors :
                 /\ Listed(j) \subseteq Issued
                 /\ \A v \in Listed(j) \cap votes : Before(v) # {}
                 /\ jan[j].pc = "delete" => jan[j].surplus \subseteq archive

\* A set of naturals that is not empty has a smallest element.
LEMMA Smallest == ASSUME NEW S \in SUBSET Nat, S # {}
                  PROVE  \E x \in S : \A y \in S : x <= y
<1> DEFINE R == OpToRel(<, Nat)
<1>1. IsWellFoundedOn(R, Nat)
    BY NatLessThanWellFounded
<1>2. \A x, y \in Nat : y < x => <<y, x>> \in R
    BY DEF OpToRel
<1>3. \A x, y \in Nat : ~(y < x) => x <= y
    OBVIOUS
<1> HIDE DEF R
<1>4. PICK x \in S : \A y \in S : <<y, x>> \notin R
    BY <1>1, WFMin
<1>5. ASSUME NEW y \in S PROVE x <= y
    <2>1. x \in Nat /\ y \in Nat /\ <<y, x>> \notin R
        BY <1>4
    <2> QED BY <2>1, <1>2, <1>3
<1> QED BY <1>5

\* So has a set of rows an earliest one.
LEMMA EarliestRow == ASSUME NEW S \in SUBSET Row, S # {}
                     PROVE  \E v \in S : \A w \in S : v.id <= w.id
<1> DEFINE ids == {v.id : v \in S}
<1>1. ids \in SUBSET Nat /\ ids # {}
    BY DEF Row
<1>2. PICK x \in ids : \A y \in ids : x <= y
    <2> HIDE DEF ids
    <2> QED BY <1>1, Smallest
<1> QED BY <1>2

\* The survivor of a group of rows is its earliest.
LEMMA SurvivorEarliest ==
    ASSUME NEW S \in SUBSET Row, S # {}
    PROVE  /\ Survivor(S) \in S
           /\ \A w \in S : Survivor(S).id <= w.id
BY EarliestRow DEF Survivor

\* An id tells its row.
LEMMA IdsTell ==
    ASSUME NEW v \in Issued, NEW w \in Issued, v.id = w.id
    PROVE  v = w
<1> USE ConstantsAssumption DEF ConstantsAssumption
<1>1. CASE v \in LegacyRows /\ w \in LegacyRows
    BY <1>1
<1>2. CASE v \notin LegacyRows
    <2>1. PICK r \in Requests : v = Own(r)
        BY <1>2 DEF Issued
    <2>2. w \notin LegacyRows
        BY <2>1 DEF Own
    <2>3. PICK q \in Requests : w = Own(q)
        BY <2>2 DEF Issued
    <2> QED BY <2>1, <2>3 DEF Own
<1>3. CASE w \notin LegacyRows
    <2>1. PICK r \in Requests : w = Own(r)
        BY <1>3 DEF Issued
    <2>2. v \notin LegacyRows
        BY <2>1 DEF Own
    <2>3. PICK q \in Requests : v = Own(q)
        BY <2>2 DEF Issued
    <2> QED BY <2>1, <2>3 DEF Own
<1> QED BY <1>1, <1>2, <1>3

\* Of the rows of a pair there is an earliest, and no pass has it listed.
LEMMA EarliestStays ==
    ASSUME PassInv, NEW v \in votes
    PROVE  \E s \in RowsFor(v.user, v.entry) :
              /\ s.id <= v.id
              /\ \A j \in Janitors : s \notin Listed(j)
<1> DEFINE S == RowsFor(v.user, v.entry)
<1>1. S \in SUBSET Row /\ v \in S /\ S \subseteq votes
    BY DEF RowsFor, PassInv, TypeInv, TypeOK
<1>2. PICK s \in S : \A w \in S : s.id <= w.id
    <2> HIDE DEF S
    <2> QED BY <1>1, EarliestRow
<1>3. ASSUME NEW j \in Janitors, s \in Listed(j) PROVE FALSE
    <2>1. PICK w \in RowsFor(s.user, s.entry) : w.id < s.id
        BY <1>1, <1>3 DEF PassInv, Before
    <2>2. s.user = v.user /\ s.entry = v.entry
        BY DEF RowsFor
    <2>3. w \in S
        BY <2>1, <2>2
    <2>4. s.id <= w.id /\ s.id \in Nat /\ w.id \in Nat
        BY <1>1, <1>2, <2>3 DEF Row
    <2> QED BY <2>1, <2>4
<1> QED BY <1>1, <1>2, <1>3

\* What a request has done is kept by every step that only moves it on.
LEMMA StepIssues ==
    ASSUME TypeInv, NEW r \in Requests, NEW pc, Step(r, pc)
    PROVE  Issued' = Issued
<1>1. \A q \in Requests : /\ req'[q].did = req[q].did
                          /\ req'[q].user = req[q].user
                          /\ req'[q].entry = req[q].entry
    BY DEF TypeInv, TypeOK, ReqType, Step
<1>2. \A q \in Requests : Own(q)' = Own(q)
    BY <1>1 DEF Own
<1> QED BY <1>1, <1>2 DEF Issued

\* A write of votes issues at most the request's own row, which nobody has seen.
LEMMA WriteIssues ==
    ASSUME PassInv, NEW r \in Requests, NEW did \in {"cast", "retracted"},
           req[r].pc \in {"insert", "delete"},
           req' = [req EXCEPT ![r].pc = "adjust", ![r].did = did]
    PROVE  /\ Issued' = Issued \cup {Own(r)}
           /\ Own(r) \notin Issued
<1> USE DEF PassInv, TypeInv, TypeOK, ReqType
<1>1. req[r].did = "nothing"
    BY DEF EffectKnown
<1>2. \A q \in Requests : /\ req'[q].user = req[q].user
                          /\ req'[q].entry = req[q].entry
                          /\ q # r => req'[q].did = req[q].did
    OBVIOUS
<1>3. req'[r].did # "nothing"
    OBVIOUS
<1>4. \A q \in Requests : Own(q)' = Own(q)
    BY <1>2 DEF Own
<1>5. Issued' = Issued \cup {Own(r)}
    BY <1>1, <1>2, <1>3, <1>4 DEF Issued
<1>6. Own(r) \notin LegacyRows
    BY ConstantsAssumption DEF ConstantsAssumption, Own
<1>7. \A q \in Requests : Own(q) = Own(r) => q = r
    BY DEF Own
<1> QED BY <1>1, <1>5, <1>6, <1>7 DEF Issued

\* Of what the passes have listed, a step of a toggle takes no row that it does
\* not take all the earlier rows of its pair with.
LEMMA TogglePasses ==
    ASSUME PassInv, NEW r \in Requests, Toggle(r)
    PROVE  PassInv'
<1>1. TypeInv' /\ EffectKnown'
    BY ToggleTyped, NextEffect DEF PassInv
<1>2. jan' = jan /\ archive' = archive /\ \A j \in Janitors : Listed(j)' = Listed(j)
    BY DEF Toggle, FindVote, UpsertFind, UpsertInsert, DeleteVote, AdjustCount,
           AbortRequest, Listed
<1>3. ASSUME votes' = votes, Issued' = Issued PROVE PassInv'
    <2>1. \A v : Before(v)' = Before(v)
        BY <1>3 DEF Before, RowsFor
    <2> QED BY <1>1, <1>2, <1>3, <2>1 DEF PassInv
<1>4. CASE FindVote(r) \/ UpsertFind(r) \/ AdjustCount(r) \/ AbortRequest(r)
    <2>1. votes' = votes /\ \E pc : Step(r, pc)
        BY <1>4 DEF FindVote, UpsertFind, AdjustCount, AbortRequest
    <2>2. TypeInv
        BY DEF PassInv
    <2> QED BY <1>3, <2>1, <2>2, StepIssues
<1>5. CASE UpsertInsert(r)
    <2>1. CASE votes' = votes /\ Step(r, "done")
        <3>1. TypeInv
            BY DEF PassInv
        <3> QED BY <1>3, <2>1, <3>1, StepIssues
    <2>2. CASE /\ votes' = votes \cup {Own(r)}
               /\ req' = [req EXCEPT ![r].pc = "adjust", ![r].did = "cast"]
        <3>1. PICK did \in {"cast", "retracted"} : did = "cast"
            OBVIOUS
        <3>2. req' = [req EXCEPT ![r].pc = "adjust", ![r].did = did]
            BY <2>2, <3>1
        <3>3. req[r].pc \in {"insert", "delete"}
            BY <1>5 DEF UpsertInsert
        <3>4. Issued' = Issued \cup {Own(r)} /\ Own(r) \notin Issued
            BY <3>2, <3>3, WriteIssues
        <3>5. \A v : Before(v) \subseteq Before(v)'
            BY <2>2 DEF Before, RowsFor
        <3>6. \A j \in Janitors : Listed(j) \cap votes' = Listed(j) \cap votes
            BY <2>2, <3>4 DEF PassInv
        <3>7. votes' \cup archive' \subseteq Issued'
            BY <1>2, <2>2, <3>4 DEF PassInv
        <3>8. ASSUME NEW j \in Janitors
              PROVE  /\ Listed(j)' \subseteq Issued'
                     /\ \A v \in Listed(j)' \cap votes' : Before(v)' # {}
                     /\ jan'[j].pc = "delete" => jan'[j].surplus \subseteq archive'
            BY <1>2, <3>4, <3>5, <3>6 DEF PassInv
        <3> QED BY <1>1, <3>7, <3>8 DEF PassInv
    <2> QED BY <1>5, <2>1, <2>2 DEF UpsertInsert, Own
<1>6. CASE DeleteVote(r)
    <2> DEFINE rows == RowsFor(req[r].user, req[r].entry)
    <2>1. CASE rows = {}
        <3>1. votes' = votes /\ Step(r, "done") /\ TypeInv
            BY <1>6, <2>1 DEF DeleteVote, PassInv
        <3> QED BY <1>3, <3>1, StepIssues
    <2>2. CASE rows # {}
        <3>1. PICK did \in {"cast", "retracted"} : did = "retracted"
            OBVIOUS
        <3>2. req' = [req EXCEPT ![r].pc = "adjust", ![r].did = did]
            BY <1>6, <2>2, <3>1 DEF DeleteVote
        <3>3. req[r].pc \in {"insert", "delete"} /\ votes' = votes \ rows
            BY <1>6 DEF DeleteVote
        <3>4. Issued' = Issued \cup {Own(r)}
            BY <3>2, <3>3, WriteIssues
        <3>5. \A v \in votes' : Before(v)' = Before(v)
            BY <3>3 DEF Before, RowsFor
        <3>6. votes' \cup archive' \subseteq Issued'
            BY <1>2, <3>3, <3>4 DEF PassInv
        <3>7. ASSUME NEW j \in Janitors
              PROVE  /\ Listed(j)' \subseteq Issued'
                     /\ \A v \in Listed(j)' \cap votes' : Before(v)' # {}
                     /\ jan'[j].pc = "delete" => jan'[j].surplus \subseteq archive'
            BY <1>2, <3>3, <3>4, <3>5 DEF PassInv
        <3> QED BY <1>1, <3>6, <3>7 DEF PassInv
    <2> QED BY <2>1, <2>2
<1> QED BY <1>4, <1>5, <1>6 DEF Toggle

\* What a step of a pass has to keep when it deletes nothing and lists nothing.
LEMMA QuietPass ==
    ASSUME PassInv, TypeInv', votes' = votes, req' = req, archive' = archive,
           \A j \in Janitors : /\ Listed(j)' \subseteq Listed(j)
                               /\ jan'[j].pc = "delete" => jan'[j] = jan[j]
    PROVE  PassInv'
<1>1. EffectKnown' /\ Issued' = Issued
    BY DEF PassInv, EffectKnown, Issued, Own
<1>2. \A v : Before(v)' = Before(v)
    BY DEF Before, RowsFor
<1>3. ASSUME NEW j \in Janitors
      PROVE  /\ Listed(j)' \subseteq Issued'
             /\ \A v \in Listed(j)' \cap votes' : Before(v)' # {}
             /\ jan'[j].pc = "delete" => jan'[j].surplus \subseteq archive'
    BY <1>1, <1>2 DEF PassInv
<1> QED BY <1>1, <1>3 DEF PassInv

\* A scan lists, of every group, the rows that have an earlier one.
LEMMA ScanPasses ==
    ASSUME PassInv, NEW k \in Janitors, ScanDuplicates(k)
    PROVE  PassInv'
<1> DEFINE groups == {g \ {Survivor(g)} : g \in DuplicateGroups}
<1>1. TypeInv'
    BY JanitorTyped DEF PassInv, Janitor
<1>2. /\ jan' = [jan EXCEPT ![k].groups = groups, ![k].pc = "archive"]
      /\ votes' = votes /\ archive' = archive /\ req' = req
    BY DEF ScanDuplicates
<1>3. jan \in [Janitors -> JanType]
    BY DEF PassInv, TypeInv, TypeOK
<1>4. EffectKnown' /\ Issued' = Issued
    BY <1>2 DEF PassInv, EffectKnown, Issued, Own
<1>5. \A v : Before(v)' = Before(v)
    BY <1>2 DEF Before, RowsFor
<1>6. ASSUME NEW v \in UNION groups PROVE v \in votes /\ Before(v) # {}
    <2>1. PICK g \in DuplicateGroups : v \in g \ {Survivor(g)}
        BY <1>6
    <2>2. PICK u \in Users, e \in Entries : g = RowsFor(u, e)
        BY <2>1 DEF DuplicateGroups
    <2>3. g \subseteq votes /\ g \in SUBSET Row /\ g # {}
        BY <2>1, <2>2 DEF RowsFor, PassInv, TypeInv, TypeOK
    <2>4. PICK s \in g : s = Survivor(g) /\ s.id <= v.id
        BY <2>1, <2>3, SurvivorEarliest
    <2>5. s \in Issued /\ v \in Issued
        BY <2>1, <2>3 DEF PassInv
    <2>6. s.id # v.id
        BY <2>1, <2>4, <2>5, IdsTell
    <2>7. s.id \in Nat /\ v.id \in Nat
        BY <2>1, <2>3 DEF Row
    <2>8. s.id < v.id
        BY <2>4, <2>6, <2>7
    <2>9. s \in RowsFor(v.user, v.entry)
        BY <2>1, <2>2 DEF RowsFor
    <2> QED BY <2>1, <2>3, <2>8, <2>9 DEF Before
<1>7. ASSUME NEW j \in Janitors
      PROVE  /\ Listed(j)' \subseteq Issued'
             /\ \A v \in Listed(j)' \cap votes' : Before(v)' # {}
             /\ jan'[j].pc = "delete" => jan'[j].surplus \subseteq archive'
    <2>1. CASE j = k
        <3>1. jan'[j].groups = groups /\ jan'[j].surplus = jan[j].surplus
              /\ jan'[j].pc = "archive"
            <4> HIDE DEF groups
            <4> QED BY <1>2, <1>3, <2>1 DEF JanType
        <3>2. Listed(j)' \subseteq Listed(j) \cup UNION groups
            BY <3>1 DEF Listed
        <3> QED BY <1>2, <1>4, <1>5, <1>6, <3>1, <3>2 DEF PassInv
    <2>2. CASE j # k
        <3>1. jan'[j] = jan[j]
            BY <1>2, <1>3, <2>2
        <3>2. Listed(j)' = Listed(j)
            BY <3>1 DEF Listed
        <3> QED BY <1>2, <1>4, <1>5, <3>1, <3>2 DEF PassInv
    <2> QED BY <2>1, <2>2
<1> QED BY <1>1, <1>2, <1>4, <1>7 DEF PassInv

\* A group is in the archive, verbatim, before it is deleted.
LEMMA ArchivePasses ==
    ASSUME PassInv, NEW k \in Janitors, ArchiveGroup(k)
    PROVE  PassInv'
<1>1. PICK g \in jan[k].groups :
         /\ archive' = archive \cup {v \in g : \A w \in archive : w.id # v.id}
         /\ jan' = [jan EXCEPT ![k].groups = @ \ {g}, ![k].surplus = g,
                               ![k].pc = "delete"]
         /\ votes' = votes /\ req' = req
    BY DEF ArchiveGroup
<1>2. TypeInv'
    BY JanitorTyped DEF PassInv, Janitor
<1>3. jan \in [Janitors -> JanType]
    BY DEF PassInv, TypeInv, TypeOK
<1>4. EffectKnown' /\ Issued' = Issued
    BY <1>1 DEF PassInv, EffectKnown, Issued, Own
<1>5. \A v : Before(v)' = Before(v)
    BY <1>1 DEF Before, RowsFor
<1>6. g \subseteq Listed(k) /\ g \subseteq Issued
    BY DEF Listed, PassInv
<1>7. g \subseteq archive'
    <2>1. ASSUME NEW v \in g, NEW w \in archive, w.id = v.id
          PROVE  v \in archive
        <3>1. v \in Issued /\ w \in Issued
            BY <1>6 DEF PassInv
        <3> QED BY <2>1, <3>1, IdsTell
    <2> QED BY <1>1, <2>1
<1>8. ASSUME NEW j \in Janitors
      PROVE  /\ Listed(j)' \subseteq Issued'
             /\ \A v \in Listed(j)' \cap votes' : Before(v)' # {}
             /\ jan'[j].pc = "delete" => jan'[j].surplus \subseteq archive'
    <2>1. CASE j = k
        <3>1. jan'[j].groups = jan[j].groups \ {g} /\ jan'[j].surplus = g
            BY <1>1, <1>3, <2>1 DEF JanType
        <3>2. Listed(j)' \subseteq Listed(j)
            BY <2>1, <3>1 DEF Listed
        <3> QED BY <1>1, <1>4, <1>5, <1>7, <3>1, <3>2 DEF PassInv
    <2>2. CASE j # k
        <3>1. jan'[j] = jan[j]
            BY <1>1, <1>3, <2>2
        <3>2. Listed(j)' = Listed(j)
            BY <3>1 DEF Listed
        <3> QED BY <1>1, <1>4, <1>5, <3>1, <3>2 DEF PassInv
    <2> QED BY <2>1, <2>2
<1>9. votes' \cup archive' \subseteq Issued'
    BY <1>1, <1>4, <1>6 DEF PassInv
<1> QED BY <1>2, <1>4, <1>8, <1>9 DEF PassInv

\* What a deletion takes is archived, and of every pair the earliest row stays.
LEMMA DeletionSpares ==
    ASSUME PassInv, NEW k \in Janitors, DeleteGroup(k)
    PROVE  /\ votes \ votes' \subseteq archive
           /\ \A v \in votes : \E s \in RowsFor(v.user, v.entry) :
                 s \in votes' /\ s.id <= v.id /\ \A j \in Janitors : s \notin Listed(j)
<1>1. /\ votes' = {w \in votes : \A v \in jan[k].surplus : w.id # v.id}
      /\ jan[k].surplus \subseteq archive /\ jan[k].surplus \subseteq Listed(k)
    BY DEF DeleteGroup, PassInv, Listed
<1>2. ASSUME NEW w \in votes, w \notin votes' PROVE w \in jan[k].surplus
    <2>1. PICK v \in jan[k].surplus : w.id = v.id
        BY <1>1, <1>2
    <2>2. w \in Issued /\ v \in Issued
        BY <1>1 DEF PassInv
    <2> QED BY <2>1, <2>2, IdsTell
<1>3. ASSUME NEW v \in votes
      PROVE  \E s \in RowsFor(v.user, v.entry) :
                s \in votes' /\ s.id <= v.id /\ \A j \in Janitors : s \notin Listed(j)
    <2>1. PICK s \in RowsFor(v.user, v.entry) :
             s.id <= v.id /\ \A j \in Janitors : s \notin Listed(j)
        BY EarliestStays
    <2>2. s \in votes
        BY DEF RowsFor
    <2> QED BY <1>1, <1>2, <2>1, <2>2
<1> QED BY <1>1, <1>2, <1>3

LEMMA DeletePasses ==
    ASSUME PassInv, NEW k \in Janitors, DeleteGroup(k)
    PROVE  PassInv'
<1>1. /\ votes' \subseteq votes
      /\ jan' = [jan EXCEPT ![k].surplus = {}, ![k].pc = "archive"]
      /\ archive' = archive /\ req' = req
    BY DEF DeleteGroup
<1>2. TypeInv'
    BY JanitorTyped DEF PassInv, Janitor
<1>3. jan \in [Janitors -> JanType]
    BY DEF PassInv, TypeInv, TypeOK
<1>4. EffectKnown' /\ Issued' = Issued
    BY <1>1 DEF PassInv, EffectKnown, Issued, Own
<1>5. \A j \in Janitors : /\ Listed(j)' \subseteq Listed(j)
                          /\ jan'[j].pc = "delete" => jan'[j] = jan[j]
    BY <1>1, <1>3 DEF Listed, JanType
<1>6. ASSUME NEW j \in Janitors, NEW v \in Listed(j)' \cap votes'
      PROVE  Before(v)' # {}
    <2>1. v \in Listed(j) /\ v \in votes
        BY <1>1, <1>5, <1>6
    <2>2. PICK s \in RowsFor(v.user, v.entry) :
             s \in votes' /\ s.id <= v.id /\ s \notin Listed(j)
        BY <2>1, DeletionSpares
    <2>3. s \in Issued /\ v \in Issued /\ s # v
        BY <2>1, <2>2 DEF PassInv, RowsFor
    <2>4. s.id # v.id
        BY <2>3, IdsTell
    <2>5. s.id \in Nat /\ v.id \in Nat
        BY <2>1 DEF PassInv, TypeInv, TypeOK, Row, RowsFor
    <2>6. s.id < v.id
        BY <2>2, <2>4, <2>5
    <2>7. s \in RowsFor(v.user, v.entry)'
        BY <2>2 DEF RowsFor
    <2> QED BY <2>6, <2>7 DEF Before
<1>7. ASSUME NEW j \in Janitors
      PROVE  /\ Listed(j)' \subseteq Issued'
             /\ jan'[j].pc = "delete" => jan'[j].surplus \subseteq archive'
    BY <1>1, <1>4, <1>5 DEF PassInv
<1>8. votes' \cup archive' \subseteq Issued'
    BY <1>1, <1>4 DEF PassInv
<1> QED BY <1>2, <1>4, <1>6, <1>7, <1>8 DEF PassInv

\* All steps of the passes, failures and restarts among them.
LEMMA JanitorPasses ==
    ASSUME PassInv, NEW k \in Janitors, Janitor(k) \/ FailPass(k) \/ Restart(k)
    PROVE  PassInv'
<1>1. TypeInv'
    BY JanitorTyped DEF PassInv
<1>2. jan \in [Janitors -> JanType]
    BY DEF PassInv, TypeInv, TypeOK
<1>3. CASE TallyVotes(k) \/ ReadCounters(k) \/ RepairCounter(k)
           \/ FinishPass(k) \/ BuildIndex(k) \/ FailPass(k) \/ Restart(k)
    <2>1. votes' = votes /\ req' = req /\ archive' = archive
        BY <1>3 DEF TallyVotes, ReadCounters, RepairCounter, FinishPass, BuildIndex,
                    FailPass, Restart
    <2>2. \A j \in Janitors : j # k => jan'[j] = jan[j]
        BY <1>2, <1>3 DEF TallyVotes, ReadCounters, RepairCounter, FinishPass,
                          BuildIndex, FailPass, Restart, EndPass
    <2>3. /\ \/ jan'[k].groups = {} /\ jan'[k].surplus = {}
             \/ jan'[k].groups = jan[k].groups /\ jan'[k].surplus = jan[k].surplus
          /\ jan'[k].pc # "delete"
        <3>1. CASE TallyVotes(k)
            BY <1>2, <3>1 DEF TallyVotes, JanType
        <3>2. CASE ReadCounters(k)
            BY <1>2, <3>2 DEF ReadCounters, JanType
        <3>3. CASE RepairCounter(k)
            <4>1. PICK e : jan[k].pc = "repair" /\ jan' = [jan EXCEPT ![k].fix = @ \ {e}]
                BY <3>3 DEF RepairCounter
            <4> QED BY <1>2, <4>1 DEF JanType
        <3>4. CASE FinishPass(k) \/ FailPass(k)
            BY <1>2, <3>4 DEF FinishPass, FailPass, EndPass, AtRest, JanType
        <3>5. CASE BuildIndex(k)
            BY <1>2, <3>5 DEF BuildIndex, JanType
        <3>6. CASE Restart(k)
            <4>1. PICK b \in Booted : jan' = [jan EXCEPT ![k] = b]
                BY <3>6 DEF Restart
            <4> QED BY <1>2, <4>1, BootedTypes
        <3> QED BY <1>3, <3>1, <3>2, <3>3, <3>4, <3>5, <3>6
    <2>4. \A j \in Janitors : /\ Listed(j)' \subseteq Listed(j)
                              /\ jan'[j].pc = "delete" => jan'[j] = jan[j]
        <3>1. Listed(k)' \subseteq Listed(k)
            BY <2>3 DEF Listed
        <3> QED BY <2>2, <2>3, <3>1 DEF Listed
    <2> QED BY <1>1, <2>1, <2>4, QuietPass
<1> QED BY <1>3, ScanPasses, ArchivePasses, DeletePasses DEF Janitor

LEMMA InitPasses == Init => PassInv
<1> SUFFICES ASSUME Init PROVE PassInv
    OBVIOUS
<1>1. TypeInv /\ EffectKnown
    BY InitTyped, InitEffect
<1>2. votes \cup archive \subseteq Issued
    BY DEF Init, Issued
<1>3. \A j \in Janitors : Listed(j) = {} /\ jan[j].pc # "delete"
    <2>1. jan \in [Janitors -> Booted]
        BY DEF Init
    <2> QED BY <2>1, BootedTypes DEF Listed
<1> QED BY <1>1, <1>2, <1>3 DEF PassInv

LEMMA NextPasses == ASSUME Merges = {}, PassInv, [Next]_vars PROVE PassInv'
<1>1. CASE UNCHANGED vars
    BY <1>1 DEF vars, PassInv, TypeInv, TypeOK, EffectKnown, Issued, Own, Listed,
                Before, RowsFor
<1>2. CASE Next
    <2>1. (\E r \in Requests : Toggle(r))
          \/ \E j \in Janitors : Janitor(j) \/ FailPass(j) \/ Restart(j)
        BY <1>2 DEF Next
    <2> QED BY <2>1, TogglePasses, JanitorPasses
<1> QED BY <1>1, <1>2

\* Where no merge is made, whatever passes of any number of instances list, fail
\* and delete at once, a row that leaves the collection without its user taking
\* the vote back is in the archive before.
THEOREM RemovedRowsArchived == ASSUME Merges = {} PROVE Spec => NothingDestroyed
<1>1. ASSUME PassInv, [Next]_vars
      PROVE  [\A v \in votes \ votes' :
                 \/ v \in archive
                 \/ \E r \in Requests : DeleteVote(r)
                 \/ \E m \in Merges : Merge(m)]_vars
    <2>1. CASE votes \subseteq votes'
        BY <2>1
    <2>2. ASSUME NEW r \in Requests, Toggle(r)
          PROVE  votes \subseteq votes' \/ DeleteVote(r)
        BY <2>2 DEF Toggle, FindVote, UpsertFind, UpsertInsert, AdjustCount,
                    AbortRequest
    <2>3. ASSUME NEW j \in Janitors, Janitor(j) \/ FailPass(j) \/ Restart(j)
          PROVE  votes' = votes \/ DeleteGroup(j)
        BY <2>3 DEF Janitor, ScanDuplicates, ArchiveGroup, TallyVotes, ReadCounters,
                    RepairCounter, FinishPass, BuildIndex, FailPass, Restart
    <2>4. CASE UNCHANGED vars
        BY <2>4 DEF vars
    <2> QED BY <1>1, <2>1, <2>2, <2>3, <2>4, DeletionSpares DEF Next
<1> QED BY <1>1, InitPasses, NextPasses, PTL DEF Spec, NothingDestroyed

\* A deletion by a pass takes nobody's vote.
LEMMA DeletionUnseen ==
    ASSUME PassInv, NEW k \in Janitors, DeleteGroup(k)
    PROVE  Ledger' = Ledger
<1>1. votes' \subseteq votes
    BY DEF DeleteGroup
<1>2. ASSUME NEW v \in votes, v.user # Anonymous
      PROVE  <<v.user, v.entry>> \in Ledger'
    <2>1. PICK s \in RowsFor(v.user, v.entry) : s \in votes'
        BY DeletionSpares
    <2>2. s.user = v.user /\ s.entry = v.entry
        BY DEF RowsFor
    <2> QED BY <1>2, <2>1, <2>2 DEF Ledger
<1> QED BY <1>1, <1>2 DEF Ledger

\* The requests as the ledger sees them.
Asked == [r \in Requests |-> IF req[r].pc = "new" THEN {}
                              ELSE {<<req[r].user, req[r].entry>>}]
Spent == {r \in Requests : \/ req[r].did # "nothing"
                           \/ req[r].pc \in {"done", "aborted"}}

LEMMA ToggleSeen ==
    ASSUME PassInv, NEW r \in Requests, Toggle(r)
    PROVE  \/ UNCHANGED <<Ledger, Asked, Spent>>
           \/ /\ Asked[r] = {} /\ UNCHANGED <<Ledger, Spent>>
              /\ Asked' = [Asked EXCEPT ![r] = {<<req[r].user, req[r].entry>>}]
           \/ /\ Asked[r] # {} /\ r \notin Spent
              /\ Spent' = Spent \cup {r} /\ Asked' = Asked
              /\ Ledger' \in {Ledger, Ledger \cup Asked[r], Ledger \ Asked[r]}
<1> USE DEF PassInv, TypeInv, TypeOK
<1>1. req[r] \in ReqType
    OBVIOUS
<1>2. req[r].user # Anonymous
    BY <1>1, ConstantsAssumption DEF ReqType, ConstantsAssumption
<1>3. CASE FindVote(r)
    <2>1. PICK pc \in {"delete", "upsert"} : req' = [req EXCEPT ![r].pc = pc]
        BY <1>3 DEF FindVote, Step
    <2>2. req[r].pc = "new" /\ votes' = votes
        BY <1>3 DEF FindVote
    <2>3. Ledger' = Ledger
        BY <2>2 DEF Ledger
    <2>4. Spent' = Spent
        BY <1>1, <2>1, <2>2 DEF Spent, ReqType
    <2>5. Asked[r] = {} /\ Asked' = [Asked EXCEPT ![r] = {<<req[r].user, req[r].entry>>}]
        BY <1>1, <2>1, <2>2 DEF Asked, ReqType
    <2> QED BY <2>3, <2>4, <2>5
<1>4. ASSUME NEW pc \in {"insert", "done", "aborted", "adjust"},
             NEW did \in {"nothing", "cast", "retracted"},
             req' = [req EXCEPT ![r].pc = pc, ![r].did = did],
             req[r].pc # "new"
      PROVE  /\ Asked' = Asked /\ Asked[r] = {<<req[r].user, req[r].entry>>}
             /\ Spent' = IF did # "nothing" \/ pc \in {"done", "aborted"}
                         THEN Spent \cup {r} ELSE Spent \ {r}
    <2>1. /\ req'[r].pc = pc /\ req'[r].did = did
          /\ \A q \in Requests : /\ req'[q].user = req[q].user
                                 /\ req'[q].entry = req[q].entry
                                 /\ q # r => req'[q] = req[q]
        BY <1>1, <1>4 DEF ReqType
    <2>2. pc # "new"
        OBVIOUS
    <2>3. Asked' = Asked /\ Asked[r] = {<<req[r].user, req[r].entry>>}
        <3>1. \A q \in Requests : req'[q].pc = "new" <=> req[q].pc = "new"
            BY <1>4, <2>1, <2>2
        <3> QED BY <1>4, <2>1, <3>1 DEF Asked
    <2>4. r \in Spent' <=> did # "nothing" \/ pc \in {"done", "aborted"}
        BY <2>1 DEF Spent
    <2>5. \A q \in Requests : q # r => (q \in Spent' <=> q \in Spent)
        BY <2>1 DEF Spent
    <2>6. Spent \subseteq Requests /\ Spent' \subseteq Requests
        BY DEF Spent
    <2>7. CASE did # "nothing" \/ pc \in {"done", "aborted"}
        BY <2>3, <2>4, <2>5, <2>6, <2>7
    <2>8. CASE ~(did # "nothing" \/ pc \in {"done", "aborted"})
        BY <2>3, <2>4, <2>5, <2>6, <2>8
    <2> QED BY <2>7, <2>8
<1>5. ASSUME NEW pc, Step(r, pc)
      PROVE  req' = [req EXCEPT ![r].pc = pc, ![r].did = req[r].did]
    BY <1>1, <1>5 DEF Step, ReqType
<1>6. req[r].pc \in {"upsert", "insert", "delete"} => r \notin Spent
    BY <1>1 DEF EffectKnown, Spent
<1>7. CASE UpsertFind(r)
    <2>1. PICK pc \in {"insert", "done"} : Step(r, pc)
        BY <1>7 DEF UpsertFind
    <2>2. req[r].pc = "upsert" /\ votes' = votes /\ req[r].did = "nothing"
        BY <1>1, <1>7 DEF UpsertFind, EffectKnown
    <2>3. Ledger' = Ledger
        BY <2>2 DEF Ledger
    <2>4. /\ Asked' = Asked /\ Asked[r] = {<<req[r].user, req[r].entry>>}
          /\ Spent' = IF pc = "done" THEN Spent \cup {r} ELSE Spent \ {r}
        BY <1>1, <1>4, <1>5, <2>1, <2>2
    <2> QED BY <1>6, <2>2, <2>3, <2>4
<1>8. CASE UpsertInsert(r)
    <2>1. req[r].pc = "insert" /\ r \notin Spent
        BY <1>6, <1>8 DEF UpsertInsert
    <2>2. CASE Step(r, "done") /\ votes' = votes
        <3>1. Ledger' = Ledger
            BY <2>2 DEF Ledger
        <3>2. req[r].did \in {"nothing", "cast", "retracted"}
            BY <1>1 DEF ReqType
        <3>3. req' = [req EXCEPT ![r].pc = "done", ![r].did = req[r].did]
            BY <1>5, <2>2
        <3>4. /\ Asked' = Asked /\ Asked[r] = {<<req[r].user, req[r].entry>>}
              /\ Spent' = Spent \cup {r}
            BY <1>4, <2>1, <3>2, <3>3
        <3> QED BY <2>1, <3>1, <3>4
    <2>3. CASE /\ votes' = votes \cup {Own(r)}
               /\ req' = [req EXCEPT ![r].pc = "adjust", ![r].did = "cast"]
        <3> DEFINE new == Own(r)
        <3>1. Ledger' = Ledger \cup {<<req[r].user, req[r].entry>>}
            <4>1. new.user = req[r].user /\ new.entry = req[r].entry
                BY DEF Own
            <4> HIDE DEF new
            <4>2. Ledger' = Ledger \cup {<<new.user, new.entry>>}
                BY <1>2, <2>3, <4>1 DEF Ledger, new
            <4> QED BY <4>1, <4>2
        <3>2. /\ Asked' = Asked /\ Asked[r] = {<<req[r].user, req[r].entry>>}
              /\ Spent' = Spent \cup {r}
            BY <1>4, <2>1, <2>3
        <3> QED BY <2>1, <3>1, <3>2
    <2> QED BY <1>8, <2>2, <2>3 DEF UpsertInsert, Own
<1>9. CASE DeleteVote(r)
    <2> DEFINE rows == RowsFor(req[r].user, req[r].entry)
    <2>1. req[r].pc = "delete" /\ r \notin Spent /\ votes' = votes \ rows
        BY <1>6, <1>9 DEF DeleteVote
    <2>2. CASE rows = {}
        <3>1. Ledger' = Ledger
            BY <2>1, <2>2 DEF Ledger
        <3>2. req[r].did \in {"nothing", "cast", "retracted"}
            BY <1>1 DEF ReqType
        <3>3. req' = [req EXCEPT ![r].pc = "done", ![r].did = req[r].did]
            BY <1>5, <1>9, <2>2 DEF DeleteVote
        <3>4. /\ Asked' = Asked /\ Asked[r] = {<<req[r].user, req[r].entry>>}
              /\ Spent' = Spent \cup {r}
            BY <1>4, <2>1, <3>2, <3>3
        <3> QED BY <2>1, <3>1, <3>4
    <2>3. CASE rows # {}
        <3>1. Ledger' = Ledger \ {<<req[r].user, req[r].entry>>}
            BY <2>1 DEF Ledger, RowsFor
        <3>2. req' = [req EXCEPT ![r].pc = "adjust", ![r].did = "retracted"]
            BY <1>9, <2>3 DEF DeleteVote
        <3>3. /\ Asked' = Asked /\ Asked[r] = {<<req[r].user, req[r].entry>>}
              /\ Spent' = Spent \cup {r}
            BY <1>4, <2>1, <3>2
        <3> QED BY <2>1, <3>1, <3>3
    <2> QED BY <2>2, <2>3
<1>10. CASE AdjustCount(r) \/ AbortRequest(r)
    <2>1. PICK pc \in {"done", "aborted"} : Step(r, pc)
        BY <1>10 DEF AdjustCount, AbortRequest
    <2>2. req[r].pc # "new" /\ votes' = votes
        BY <1>10 DEF AdjustCount, AbortRequest
    <2>3. Ledger' = Ledger
        BY <2>2 DEF Ledger
    <2>4. req[r].did \in {"nothing", "cast", "retracted"}
        BY <1>1 DEF ReqType
    <2>5. req' = [req EXCEPT ![r].pc = pc, ![r].did = req[r].did]
        BY <1>5, <2>1
    <2>6. /\ Asked' = Asked /\ Asked[r] = {<<req[r].user, req[r].entry>>}
          /\ Spent' = Spent \cup {r}
        BY <1>4, <2>2, <2>4, <2>5
    <2>7. r \in Spent => Spent' = Spent
        BY <2>6
    <2> QED BY <2>3, <2>6, <2>7
<1> QED BY <1>3, <1>7, <1>8, <1>9, <1>10 DEF Toggle

LEMMA JanitorUnseen ==
    ASSUME PassInv, NEW k \in Janitors, Janitor(k) \/ FailPass(k) \/ Restart(k)
    PROVE  UNCHANGED <<Ledger, Asked, Spent>>
<1>1. req' = req
    BY DEF Janitor, ScanDuplicates, ArchiveGroup, DeleteGroup, TallyVotes, ReadCounters,
           RepairCounter, FinishPass, BuildIndex, FailPass, Restart
<1>2. Asked' = Asked /\ Spent' = Spent
    BY <1>1 DEF Asked, Spent
<1>3. votes' = votes \/ DeleteGroup(k)
    BY DEF Janitor, ScanDuplicates, ArchiveGroup, TallyVotes, ReadCounters,
           RepairCounter, FinishPass, BuildIndex, FailPass, Restart
<1>4. votes' = votes => Ledger' = Ledger
    BY DEF Ledger
<1> QED BY <1>2, <1>3, <1>4, DeletionUnseen

\* Where no merge is made, the voting code implements the ledger: every behaviour of
\* any number of toggles, passes, failures and restarts is, seen through the rows of
\* votes, one of VoteLedger.
THEOREM VotingIsALedger == ASSUME Merges = {} PROVE Spec => ImplementsLedger
<1>1. Init => Abstract!Init
    BY DEF Init, Abstract!Init, Ledger
<1>2. ASSUME PassInv, [Next]_vars PROVE [Abstract!Next]_(Abstract!vars)
    <2>1. ASSUME UNCHANGED <<Ledger, Asked, Spent>> PROVE UNCHANGED Abstract!vars
        BY <2>1 DEF Abstract!vars, Asked, Spent
    <2>2. CASE UNCHANGED vars
        <3>1. UNCHANGED <<Ledger, Asked, Spent>>
            BY <2>2 DEF vars, Ledger, Asked, Spent
        <3> QED BY <2>1, <3>1
    <2>3. ASSUME NEW r \in Requests, Toggle(r)
          PROVE  [Abstract!Next]_(Abstract!vars)
        <3>1. PICK u \in Users, e \in Entries : u = req[r].user /\ e = req[r].entry
            BY <1>2 DEF PassInv, TypeInv, TypeOK, ReqType
        <3>2. CASE UNCHANGED <<Ledger, Asked, Spent>>
            BY <2>1, <3>2
        <3>3. CASE /\ Asked[r] = {} /\ UNCHANGED <<Ledger, Spent>>
                   /\ Asked' = [Asked EXCEPT ![r] = {<<req[r].user, req[r].entry>>}]
            <4>1. Abstract!Ask(r, u, e)
                BY <3>1, <3>3 DEF Abstract!Ask, Asked, Spent
            <4> QED BY <4>1 DEF Abstract!Next
        <3>4. CASE /\ Asked[r] # {} /\ r \notin Spent
                   /\ Spent' = Spent \cup {r} /\ Asked' = Asked
                   /\ Ledger' \in {Ledger, Ledger \cup Asked[r], Ledger \ Asked[r]}
            <4>1. Abstract!Cast(r) \/ Abstract!Retract(r) \/ Abstract!Forfeit(r)
                BY <3>4 DEF Abstract!Cast, Abstract!Retract, Abstract!Forfeit, Asked, Spent
            <4> QED BY <4>1 DEF Abstract!Next
        <3> QED BY <1>2, <2>3, <3>2, <3>3, <3>4, ToggleSeen
    <2>4. ASSUME NEW j \in Janitors, Janitor(j) \/ FailPass(j) \/ Restart(j)
          PROVE  [Abstract!Next]_(Abstract!vars)
        BY <1>2, <2>1, <2>4, JanitorUnseen
    <2> QED BY <1>2, <2>2, <2>3, <2>4 DEF Next
<1> QED BY <1>1, <1>2, InitPasses, NextPasses, PTL DEF Spec, ImplementsLedger, Abstract!Spec
-----------------------------------------------------------------------------
(* Voters, where merges are made.  On a deployment that starts with its     *)
(* index over unique rows a pass never finds a group to archive, so only    *)
(* toggles and merges write votes.  Merges that have an entry in common do  *)
(* lose votes: each can drop a row for the one that the other drops, or     *)
(* drop by its id the row that the other has just moved.                    *)

StartsIndexed == IndexAtStart /\ Unique(LegacyRows)

\* No entry is in two merges.
MergesApart ==
    \A m, n \in Merges :
        m # n => {mrg[m].src, mrg[m].dst} \cap {mrg[n].src, mrg[n].dst} = {}

\* The row was there at the start, or a request of its user inserted it.
Known(v) == \/ \E x \in LegacyRows : x.id = v.id /\ x.user = v.user
            \/ /\ v.id \in Requests
               /\ req[v.id].did # "nothing" /\ req[v.id].user = v.user

\* What a merge remembers of the votes: the rows it has still to see to are the
\* source's and, where their users take nothing back, still there; who it takes
\* for a voter of the destination, and takes nothing back, is one.
MergeInv(m) ==
    /\ mrg[m].todo \cup mrg[m].dstUsers # {} => mrg[m].src # mrg[m].dst
    /\ mrg[m].pc \in {"readSrc", "readDst"} => mrg[m].src # mrg[m].dst
    /\ \A v \in mrg[m].todo : /\ v.entry = mrg[m].src /\ Known(v)
                              /\ v.user # Anonymous /\ Loyal(v.user) => v \in votes
    /\ \A u \in mrg[m].dstUsers : Loyal(u) => RowsFor(u, mrg[m].dst) # {}

RowsById == \A v, w \in votes : v.id = w.id => v = w

VoterInv ==
    /\ TypeInv /\ EffectKnown /\ MergesApart
    /\ index /\ Unique(votes)
    /\ RowsById
    /\ \A v \in votes : Known(v)
    /\ \A j \in Janitors : jan[j].groups = {} /\ jan[j].surplus = {}
    /\ \A m \in Merges : MergeInv(m)
    /\ VotersKeepAVote

\* The voter whom an id stands for is one.
LEMMA KnownUser ==
    ASSUME NEW v, NEW w, Known(v), Known(w), v.id = w.id
    PROVE  v.user = w.user
<1> USE ConstantsAssumption DEF ConstantsAssumption
<1>1. CASE v.id \in Requests
    BY <1>1 DEF Known
<1>2. CASE v.id \notin Requests
    BY <1>2 DEF Known
<1> QED BY <1>1, <1>2

\* What a step of a toggle leaves.
LEMMA ToggleLeaves ==
    ASSUME TypeInv, EffectKnown, NEW r \in Requests, Toggle(r)
    PROVE  /\ mrg' = mrg /\ jan' = jan /\ index' = index
           /\ \A q \in Requests : /\ req'[q].user = req[q].user
                                  /\ req'[q].entry = req[q].entry
                                  /\ q # r => req'[q] = req[q]
           /\ req[r].did # "nothing" => req'[r].did = req[r].did
           /\ \/ votes' = votes /\ req'[r].did = req[r].did
              \/ /\ votes' = votes \cup {Own(r)} /\ req'[r].did = "cast"
                 /\ req[r].did = "nothing"
              \/ /\ votes' = votes \ RowsFor(req[r].user, req[r].entry)
                 /\ req'[r].did = "retracted"
<1> USE DEF TypeInv, TypeOK
<1>1. req[r] \in ReqType
    OBVIOUS
<1>2. mrg' = mrg /\ jan' = jan /\ index' = index
    BY DEF Toggle, FindVote, UpsertFind, UpsertInsert, DeleteVote, AdjustCount,
           AbortRequest
<1>3. ASSUME NEW pc, Step(r, pc)
      PROVE  /\ \A q \in Requests : /\ req'[q].user = req[q].user
                                    /\ req'[q].entry = req[q].entry
                                    /\ q # r => req'[q] = req[q]
             /\ req'[r].did = req[r].did
    BY <1>1, <1>3 DEF Step, ReqType
<1>4. ASSUME NEW did,
             req' = [req EXCEPT ![r].pc = "adjust", ![r].did = did]
      PROVE  /\ \A q \in Requests : /\ req'[q].user = req[q].user
                                    /\ req'[q].entry = req[q].entry
                                    /\ q # r => req'[q] = req[q]
             /\ req'[r].did = did
    BY <1>1, <1>4 DEF ReqType
<1>5. CASE FindVote(r) \/ UpsertFind(r) \/ AdjustCount(r) \/ AbortRequest(r)
    <2>1. votes' = votes /\ \E pc : Step(r, pc)
        BY <1>5 DEF FindVote, UpsertFind, AdjustCount, AbortRequest
    <2> QED BY <1>2, <1>3, <2>1
<1>6. CASE UpsertInsert(r)
    <2>1. req[r].did = "nothing"
        BY <1>1, <1>6 DEF UpsertInsert, EffectKnown
    <2>2. CASE Step(r, "done") /\ votes' = votes
        BY <1>2, <1>3, <2>2
    <2>3. CASE /\ votes' = votes \cup {Own(r)}
               /\ req' = [req EXCEPT ![r].pc = "adjust", ![r].did = "cast"]
        BY <1>2, <1>4, <2>1, <2>3
    <2> QED BY <1>6, <2>2, <2>3 DEF UpsertInsert, Own
<1>7. CASE DeleteVote(r)
    <2>1. req[r].did = "nothing"
        BY <1>1, <1>7 DEF DeleteVote, EffectKnown
    <2>2. CASE Step(r, "done") /\ RowsFor(req[r].user, req[r].entry) = {}
        <3>1. votes' = votes
            BY <1>7, <2>2 DEF DeleteVote
        <3> QED BY <1>2, <1>3, <2>2, <3>1
    <2>3. CASE req' = [req EXCEPT ![r].pc = "adjust", ![r].did = "retracted"]
        <3>1. votes' = votes \ RowsFor(req[r].user, req[r].entry)
            BY <1>7 DEF DeleteVote
        <3> QED BY <1>2, <1>4, <2>1, <2>3, <3>1
    <2> QED BY <1>7, <2>2, <2>3 DEF DeleteVote
<1> QED BY <1>5, <1>6, <1>7 DEF Toggle

\* A toggle takes rows only of a user who takes a vote back by it.
LEMMA ToggleVoters ==
    ASSUME VoterInv, NEW r \in Requests, Toggle(r)
    PROVE  VoterInv'
<1> DEFINE u == req[r].user
<1>0. TypeInv /\ EffectKnown /\ IndexKeepsVotesUnique
    BY DEF VoterInv, IndexKeepsVotesUnique
<1>1. /\ mrg' = mrg /\ jan' = jan /\ index' = index
      /\ \A q \in Requests : /\ req'[q].user = req[q].user
                             /\ req'[q].entry = req[q].entry
                             /\ q # r => req'[q] = req[q]
      /\ req[r].did # "nothing" => req'[r].did = req[r].did
      /\ \/ votes' = votes /\ req'[r].did = req[r].did
         \/ /\ votes' = votes \cup {Own(r)} /\ req'[r].did = "cast"
            /\ req[r].did = "nothing"
         \/ /\ votes' = votes \ RowsFor(u, req[r].entry)
            /\ req'[r].did = "retracted"
    BY <1>0, ToggleLeaves
<1>2. TypeInv' /\ EffectKnown'
    BY <1>0, ToggleTyped, NextEffect
<1>3. index' /\ Unique(votes')
    <2>1. index'
        BY <1>1 DEF VoterInv
    <2>2. [Next]_vars
        BY DEF Next
    <2> QED BY <1>0, <2>1, <2>2, NextIndexed DEF IndexKeepsVotesUnique
<1>4. \A v : Known(v) => Known(v)'
    BY <1>1 DEF Known
<1>5. req'[r].did # "nothing" /\ req'[r].user = u => Known(Own(r))'
    BY DEF Known, Own
<1>6. RowsById' /\ \A v \in votes' : Known(v)'
    <2>1. CASE votes' \subseteq votes
        BY <1>4, <2>1 DEF VoterInv, RowsById
    <2>2. CASE votes' = votes \cup {Own(r)} /\ req'[r].did = "cast"
               /\ req[r].did = "nothing"
        <3>1. \A v \in votes : v.id # r
            BY <2>2, ConstantsAssumption DEF VoterInv, Known, ConstantsAssumption
        <3>2. Known(Own(r))' /\ Own(r)' = Own(r)
            BY <1>1, <1>5, <2>2 DEF Own
        <3> QED BY <1>4, <2>2, <3>1, <3>2 DEF VoterInv, RowsById, Own, Known
    <2> QED BY <1>1, <2>1, <2>2
<1>7. ASSUME NEW x, Loyal(x)' PROVE Loyal(x) /\ (x = u => votes \subseteq votes')
    BY <1>1, <1>7 DEF Loyal
<1>8. ASSUME NEW x, Loyal(x)', NEW v \in votes, v.user = x PROVE v \in votes'
    BY <1>1, <1>7, <1>8 DEF RowsFor
<1>9. ASSUME NEW m \in Merges PROVE MergeInv(m)'
    <2>1. MergeInv(m)
        BY DEF VoterInv
    <2>2. \A v \in mrg[m].todo : v.user # Anonymous /\ Loyal(v.user)' => v \in votes'
        BY <1>7, <1>8, <2>1 DEF MergeInv
    <2>3. ASSUME NEW x \in mrg[m].dstUsers, Loyal(x)'
          PROVE  RowsFor(x, mrg[m].dst)' # {}
        <3>1. PICK v \in RowsFor(x, mrg[m].dst) : TRUE
            BY <1>7, <2>1, <2>3 DEF MergeInv
        <3>2. v \in votes' /\ v.user = x /\ v.entry = mrg[m].dst
            BY <1>8, <2>3 DEF RowsFor
        <3> QED BY <1>1, <3>2 DEF RowsFor
    <2> QED BY <1>1, <1>4, <2>1, <2>2, <2>3 DEF MergeInv
<1>10. VotersKeepAVote'
    <2> SUFFICES ASSUME NEW x \in Users, Loyal(x)', HasVoted(x)'
                 PROVE  \E v \in votes' : v.user = x
        BY DEF VotersKeepAVote
    <2>1. CASE HasVoted(x)
        BY <1>7, <1>8, <2>1 DEF VoterInv, VotersKeepAVote
    <2>2. CASE ~HasVoted(x)
        <3>1. x = u /\ req'[r].did = "cast" /\ req[r].did # "cast"
            BY <1>1, <2>2 DEF HasVoted
        <3>2. Own(r) \in votes' /\ Own(r).user = x
            BY <1>1, <3>1 DEF Own
        <3> QED BY <3>2
    <2> QED BY <2>1, <2>2
<1>11. MergesApart'
    BY <1>1 DEF VoterInv, MergesApart
<1> QED BY <1>1, <1>2, <1>3, <1>6, <1>9, <1>10, <1>11 DEF VoterInv

\* A step that leaves the votes and what the requests did leaves what is said of
\* both.
LEMMA StillVotes ==
    ASSUME VoterInv, TypeInv', req' = req, votes' = votes, index' = index,
           \A m \in Merges : mrg'[m].src = mrg[m].src /\ mrg'[m].dst = mrg[m].dst,
           \A j \in Janitors : jan'[j].groups = {} /\ jan'[j].surplus = {},
           \A m \in Merges : MergeInv(m)'
    PROVE  VoterInv'
<1>1. EffectKnown' /\ MergesApart' /\ index' /\ Unique(votes') /\ RowsById'
    BY DEF VoterInv, EffectKnown, MergesApart, Unique, RowsById
<1>2. \A v \in votes' : Known(v)'
    BY DEF VoterInv, Known
<1>3. VotersKeepAVote'
    BY DEF VoterInv, VotersKeepAVote, Loyal, HasVoted
<1> QED BY <1>1, <1>2, <1>3 DEF VoterInv

\* A merge that remembers the same rows and voters.
LEMMA StillMerge ==
    ASSUME NEW m \in Merges, MergeInv(m), req' = req, votes' = votes,
           mrg'[m].src = mrg[m].src, mrg'[m].dst = mrg[m].dst,
           mrg'[m].todo = mrg[m].todo, mrg'[m].dstUsers = mrg[m].dstUsers,
           mrg'[m].pc \in {"readSrc", "readDst"} => mrg[m].src # mrg[m].dst
    PROVE  MergeInv(m)'
BY DEF MergeInv, Known, Loyal, RowsFor

\* The steps of a merge that remember nothing new of the votes.
LEMMA QuietMerges ==
    ASSUME VoterInv, NEW m \in Merges,
           \/ Relate(m) \/ CountSource(m) \/ SetSource(m) \/ CountDestination(m)
           \/ SetDestination(m) \/ CancelSource(m) \/ RecordMerge(m) \/ AbortMerge(m)
    PROVE  VoterInv'
<1>1. TypeInv' /\ mrg \in [Merges -> MrgType]
    BY MergeTyped DEF VoterInv, Merge, TypeInv, TypeOK
<1>2. votes' = votes /\ req' = req /\ jan' = jan /\ index' = index
    BY DEF Relate, CountSource, SetSource, CountDestination, SetDestination,
           CancelSource, RecordMerge, AbortMerge
<1>3. \A n \in Merges : n # m => mrg'[n] = mrg[n]
    BY <1>1 DEF Relate, CountSource, SetSource, CountDestination, SetDestination,
           CancelSource, RecordMerge, AbortMerge
<1>4. /\ mrg'[m].src = mrg[m].src /\ mrg'[m].dst = mrg[m].dst
      /\ mrg'[m].todo = mrg[m].todo /\ mrg'[m].dstUsers = mrg[m].dstUsers
      /\ mrg'[m].pc \in {"readSrc", "readDst"} => mrg[m].src # mrg[m].dst
    BY <1>1 DEF Relate, CountSource, SetSource, CountDestination, SetDestination,
           CancelSource, RecordMerge, AbortMerge, MrgType
<1>5. \A n \in Merges : MergeInv(n)
    BY DEF VoterInv
<1>6. ASSUME NEW n \in Merges PROVE MergeInv(n)'
    <2>1. n # m => mrg'[n] = mrg[n]
        BY <1>3
    <2>2. mrg[n].pc \in {"readSrc", "readDst"} => mrg[n].src # mrg[n].dst
        BY <1>5 DEF MergeInv
    <2> QED BY <1>2, <1>4, <1>5, <2>1, <2>2, StillMerge
<1> QED BY <1>1, <1>2, <1>3, <1>4, <1>6, StillVotes DEF VoterInv

\* The reads of a merge: what it remembers is so when it reads it.
LEMMA ReadingMerges ==
    ASSUME VoterInv, NEW m \in Merges, ReadSource(m) \/ ReadDestination(m)
    PROVE  VoterInv'
<1>1. TypeInv' /\ mrg \in [Merges -> MrgType] /\ votes \subseteq Row
    BY MergeTyped DEF VoterInv, Merge, TypeInv, TypeOK
<1>2. votes' = votes /\ req' = req /\ jan' = jan /\ index' = index
    BY DEF ReadSource, ReadDestination
<1>3. \A n \in Merges : n # m => mrg'[n] = mrg[n]
    BY <1>1 DEF ReadSource, ReadDestination
<1>4. \A n \in Merges : MergeInv(n)
    BY DEF VoterInv
<1>5. mrg'[m].src = mrg[m].src /\ mrg'[m].dst = mrg[m].dst
    BY <1>1 DEF ReadSource, ReadDestination, MrgType
<1>6. MergeInv(m)'
    <2>1. \A v : Known(v)' <=> Known(v)
        BY <1>2 DEF Known
    <2>2. \A x : Loyal(x)' <=> Loyal(x)
        BY <1>2 DEF Loyal
    <2>3. \A x, e : RowsFor(x, e)' = RowsFor(x, e)
        BY <1>2 DEF RowsFor
    <2>4. CASE ReadSource(m)
        <3>1. /\ mrg'[m].todo = RowsOn(mrg[m].src)
              /\ mrg'[m].dstUsers = mrg[m].dstUsers
              /\ mrg'[m].pc # "readSrc" /\ mrg[m].pc = "readSrc"
            BY <1>1, <2>4 DEF ReadSource, MrgType
        <3>2. mrg[m].src # mrg[m].dst
            BY <1>4, <3>1 DEF MergeInv
        <3>3. \A v \in RowsOn(mrg[m].src) : v \in votes /\ v.entry = mrg[m].src /\ Known(v)
            BY DEF RowsOn, VoterInv
        <3> QED BY <1>2, <1>4, <1>5, <2>1, <2>2, <2>3, <3>1, <3>2, <3>3 DEF MergeInv
    <2>5. CASE ReadDestination(m)
        <3>1. /\ mrg'[m].todo = mrg[m].todo
              /\ mrg'[m].dstUsers = {v.user : v \in RowsOn(mrg[m].dst)} \ {Anonymous}
              /\ mrg'[m].pc # "readSrc"
            <4> DEFINE users == {v.user : v \in RowsOn(mrg[m].dst)} \ {Anonymous}
            <4>1. mrg' = [mrg EXCEPT ![m].dstUsers = users, ![m].pc = "migrate"]
                BY <2>5 DEF ReadDestination
            <4> HIDE DEF users
            <4>2. mrg'[m].dstUsers = users /\ mrg'[m].todo = mrg[m].todo
                  /\ mrg'[m].pc = "migrate"
                BY <1>1, <4>1 DEF MrgType
            <4> QED BY <4>2 DEF users
        <3>2. \A x \in mrg'[m].dstUsers : RowsFor(x, mrg[m].dst) # {}
            BY <3>1 DEF RowsOn, RowsFor
        <3>3. mrg[m].src # mrg[m].dst
            BY <1>4, <2>5 DEF ReadDestination, MergeInv
        <3> QED BY <1>2, <1>4, <1>5, <2>1, <2>2, <2>3, <3>1, <3>2, <3>3 DEF MergeInv
    <2> QED BY <2>4, <2>5
<1>7. \A n \in Merges : MergeInv(n)'
    <2>1. ASSUME NEW n \in Merges, n # m PROVE MergeInv(n)'
        <3>1. mrg'[n] = mrg[n]
            BY <1>3, <2>1
        <3>2. mrg[n].pc \in {"readSrc", "readDst"} => mrg[n].src # mrg[n].dst
            BY <1>4 DEF MergeInv
        <3> QED BY <1>2, <1>4, <3>1, <3>2, StillMerge
    <2> QED BY <1>6, <2>1
<1> QED BY <1>1, <1>2, <1>3, <1>5, <1>7, StillVotes DEF VoterInv

\* Of the rows of voters who take nothing back, the one that a merge sees to is the
\* only one with its id, and is on the source.
LEMMA SeenTo ==
    ASSUME VoterInv, NEW m \in Merges, NEW v \in mrg[m].todo, NEW w, w \in votes \/ w \in mrg[m].todo,
           w.id = v.id, w.user # Anonymous, Loyal(w.user)
    PROVE  w = v /\ v \in votes /\ v.entry = mrg[m].src
<1>1. MergeInv(m)
    BY DEF VoterInv
<1>2. Known(v) /\ Known(w)
    BY <1>1 DEF VoterInv, MergeInv
<1>3. v.user = w.user
    BY <1>2, KnownUser
<1>4. v \in votes /\ w \in votes /\ v.entry = mrg[m].src
    BY <1>1, <1>3 DEF MergeInv
<1> QED BY <1>4 DEF VoterInv, RowsById

\* A step of a merge that sees to a row of the source, and leaves its voter, unless
\* it takes something back, a row on the destination.
LEMMA RowMigrates ==
    ASSUME VoterInv, TypeInv', NEW m \in Merges, NEW v \in mrg[m].todo,
           req' = req, jan' = jan, index' = index,
           \A n \in Merges : n # m => mrg'[n] = mrg[n],
           mrg'[m].src = mrg[m].src, mrg'[m].dst = mrg[m].dst,
           mrg'[m].todo = mrg[m].todo \ {v},
           mrg'[m].pc \notin {"readSrc", "readDst"},
           mrg'[m].dstUsers \ {v.user} \subseteq mrg[m].dstUsers,
           Unique(votes'), RowsById', \A w \in votes' : Known(w)',
           \A w \in votes : w.id # v.id => w \in votes',
           v.user # Anonymous /\ Loyal(v.user) => RowsFor(v.user, mrg[m].dst)' # {}
    PROVE  VoterInv'
<1>1. \A x : Loyal(x)' <=> Loyal(x)
    BY DEF Loyal
<1>2. \A x : Known(x)' <=> Known(x)
    BY DEF Known
<1>3. EffectKnown' /\ MergesApart' /\ index'
    BY DEF VoterInv, EffectKnown, MergesApart
<1>4. ASSUME NEW w \in votes, w.user # Anonymous, Loyal(w.user), w \notin votes'
      PROVE  w = v /\ w.entry = mrg[m].src
    BY <1>4, SeenTo
<1>5. mrg[m].src # mrg[m].dst /\ \A n \in Merges : MergeInv(n)
    BY DEF VoterInv, MergeInv
<1>6. MergeInv(m)'
    <2>1. ASSUME NEW w \in mrg'[m].todo, w.user # Anonymous, Loyal(w.user)
          PROVE  w \in votes'
        <3>1. w \in mrg[m].todo /\ w # v
            OBVIOUS
        <3>2. w \in votes
            BY <1>5, <2>1, <3>1 DEF MergeInv
        <3> QED BY <1>4, <2>1, <3>1, <3>2
    <2>2. ASSUME NEW x \in mrg'[m].dstUsers, Loyal(x)
          PROVE  RowsFor(x, mrg[m].dst)' # {}
        <3>1. x \in Users /\ x # Anonymous
            BY ConstantsAssumption DEF ConstantsAssumption, TypeInv, TypeOK, MrgType
        <3>2. CASE x = v.user
            BY <2>2, <3>1, <3>2
        <3>3. CASE x # v.user
            <4>1. x \in mrg[m].dstUsers
                BY <3>3
            <4>2. PICK w \in RowsFor(x, mrg[m].dst) : TRUE
                BY <1>5, <2>2, <4>1 DEF MergeInv
            <4>3. w \in votes /\ w.user = x /\ w.entry = mrg[m].dst
                BY DEF RowsFor
            <4>4. w \in votes'
                BY <1>4, <1>5, <2>2, <3>1, <4>3
            <4> QED BY <4>3, <4>4 DEF RowsFor
        <3> QED BY <3>2, <3>3
    <2> QED BY <1>1, <1>2, <1>5, <2>1, <2>2 DEF MergeInv
<1>7. ASSUME NEW n \in Merges, n # m PROVE MergeInv(n)'
    <2>1. mrg[n].src # mrg[m].src /\ mrg[n].dst # mrg[m].src /\ mrg'[n] = mrg[n]
        BY <1>7 DEF VoterInv, MergesApart
    <2>2. ASSUME NEW w \in mrg[n].todo, w.user # Anonymous, Loyal(w.user)
          PROVE  w \in votes'
        <3>1. w \in votes /\ w.entry = mrg[n].src
            BY <1>5, <2>2 DEF MergeInv
        <3> QED BY <1>4, <2>1, <2>2, <3>1
    <2>3. ASSUME NEW x \in mrg[n].dstUsers, Loyal(x)
          PROVE  RowsFor(x, mrg[n].dst)' # {}
        <3>1. x # Anonymous
            BY <2>1, ConstantsAssumption DEF ConstantsAssumption, TypeInv, TypeOK, MrgType
        <3>2. PICK w \in RowsFor(x, mrg[n].dst) : TRUE
            BY <1>5, <2>3 DEF MergeInv
        <3>3. w \in votes /\ w.user = x /\ w.entry = mrg[n].dst
            BY DEF RowsFor
        <3>4. w \in votes'
            BY <1>4, <2>1, <2>3, <3>1, <3>3
        <3> QED BY <3>3, <3>4 DEF RowsFor
    <2> QED BY <1>1, <1>2, <1>5, <2>1, <2>2, <2>3 DEF MergeInv
<1>8. VotersKeepAVote'
    <2> SUFFICES ASSUME NEW x \in Users, Loyal(x)', HasVoted(x)'
                 PROVE  \E w \in votes' : w.user = x
        BY DEF VotersKeepAVote
    <2>1. Loyal(x) /\ HasVoted(x) /\ x # Anonymous
        BY <1>1, ConstantsAssumption DEF HasVoted, ConstantsAssumption
    <2>2. PICK w \in votes : w.user = x
        BY <2>1 DEF VoterInv, VotersKeepAVote
    <2>3. CASE w \in votes'
        BY <2>2, <2>3
    <2>4. CASE w \notin votes'
        <3>1. v.user = x
            BY <1>4, <2>1, <2>2, <2>4
        <3> QED BY <2>1, <3>1 DEF RowsFor
    <2> QED BY <2>3, <2>4
<1>9. \A j \in Janitors : jan'[j].groups = {} /\ jan'[j].surplus = {}
    BY DEF VoterInv
<1> QED BY <1>3, <1>6, <1>7, <1>8, <1>9 DEF VoterInv

\* A row is deleted only where its user has one on the destination.
LEMMA DropMigrates ==
    ASSUME VoterInv, NEW m \in Merges, DropVote(m) PROVE VoterInv'
<1>1. TypeInv' /\ mrg \in [Merges -> MrgType]
    BY MergeTyped DEF VoterInv, Merge, TypeInv, TypeOK
<1>2. PICK v \in mrg[m].todo :
         /\ mrg[m].pc = "migrate" /\ v.user \in mrg[m].dstUsers
         /\ votes' = {w \in votes : w.id # v.id}
         /\ mrg' = [mrg EXCEPT ![m].todo = @ \ {v}]
         /\ req' = req /\ jan' = jan /\ index' = index
    BY DEF DropVote
<1>3. /\ \A n \in Merges : n # m => mrg'[n] = mrg[n]
      /\ mrg'[m].src = mrg[m].src /\ mrg'[m].dst = mrg[m].dst
      /\ mrg'[m].todo = mrg[m].todo \ {v} /\ mrg'[m].pc = "migrate"
      /\ mrg'[m].dstUsers = mrg[m].dstUsers
    BY <1>1, <1>2 DEF MrgType
<1>4. Unique(votes') /\ RowsById' /\ \A w \in votes' : Known(w)'
    BY <1>2 DEF VoterInv, Unique, RowsById, Known
<1>5. ASSUME v.user # Anonymous, Loyal(v.user)
      PROVE  RowsFor(v.user, mrg[m].dst)' # {}
    <2>1. MergeInv(m)
        BY DEF VoterInv
    <2>2. PICK w \in RowsFor(v.user, mrg[m].dst) : TRUE
        BY <1>2, <1>5, <2>1 DEF MergeInv
    <2>3. w \in votes /\ w.user = v.user /\ w.entry = mrg[m].dst
        BY DEF RowsFor
    <2>4. w.id # v.id
        BY <1>5, <2>1, <2>3, SeenTo DEF MergeInv
    <2> QED BY <1>2, <1>3, <2>3, <2>4 DEF RowsFor
<1>6. mrg'[m].pc \notin {"readSrc", "readDst"}
      /\ mrg'[m].dstUsers \ {v.user} \subseteq mrg[m].dstUsers
    BY <1>3
<1>7. \A w \in votes : w.id # v.id => w \in votes'
    BY <1>2
<1> QED BY <1>1, <1>2, <1>3, <1>4, <1>5, <1>6, <1>7, RowMigrates

\* Any other row is on the destination then.
LEMMA MoveMigrates ==
    ASSUME VoterInv, NEW m \in Merges, MoveVote(m) PROVE VoterInv'
<1>1. TypeInv' /\ mrg \in [Merges -> MrgType] /\ votes \subseteq Row
    BY MergeTyped DEF VoterInv, Merge, TypeInv, TypeOK
<1>2. PICK v \in mrg[m].todo : MoveVote(m)!(v)
    BY DEF MoveVote
<1> DEFINE moved == {[w EXCEPT !.entry = mrg[m].dst] : w \in {x \in votes : x.id = v.id}}
           after == {w \in votes : w.id # v.id} \cup moved
<1>3. req' = req /\ jan' = jan /\ index' = index /\ index
    BY <1>2 DEF VoterInv
<1>4. CASE mrg' = [mrg EXCEPT ![m].pc = "aborted"] /\ votes' = votes
    <2>1. ASSUME NEW n \in Merges PROVE MergeInv(n)'
        <3>1. /\ MergeInv(n)
              /\ mrg'[n].src = mrg[n].src /\ mrg'[n].dst = mrg[n].dst
              /\ mrg'[n].todo = mrg[n].todo /\ mrg'[n].dstUsers = mrg[n].dstUsers
              /\ mrg'[n].pc \in {"aborted", mrg[n].pc}
            BY <1>1, <1>4 DEF VoterInv, MrgType
        <3>2. mrg'[n].pc \in {"readSrc", "readDst"} => mrg[n].src # mrg[n].dst
            BY <3>1 DEF MergeInv
        <3> QED BY <1>3, <1>4, <3>1, <3>2, StillMerge
    <2>2. \A n \in Merges : mrg'[n].src = mrg[n].src /\ mrg'[n].dst = mrg[n].dst
        BY <1>1, <1>4 DEF MrgType
    <2> QED BY <1>1, <1>3, <1>4, <2>1, <2>2, StillVotes DEF VoterInv
<1>5. CASE /\ Unique(after) /\ votes' = after
           /\ mrg' = [mrg EXCEPT ![m].todo = @ \ {v},
                                 ![m].dstUsers = @ \cup ({v.user} \ {Anonymous})]
    <2>1. /\ \A n \in Merges : n # m => mrg'[n] = mrg[n]
          /\ mrg'[m].src = mrg[m].src /\ mrg'[m].dst = mrg[m].dst
          /\ mrg'[m].todo = mrg[m].todo \ {v} /\ mrg'[m].pc = mrg[m].pc
          /\ mrg'[m].dstUsers \ {v.user} \subseteq mrg[m].dstUsers
        BY <1>1, <1>5 DEF MrgType
    <2>2. \A x \in moved : \E w \in votes : x.id = w.id /\ x.user = w.user /\ w.id = v.id
                                            /\ x.entry = mrg[m].dst
                                            /\ x = [w EXCEPT !.entry = mrg[m].dst]
        BY <1>1 DEF Row
    <2>3. RowsById'
        <3>1. ASSUME NEW x \in after, NEW y \in after, x.id = y.id PROVE x = y
            <4>1. CASE x.id = v.id
                <5>1. x \in moved /\ y \in moved
                    BY <3>1, <4>1
                <5>2. PICK w \in votes : w.id = v.id /\ x = [w EXCEPT !.entry = mrg[m].dst]
                    BY <5>1
                <5>3. PICK z \in votes : z.id = v.id /\ y = [z EXCEPT !.entry = mrg[m].dst]
                    BY <5>1
                <5>4. w = z
                    BY <5>2, <5>3 DEF VoterInv, RowsById
                <5> QED BY <5>2, <5>3, <5>4
            <4>2. CASE x.id # v.id
                <5>1. x \in votes /\ y \in votes
                    BY <2>2, <3>1, <4>2
                <5> QED BY <3>1, <5>1 DEF VoterInv, RowsById
            <4> QED BY <4>1, <4>2
        <3> HIDE DEF after
        <3> QED BY <1>5, <3>1 DEF RowsById
    <2>4. \A w \in votes' : Known(w)'
        <3>1. ASSUME NEW x \in after PROVE Known(x)
            <4>1. PICK w \in votes : x.id = w.id /\ x.user = w.user
                BY <2>2
            <4>2. Known(w)
                BY DEF VoterInv
            <4> QED BY <4>1, <4>2 DEF Known
        <3>2. \A x : Known(x)' <=> Known(x)
            BY <1>3 DEF Known
        <3> HIDE DEF after
        <3> QED BY <1>5, <3>1, <3>2
    <2>5. ASSUME v.user # Anonymous, Loyal(v.user)
          PROVE  RowsFor(v.user, mrg[m].dst)' # {}
        <3>1. v \in votes
            BY <2>5, SeenTo DEF VoterInv, MergeInv
        <3>2. PICK x \in moved : x = [v EXCEPT !.entry = mrg[m].dst]
            BY <3>1
        <3>3. x.user = v.user /\ x.entry = mrg[m].dst /\ x \in votes'
            BY <1>1, <1>5, <3>1, <3>2 DEF Row
        <3> QED BY <2>1, <3>3 DEF RowsFor
    <2>6. \A w \in votes : w.id # v.id => w \in votes'
        BY <1>5
    <2>7. mrg'[m].pc \notin {"readSrc", "readDst"}
        BY <1>2, <2>1
    <2>8. Unique(votes')
        BY <1>5
    <2> HIDE DEF after, moved
    <2> QED BY <1>1, <1>3, <2>1, <2>3, <2>4, <2>5, <2>6, <2>7, <2>8, RowMigrates
<1> QED BY <1>2, <1>3, <1>4, <1>5

\* Where rows are unique no pass finds anything to archive.
LEMMA NothingListed ==
    ASSUME VoterInv, NEW k \in Janitors, Janitor(k) \/ FailPass(k) \/ Restart(k)
    PROVE  VoterInv'
<1>1. TypeInv' /\ jan \in [Janitors -> JanType]
    BY JanitorTyped DEF VoterInv, TypeInv, TypeOK
<1>2. jan[k].groups = {} /\ jan[k].surplus = {}
    BY DEF VoterInv
<1>3. DuplicateGroups = {}
    <2> SUFFICES ASSUME NEW u \in Users, NEW e \in Entries,
                        Cardinality(RowsFor(u, e)) > 1
                 PROVE  FALSE
        BY DEF DuplicateGroups
    <2>1. \A v, w \in RowsFor(u, e) : v = w
        BY ConstantsAssumption DEF ConstantsAssumption, VoterInv, Unique, RowsFor
    <2>2. RowsFor(u, e) = {} \/ \E v : RowsFor(u, e) = {v}
        BY <2>1
    <2>3. Cardinality(RowsFor(u, e)) \in {0, 1}
        BY <2>2, FS_EmptySet, FS_Singleton
    <2> QED BY <2>3
<1>4. req' = req /\ mrg' = mrg
    BY DEF Janitor, ScanDuplicates, ArchiveGroup, DeleteGroup, TallyVotes, ReadCounters,
           RepairCounter, FinishPass, BuildIndex, FailPass, Restart
<1>5. votes' = votes
    BY <1>2 DEF Janitor, ScanDuplicates, ArchiveGroup, DeleteGroup, TallyVotes,
           ReadCounters, RepairCounter, FinishPass, BuildIndex, FailPass, Restart
<1>6. index' = index
    <2>1. index /\ (BuildIndex(k) => index' = (index \/ Unique(votes)))
        BY DEF VoterInv, BuildIndex
    <2>2. CASE BuildIndex(k)
        BY <2>1, <2>2, <1>1 DEF TypeInv, TypeOK
    <2>3. CASE ~BuildIndex(k)
        BY <2>3 DEF Janitor, ScanDuplicates, ArchiveGroup, DeleteGroup, TallyVotes,
               ReadCounters, RepairCounter, FinishPass, FailPass, Restart
    <2> QED BY <2>2, <2>3
<1>7. \A j \in Janitors : j # k => jan'[j] = jan[j]
    BY <1>1 DEF Janitor, ScanDuplicates, ArchiveGroup, DeleteGroup, TallyVotes,
           ReadCounters, RepairCounter, FinishPass, BuildIndex, FailPass, Restart,
           EndPass
<1>8. jan'[k].groups = {} /\ jan'[k].surplus = {}
    <2>1. CASE ScanDuplicates(k)
        <3>1. jan' = [jan EXCEPT ![k].groups = {}, ![k].pc = "archive"]
            BY <1>3, <2>1 DEF ScanDuplicates
        <3> QED BY <1>1, <1>2, <3>1 DEF JanType
    <2>2. CASE ArchiveGroup(k)
        BY <1>2, <2>2 DEF ArchiveGroup
    <2>3. CASE DeleteGroup(k)
        BY <1>1, <1>2, <2>3 DEF DeleteGroup, JanType
    <2>4. CASE TallyVotes(k)
        BY <1>1, <1>2, <2>4 DEF TallyVotes, JanType
    <2>5. CASE ReadCounters(k)
        BY <1>1, <1>2, <2>5 DEF ReadCounters, JanType
    <2>6. CASE RepairCounter(k)
        <3>1. PICK e : jan' = [jan EXCEPT ![k].fix = @ \ {e}]
            BY <2>6 DEF RepairCounter
        <3> QED BY <1>1, <1>2, <3>1 DEF JanType
    <2>7. CASE FinishPass(k) \/ FailPass(k)
        BY <1>1, <2>7 DEF FinishPass, FailPass, EndPass, AtRest, JanType
    <2>8. CASE BuildIndex(k)
        BY <1>1, <1>2, <2>8 DEF BuildIndex, JanType
    <2>9. CASE Restart(k)
        <3>1. PICK b \in Booted : jan' = [jan EXCEPT ![k] = b]
            BY <2>9 DEF Restart
        <3> QED BY <1>1, <3>1, BootedTypes
    <2> QED BY <2>1, <2>2, <2>3, <2>4, <2>5, <2>6, <2>7, <2>8, <2>9 DEF Janitor
<1>9. \A m \in Merges : MergeInv(m)'
    BY <1>4, <1>5 DEF VoterInv, MergeInv, Known, Loyal, RowsFor
<1>10. \A j \in Janitors : jan'[j].groups = {} /\ jan'[j].surplus = {}
    BY <1>7, <1>8 DEF VoterInv
<1> QED BY <1>1, <1>4, <1>5, <1>6, <1>9, <1>10, StillVotes

LEMMA InitVoters == ASSUME StartsIndexed, Init, MergesApart PROVE VoterInv
<1>1. TypeInv /\ EffectKnown
    BY InitTyped, InitEffect
<1>2. votes = LegacyRows /\ index /\ Unique(votes)
    BY DEF Init, StartsIndexed
<1>3. RowsById /\ \A v \in votes : Known(v)
    BY <1>2, ConstantsAssumption DEF RowsById, Known, ConstantsAssumption
<1>4. \A j \in Janitors : jan[j].groups = {} /\ jan[j].surplus = {}
    <2>1. jan \in [Janitors -> Booted]
        BY DEF Init
    <2> QED BY <2>1, BootedTypes
<1>5. \A m \in Merges : MergeInv(m)
    <2>1. \A m \in Merges : mrg[m].todo = {} /\ mrg[m].dstUsers = {} /\ mrg[m].pc = "new"
        BY DEF Init
    <2> QED BY <2>1 DEF MergeInv
<1>6. VotersKeepAVote
    BY <1>2 DEF VotersKeepAVote, HasVoted, Init
<1> QED BY <1>1, <1>2, <1>3, <1>4, <1>5, <1>6 DEF VoterInv

LEMMA NextVoters == ASSUME VoterInv, [Next]_vars PROVE VoterInv'
<1>1. CASE UNCHANGED vars
    <2>1. /\ TypeInv' /\ req' = req /\ votes' = votes /\ index' = index /\ mrg' = mrg
          /\ jan' = jan
        BY <1>1, NextTyped DEF vars, VoterInv
    <2>2. \A m \in Merges : MergeInv(m)'
        BY <2>1 DEF VoterInv, MergeInv, Known, Loyal, RowsFor
    <2>3. \A j \in Janitors : jan'[j].groups = {} /\ jan'[j].surplus = {}
        BY <2>1 DEF VoterInv
    <2> QED BY <2>1, <2>2, <2>3, StillVotes
<1>2. ASSUME NEW m \in Merges, Merge(m) PROVE VoterInv'
    BY <1>2, QuietMerges, ReadingMerges, DropMigrates, MoveMigrates DEF Merge
<1> QED BY <1>1, <1>2, ToggleVoters, NothingListed DEF Next

\* On a deployment that starts with its index over unique rows, and where no entry
\* is in two merges, whoever voted and took nothing back has a vote, whatever toggles,
\* merges, passes and failures there are.
THEOREM VotersKeepTheirVotes ==
    ASSUME StartsIndexed
    PROVE  Spec /\ MergesApart => []VotersKeepAVote
<1>1. Init /\ MergesApart => VoterInv
    BY InitVoters
<1>2. VoterInv /\ [Next]_vars => VoterInv'
    BY NextVoters
<1>3. VoterInv => VotersKeepAVote
    BY DEF VoterInv
<1> QED BY <1>1, <1>2, <1>3, PTL DEF Spec

\* On such a deployment whoever a merge took for a voter of either entry is found on
\* the destination once the votes are migrated, unless they take a vote back.
THEOREM MergesKeepVoters ==
    ASSUME StartsIndexed
    PROVE  Spec /\ MergesApart => []MergedVotersFollow
<1>1. Init /\ MergesApart => VoterInv
    BY InitVoters
<1>2. VoterInv /\ [Next]_vars => VoterInv'
    BY NextVoters
<1>3. VoterInv => MergedVotersFollow
    BY DEF VoterInv, MergeInv, MergedVotersFollow
<1> QED BY <1>1, <1>2, <1>3, PTL DEF Spec
=============================================================================
