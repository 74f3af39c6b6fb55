------------------------- MODULE EntryRecordsProofs -------------------------
(***************************************************************************)
(* Proofs about EntryRecords, for any number of requests, boots, entries,  *)
(* releases and version names.                                             *)
(***************************************************************************)
EXTENDS EntryRecords, FiniteSetTheorems, TLAPS

-----------------------------------------------------------------------------
(* Typing.                                                                 *)

Actors == Requests \cup Boots
AboutEntry == {"patching", "resolved", "merging", "commenting", "counting",
               "publishing", "linking", "row", "last row"}
AboutRelease == {"renaming", "sweeping", "deleting"}
Pcs == {"new", "over", "listed", "created", "inserting"}
       \cup AboutEntry \cup AboutRelease

FieldsType == [internal : {"public", "internal"}, type : Types,
               status : Statuses, release : Releases \cup {NoRelease},
               issue : {"none", "linked"}]
AnyValue == (UNION {Values[f] : f \in Fields}) \cup {"none"}
ActType == [pc : Pcs, entry : Entries \cup {NoEntry}, seen : FieldsType,
            at : Fields \cup {"none"}, value : AnyValue,
            release : Releases \cup {NoRelease}, name : Names \cup {NoName},
            listed : SUBSET Entries, todo : SUBSET Entries]

\* What an actor remembers fits what it is doing.
Fits(x) ==
    /\ x.pc \in AboutEntry => x.entry \in Entries
    /\ x.pc \in {"row", "last row"} => x.at \in Fields /\ x.value \in Values[x.at]
    /\ x.pc \in AboutRelease => x.release \in Releases
    /\ x.pc \in {"inserting", "renaming"} <=> x.name # NoName
    /\ x.todo # {} => x.pc = "created"
    /\ x.pc = "new" => x = Ended("new")

\* Those who have begun: finitely many, though there may be any number to come.
Begun == {a \in Actors : act[a].pc # "new"}

TypeInv ==
    /\ stored \subseteq Entries
    /\ field \in [Entries -> FieldsType]
    /\ shown \in [Entries -> FieldsType]
    /\ created \in [Entries -> Nat]
    /\ commentCount \in [Entries -> Int]
    /\ comments \in [Entries -> Nat]
    /\ issues \in [Entries -> Nat]
    /\ name \in [Releases -> Names \cup {NoName}]
    /\ unused \subseteq Releases
    /\ act \in [Actors -> ActType]
    /\ \A a \in Actors : Fits(act[a])
    /\ IsFiniteSet(Begun)

LEMMA FieldsAre == Fields = {"internal", "type", "status", "release", "issue"}
BY DEF Fields, Values

LEMMA ValuesAre == /\ Values["internal"] = {"public", "internal"}
                   /\ Values["type"] = Types
                   /\ Values["status"] = Statuses
                   /\ Values["release"] = Releases \cup {NoRelease}
                   /\ Values["issue"] = {"none", "linked"}
BY DEF Values

\* A field takes any of its values; a field's value is one of them.
LEMMA FieldSet ==
    ASSUME NEW s \in FieldsType, NEW f \in Fields, NEW v \in Values[f]
    PROVE  [s EXCEPT ![f] = v] \in FieldsType
BY FieldsAre, ValuesAre DEF FieldsType

LEMMA FieldGet == ASSUME NEW s \in FieldsType, NEW f \in Fields
                  PROVE  s[f] \in Values[f]
BY FieldsAre, ValuesAre DEF FieldsType

LEMMA FieldUpdate ==
    ASSUME NEW s \in FieldsType, NEW f \in Fields, NEW v, NEW g \in Fields
    PROVE  [s EXCEPT ![f] = v][g] = IF g = f THEN v ELSE s[g]
BY FieldsAre DEF FieldsType

LEMMA NewEntryTyped == NewEntry \in FieldsType
BY DEF NewEntry, FieldsType, Types, Statuses

LEMMA ValueTyped == /\ "none" \in AnyValue
                    /\ \A f \in Fields : Values[f] \subseteq AnyValue
BY DEF AnyValue

LEMMA EndedTyped == ASSUME NEW pc \in {"new", "over"}
                    PROVE  Ended(pc) \in ActType /\ Fits(Ended(pc))
BY NewEntryTyped, ValueTyped
   DEF Ended, ActType, Fits, Pcs, AboutEntry, AboutRelease

\* One actor's step keeps those begun finite.
LEMMA BegunFinite ==
    ASSUME TypeInv, NEW a \in Actors, \A b \in Actors : b # a => act'[b] = act[b]
    PROVE  IsFiniteSet(Begun)'
<1>1. Begun' \subseteq Begun \cup {a}
  BY DEF Begun
<1>2. IsFiniteSet(Begun \cup {a})
  BY FS_AddElement DEF TypeInv
<1> QED
  BY <1>1, <1>2, FS_Subset

LEMMA InitTyped == Init => TypeInv
<1> SUFFICES ASSUME Init PROVE TypeInv
  OBVIOUS
<1>1. PICK t \in Types, x \in Releases \cup {NoRelease} :
         field = [e \in Entries |-> [NewEntry EXCEPT !.type = t, !.release = x]]
  BY DEF Init
<1>2. [NewEntry EXCEPT !.type = t, !.release = x] \in FieldsType
  BY DEF NewEntry, FieldsType, Statuses
<1>3. field \in [Entries -> FieldsType] /\ shown = field
  BY <1>1, <1>2 DEF Init
<1>4. act \in [Actors -> ActType] /\ \A a \in Actors : Fits(act[a])
  BY EndedTyped DEF Init, Actors
<1>5. Begun = {}
  BY DEF Begun, Init, Ended, Actors
<1>6. created \in [Entries -> Nat] /\ stored \subseteq Entries
  <2>1. 0 .. (IF stored = {} THEN 0 ELSE 1) \subseteq Nat
    OBVIOUS
  <2> QED
    BY <2>1 DEF Init
<1>7. /\ comments = [e \in Entries |-> 0]
      /\ commentCount = comments /\ issues = comments
      /\ name \in [Releases -> Names \cup {NoName}]
      /\ unused \subseteq Releases
  BY DEF Init
<1> QED
  BY <1>3, <1>4, <1>5, <1>6, <1>7, FS_EmptySet DEF TypeInv

\* An actor that goes on to a state that is typed and fits keeps act typed.
LEMMA ActTyped ==
    ASSUME TypeInv, NEW a \in Actors, NEW x \in ActType, Fits(x),
           act' = [act EXCEPT ![a] = x]
    PROVE  /\ act' \in [Actors -> ActType]
           /\ \A b \in Actors : Fits(act'[b])
           /\ IsFiniteSet(Begun)'
<1>1. \A b \in Actors : b # a => act'[b] = act[b]
  BY DEF TypeInv
<1> QED
  BY <1>1, BegunFinite DEF TypeInv

LEMMA PutTyped ==
    ASSUME TypeInv, NEW r \in Requests, NEW f \in Fields, NEW v \in Values[f],
           NEW then \in {"row", "last row"}, act[r].pc \in AboutEntry,
           Put(r, f, v, then)
    PROVE  TypeInv'
<1>1. r \in Actors /\ act[r] \in ActType /\ Fits(act[r])
      /\ act[r].entry \in Entries
  BY DEF Actors, Fits, TypeInv
<1>2. field' \in [Entries -> FieldsType]
  BY <1>1, FieldSet DEF Put, TypeInv
<1>3. PICK s \in FieldsType :
         s = [act[r].seen EXCEPT ![f] = NewEntry[f]]
  BY <1>1, FieldSet, FieldGet, NewEntryTyped DEF ActType
<1>4. PICK x : x = [act[r] EXCEPT !.pc = then, !.at = f, !.value = v,
                                  !.seen = s, !.release = NoRelease]
  OBVIOUS
<1>5. act' = [act EXCEPT ![r] = x]
  BY <1>1, <1>3, <1>4 DEF Put, ActType, TypeInv
<1>6. x \in ActType
  <2>1. v \in AnyValue /\ then \in Pcs
    BY ValueTyped DEF Pcs, AboutEntry
  <2> QED
    BY <1>1, <1>3, <1>4, <2>1 DEF ActType
<1>7. Fits(x)
  <2>1. /\ x.entry = act[r].entry /\ x.pc = then /\ x.at = f /\ x.value = v
        /\ x.todo = act[r].todo /\ x.name = act[r].name
    BY <1>1, <1>4 DEF ActType
  <2> QED
    BY <1>1, <2>1 DEF Fits, AboutEntry, AboutRelease
<1> QED
  BY <1>1, <1>2, <1>5, <1>6, <1>7, ActTyped DEF Put, TypeInv, rows, releases

LEMMA CreatedRowTyped ==
    ASSUME TypeInv, NEW a \in Actors, InsertCreatedRow(a) \/ Done(a)
    PROVE  TypeInv'
<1> USE DEF TypeInv, entry, rows, releases
<1>0. act[a] \in ActType /\ Fits(act[a])
  OBVIOUS
<1>1. CASE InsertCreatedRow(a)
  <2>1. PICK e \in act[a].todo :
           /\ created' = [created EXCEPT ![e] = @ + 1]
           /\ act' = [act EXCEPT ![a].todo = @ \ {e}]
    BY <1>1 DEF InsertCreatedRow
  <2>2. e \in Entries
    BY <1>0 DEF ActType
  <2>3. PICK x : x = [act[a] EXCEPT !.todo = @ \ {e}]
    OBVIOUS
  <2>4. act' = [act EXCEPT ![a] = x]
    BY <1>0, <2>1, <2>3
  <2>5. x \in ActType /\ Fits(x)
    BY <1>0, <1>1, <2>3
       DEF ActType, Fits, AboutEntry, AboutRelease, InsertCreatedRow
  <2>6. created' \in [Entries -> Nat]
    BY <2>1, <2>2
  <2> QED
    BY <1>1, <2>4, <2>5, <2>6, ActTyped DEF InsertCreatedRow
<1>2. CASE Done(a)
  <2>1. PICK x : x = [act[a] EXCEPT !.pc = "over"]
    OBVIOUS
  <2>2. act' = [act EXCEPT ![a] = x]
    BY <1>0, <1>2, <2>1 DEF Done
  <2>3. x \in ActType /\ Fits(x)
    BY <1>0, <1>2, <2>1 DEF ActType, Fits, Pcs, AboutEntry, AboutRelease, Done
  <2> QED
    BY <1>2, <2>2, <2>3, ActTyped DEF Done
<1> QED
  BY <1>1, <1>2

LEMMA SweepTyped ==
    ASSUME TypeInv, NEW r \in Actors, act[r].pc = "sweeping",
           act' = [act EXCEPT ![r].pc = "deleting"]
    PROVE  /\ act' \in [Actors -> ActType]
           /\ \A b \in Actors : Fits(act'[b])
           /\ IsFiniteSet(Begun)'
<1>0. act[r] \in ActType /\ Fits(act[r])
  BY DEF TypeInv
<1>1. PICK x : x = [act[r] EXCEPT !.pc = "deleting"]
  OBVIOUS
<1>2. act' = [act EXCEPT ![r] = x]
  BY <1>0, <1>1
<1>3. x \in ActType /\ Fits(x)
  BY <1>0, <1>1 DEF ActType, Fits, Pcs, AboutEntry, AboutRelease
<1> QED
  BY <1>2, <1>3, ActTyped

LEMMA HandleTyped ==
    ASSUME TypeInv, NEW r \in Requests, Handle(r) PROVE TypeInv'
<1> USE DEF TypeInv
<1> USE DEF entry, rows, releases
<1>0. r \in Actors /\ act[r] \in ActType /\ Fits(act[r])
  BY DEF Actors
<1>1. CASE ReadEntry(r)
  <2>1. PICK e \in stored, pc \in {"patching", "merging", "commenting", "publishing"} :
           act' = [act EXCEPT ![r].pc = pc, ![r].entry = e,
                              ![r].seen = IF pc = "patching" THEN field[e] ELSE @]
    BY <1>1 DEF ReadEntry
  <2>2. PICK s \in FieldsType :
           s = IF pc = "patching" THEN field[e] ELSE act[r].seen
    BY <1>0 DEF ActType
  <2>3. PICK x : x = [act[r] EXCEPT !.pc = pc, !.entry = e, !.seen = s]
    OBVIOUS
  <2>4. act' = [act EXCEPT ![r] = x]
    BY <1>0, <2>1, <2>2, <2>3 DEF ActType
  <2>5. x \in ActType /\ Fits(x)
    BY <1>0, <1>1, <2>3
       DEF ActType, Fits, Pcs, AboutEntry, AboutRelease, ReadEntry
  <2> QED
    BY <1>0, <1>1, <2>4, <2>5, ActTyped DEF ReadEntry
<1>2. CASE Patch(r)
  BY <1>2, PutTyped, FieldsAre DEF Patch, AboutEntry
<1>3. CASE ResolveRelease(r)
  <2>1. PICK y \in Releases \cup {NoRelease} :
           act' = [act EXCEPT ![r].pc = "resolved", ![r].release = y]
    BY <1>3 DEF ResolveRelease
  <2>2. PICK x : x = [act[r] EXCEPT !.pc = "resolved", !.release = y]
    OBVIOUS
  <2>3. act' = [act EXCEPT ![r] = x]
    BY <1>0, <2>1, <2>2 DEF ActType
  <2>4. x \in ActType /\ Fits(x)
    BY <1>0, <1>3, <2>2
       DEF ActType, Fits, Pcs, AboutEntry, AboutRelease, ResolveRelease
  <2> QED
    BY <1>0, <1>3, <2>3, <2>4, ActTyped DEF ResolveRelease
<1>4. CASE PatchRelease(r) \/ CancelSource(r) \/ SetEntryGitHubIssue(r)
  <2>1. act[r].release \in Values["release"] /\ "cancelled" \in Values["status"]
        /\ "linked" \in Values["issue"]
    BY <1>0, ValuesAre DEF ActType, Statuses
  <2> QED
    BY <1>4, <2>1, PutTyped, FieldsAre
       DEF PatchRelease, CancelSource, SetEntryGitHubIssue, AboutEntry
<1>5. CASE CreateIssue(r)
  <2>1. PICK x : x = [act[r] EXCEPT !.pc = "linking"]
    OBVIOUS
  <2>2. act' = [act EXCEPT ![r] = x]
    BY <1>0, <1>5, <2>1 DEF CreateIssue
  <2>3. x \in ActType /\ Fits(x)
    BY <1>0, <1>5, <2>1
       DEF ActType, Fits, Pcs, AboutEntry, AboutRelease, CreateIssue
  <2>e. act[r].entry \in Entries
    BY <1>0, <1>5 DEF CreateIssue, Fits, AboutEntry
  <2>4. issues' \in [Entries -> Nat]
    BY <1>5, <2>e DEF CreateIssue
  <2> QED
    BY <1>0, <1>5, <2>2, <2>3, <2>4, ActTyped DEF CreateIssue
<1>6. CASE RecordAdminActivity(r)
  <2>1. PICK x : x = IF act[r].pc = "last row" THEN Ended("over")
                     ELSE [act[r] EXCEPT !.pc = "patching", !.value = "none"]
    OBVIOUS
  <2>2. act' = [act EXCEPT ![r] = x]
    BY <1>0, <1>6, <2>1 DEF RecordAdminActivity
  <2>3. x \in ActType /\ Fits(x)
    <3>1. CASE act[r].pc = "last row"
      BY <2>1, <3>1, EndedTyped
    <3>2. CASE act[r].pc = "row"
      BY <1>0, <2>1, <3>2, ValueTyped
         DEF ActType, Fits, Pcs, AboutEntry, AboutRelease
    <3> QED
      BY <1>6, <3>1, <3>2 DEF RecordAdminActivity
  <2>4. shown' \in [Entries -> FieldsType]
    <3>1. /\ act[r].entry \in Entries /\ act[r].at \in Fields
          /\ act[r].value \in Values[act[r].at]
      BY <1>0, <1>6 DEF RecordAdminActivity, Fits, AboutEntry
    <3>2. [shown[act[r].entry] EXCEPT ![act[r].at] = act[r].value] \in FieldsType
      BY <3>1, FieldSet
    <3> QED
      BY <1>6, <3>1, <3>2 DEF RecordAdminActivity
  <2> QED
    BY <1>0, <1>6, <2>2, <2>3, <2>4, ActTyped DEF RecordAdminActivity
<1>7. CASE InsertComment(r)
  <2>1. PICK x : x = [act[r] EXCEPT !.pc = "counting"]
    OBVIOUS
  <2>2. act' = [act EXCEPT ![r] = x]
    BY <1>0, <1>7, <2>1 DEF InsertComment
  <2>3. x \in ActType /\ Fits(x)
    BY <1>0, <1>7, <2>1
       DEF ActType, Fits, Pcs, AboutEntry, AboutRelease, InsertComment
  <2>e. act[r].entry \in Entries
    BY <1>0, <1>7 DEF InsertComment, Fits, AboutEntry
  <2>4. comments' \in [Entries -> Nat]
    BY <1>7, <2>e DEF InsertComment
  <2> QED
    BY <1>0, <1>7, <2>2, <2>3, <2>4, ActTyped DEF InsertComment
<1>8. CASE IncrementEntryCommentCount(r)
  <2>e. act[r].entry \in Entries
    BY <1>0, <1>8 DEF IncrementEntryCommentCount, Fits, AboutEntry
  <2>1. commentCount' \in [Entries -> Int]
    BY <1>8, <2>e DEF IncrementEntryCommentCount
  <2> QED
    BY <1>0, <1>8, <2>1, EndedTyped, ActTyped DEF IncrementEntryCommentCount
<1>9. CASE InsertEntry(r)
  <2>1. PICK e \in Entries \ stored, t \in Types :
           /\ stored' = stored \cup {e}
           /\ field' = [field EXCEPT ![e].type = t]
           /\ shown' = [shown EXCEPT ![e].type = t]
           /\ act' = [act EXCEPT ![r].pc = "created", ![r].todo = {e}]
    BY <1>9 DEF InsertEntry
  <2>2. \A s \in FieldsType : [s EXCEPT !.type = t] \in FieldsType
    BY DEF FieldsType
  <2>3. PICK x : x = [act[r] EXCEPT !.pc = "created", !.todo = {e}]
    OBVIOUS
  <2>4. act' = [act EXCEPT ![r] = x]
    BY <1>0, <2>1, <2>3 DEF ActType
  <2>5. x \in ActType /\ Fits(x)
    BY <1>0, <1>9, <2>3
       DEF ActType, Fits, Pcs, AboutEntry, AboutRelease, InsertEntry
  <2> QED
    BY <1>0, <1>9, <2>1, <2>2, <2>4, <2>5, ActTyped DEF InsertEntry
<1>10. CASE InsertCreatedRow(r) \/ Done(r)
  BY <1>0, <1>10, CreatedRowTyped
<1>11. CASE LookUpName(r)
  <2>1. PICK n \in Names :
           act' = [act EXCEPT ![r].pc = "inserting", ![r].name = n]
    BY <1>11 DEF LookUpName
  <2>2. PICK x : x = [act[r] EXCEPT !.pc = "inserting", !.name = n]
    OBVIOUS
  <2>3. act' = [act EXCEPT ![r] = x]
    BY <1>0, <2>1, <2>2 DEF ActType
  <2>4. x \in ActType /\ Fits(x)
    BY <1>0, <1>11, <2>2, ConstantsAssumption
       DEF ActType, Fits, Pcs, AboutEntry, AboutRelease, LookUpName,
           ConstantsAssumption
  <2> QED
    BY <1>0, <1>11, <2>3, <2>4, ActTyped DEF LookUpName
<1>12. CASE InsertRelease(r)
  <2>1. act[r].name \in Names
    BY <1>0, <1>12 DEF InsertRelease, ActType, Fits
  <2>2. name' \in [Releases -> Names \cup {NoName}] /\ unused' \subseteq Releases
    BY <1>12, <2>1 DEF InsertRelease
  <2> QED
    BY <1>0, <1>12, <2>2, EndedTyped, ActTyped DEF InsertRelease
<1>13. CASE LookUpNewName(r)
  <2>1. PICK y \in Releases, n \in Names :
           act' = [act EXCEPT ![r].pc = "renaming", ![r].release = y, ![r].name = n]
    BY <1>13 DEF LookUpNewName
  <2>2. PICK x : x = [act[r] EXCEPT !.pc = "renaming", !.release = y, !.name = n]
    OBVIOUS
  <2>3. act' = [act EXCEPT ![r] = x]
    BY <1>0, <2>1, <2>2 DEF ActType
  <2>4. x \in ActType /\ Fits(x)
    BY <1>0, <1>13, <2>2, ConstantsAssumption
       DEF ActType, Fits, Pcs, AboutEntry, AboutRelease, LookUpNewName,
           ConstantsAssumption
  <2> QED
    BY <1>0, <1>13, <2>3, <2>4, ActTyped DEF LookUpNewName
<1>14. CASE UpdateReleaseFields(r)
  <2>1. name' \in [Releases -> Names \cup {NoName}]
    BY <1>0, <1>14 DEF UpdateReleaseFields, ActType
  <2> QED
    BY <1>0, <1>14, <2>1, EndedTyped, ActTyped DEF UpdateReleaseFields
<1>15. CASE FindRelease(r)
  <2>1. PICK y \in Releases :
           act' = [act EXCEPT ![r].pc = "sweeping", ![r].release = y]
    BY <1>15 DEF FindRelease
  <2>2. PICK x : x = [act[r] EXCEPT !.pc = "sweeping", !.release = y]
    OBVIOUS
  <2>3. act' = [act EXCEPT ![r] = x]
    BY <1>0, <2>1, <2>2 DEF ActType
  <2>4. x \in ActType /\ Fits(x)
    BY <1>0, <1>15, <2>2
       DEF ActType, Fits, Pcs, AboutEntry, AboutRelease, FindRelease
  <2> QED
    BY <1>0, <1>15, <2>3, <2>4, ActTyped DEF FindRelease
<1>16. CASE RemoveReleaseIDFromAllEntries(r)
  <2>1. \A s \in FieldsType :
           [s EXCEPT !.release = IF @ = act[r].release THEN NoRelease ELSE @]
           \in FieldsType
    BY DEF FieldsType
  <2>2. field' \in [Entries -> FieldsType]
    BY <1>16, <2>1 DEF RemoveReleaseIDFromAllEntries
  <2> QED
    BY <1>0, <1>16, <2>2, SweepTyped DEF RemoveReleaseIDFromAllEntries
<1>17. CASE DeleteRelease(r)
  <2>1. name' \in [Releases -> Names \cup {NoName}]
    BY <1>17 DEF DeleteRelease
  <2> QED
    BY <1>0, <1>17, <2>1, EndedTyped, ActTyped DEF DeleteRelease
<1> QED
  BY <1>1, <1>2, <1>3, <1>4, <1>5, <1>6, <1>7, <1>8, <1>9, <1>10, <1>11, <1>12,
     <1>13, <1>14, <1>15, <1>16, <1>17 DEF Handle

\* No step leaves the types.
LEMMA NextTyped == TypeInv /\ [Next]_vars => TypeInv'
<1> SUFFICES ASSUME TypeInv, [Next]_vars PROVE TypeInv'
  OBVIOUS
<1> USE DEF TypeInv, entry, rows, releases
<1>1. ASSUME NEW r \in Requests, Handle(r) PROVE TypeInv'
  BY <1>1, HandleTyped
<1>2. ASSUME NEW b \in Boots, Boot(b) PROVE TypeInv'
  <2>0. b \in Actors /\ act[b] \in ActType /\ Fits(act[b])
    BY DEF Actors
  <2>1. CASE ListEntries(b)
    <3>1. PICK x : x = [act[b] EXCEPT !.pc = "listed", !.listed = stored]
      OBVIOUS
    <3>2. act' = [act EXCEPT ![b] = x]
      BY <2>0, <2>1, <3>1 DEF ListEntries, ActType
    <3>3. x \in ActType /\ Fits(x)
      BY <2>0, <2>1, <3>1
         DEF ActType, Fits, Pcs, AboutEntry, AboutRelease, ListEntries
    <3> QED
      BY <2>0, <2>1, <3>2, <3>3, ActTyped DEF ListEntries
  <2>2. CASE FindMissingRows(b)
    <3>1. PICK s \in SUBSET Entries : s = {e \in act[b].listed : created[e] = 0}
      BY <2>0 DEF ActType
    <3>2. PICK x : x = [act[b] EXCEPT !.pc = "created", !.todo = s]
      OBVIOUS
    <3>3. act' = [act EXCEPT ![b] = x]
      BY <2>0, <2>2, <3>1, <3>2 DEF FindMissingRows, ActType
    <3>4. x \in ActType /\ Fits(x)
      BY <2>0, <2>2, <3>2
         DEF ActType, Fits, Pcs, AboutEntry, AboutRelease, FindMissingRows
    <3> QED
      BY <2>0, <2>2, <3>3, <3>4, ActTyped DEF FindMissingRows
  <2>3. CASE InsertCreatedRow(b) \/ Done(b)
    BY <2>0, <2>3, CreatedRowTyped
  <2> QED
    BY <1>2, <2>1, <2>2, <2>3 DEF Boot
<1>3. ASSUME NEW a \in Actors, Stop(a) PROVE TypeInv'
  BY <1>3, EndedTyped, ActTyped DEF Stop
<1>4. ASSUME NEW r \in Requests, SkipSweep(r) PROVE TypeInv'
  <2>1. r \in Actors /\ act[r] \in ActType /\ Fits(act[r])
    BY DEF Actors
  <2> QED
    BY <1>4, <2>1, SweepTyped DEF SkipSweep
<1>5. CASE UNCHANGED vars
  BY <1>5 DEF vars, Begun
<1> QED
  BY <1>1, <1>2, <1>3, <1>4, <1>5 DEF Next, Actors

\* Every variable always has its type, and what an actor remembers always fits
\* what it is doing.
THEOREM RecordsTyped == Spec => []TypeInv
BY InitTyped, NextTyped, PTL DEF Spec

-----------------------------------------------------------------------------
(* Who moves, and where to.                                                *)

\* A step of a request moves that request only, along these edges.
LEMMA Handled ==
    ASSUME TypeInv, NEW r \in Requests
    PROVE  /\ Handle(r) => \A b \in Actors : b # r => act'[b] = act[b]
           /\ ReadEntry(r) => /\ act[r].pc = "new"
                              /\ act'[r].pc \in {"patching", "merging",
                                                 "commenting", "publishing"}
                              /\ act'[r].entry \in stored
           /\ Patch(r) \/ PatchRelease(r) \/ CancelSource(r)
              \/ SetEntryGitHubIssue(r)
              => /\ act'[r].pc \in {"row", "last row"}
                 /\ act'[r].entry = act[r].entry
           /\ ResolveRelease(r) => act'[r].pc = "resolved"
           /\ CreateIssue(r) => /\ act'[r].pc = "linking"
                                /\ act'[r].entry = act[r].entry
           /\ RecordAdminActivity(r) => act'[r].pc \in {"patching", "over"}
           /\ InsertComment(r) => /\ act'[r].pc = "counting"
                                  /\ act'[r].entry = act[r].entry
           /\ IncrementEntryCommentCount(r) => act'[r].pc = "over"
           /\ InsertEntry(r) => act'[r].pc = "created"
           /\ InsertCreatedRow(r) => act'[r].pc = "created"
           /\ Done(r) => act'[r].pc = "over"
           /\ LookUpName(r) => act'[r].pc = "inserting"
           /\ InsertRelease(r) => act'[r].pc = "over"
           /\ LookUpNewName(r) => act'[r].pc = "renaming"
           /\ UpdateReleaseFields(r) => act'[r].pc = "over"
           /\ FindRelease(r) => act'[r].pc = "sweeping"
           /\ RemoveReleaseIDFromAllEntries(r) => act'[r].pc = "deleting"
           /\ DeleteRelease(r) => act'[r].pc = "over"
<1>0. r \in Actors /\ act[r] \in ActType /\ act \in [Actors -> ActType]
  BY DEF Actors, TypeInv
<1>1. ReadEntry(r) => /\ act[r].pc = "new"
                      /\ act'[r].pc \in {"patching", "merging",
                                         "commenting", "publishing"}
                      /\ act'[r].entry \in stored
                      /\ \A b \in Actors : b # r => act'[b] = act[b]
  BY <1>0 DEF ReadEntry, ActType
<1>2. ASSUME NEW f, NEW v, NEW then, Put(r, f, v, then)
      PROVE  /\ act'[r].pc = then /\ act'[r].entry = act[r].entry
             /\ act'[r].at = f /\ act'[r].value = v /\ act'[r].release = NoRelease
             /\ \A b \in Actors : b # r => act'[b] = act[b]
  BY <1>0, <1>2 DEF Put, ActType
<1>3. Patch(r) \/ PatchRelease(r) \/ CancelSource(r) \/ SetEntryGitHubIssue(r)
      => /\ act'[r].pc \in {"row", "last row"}
         /\ act'[r].entry = act[r].entry
         /\ \A b \in Actors : b # r => act'[b] = act[b]
  BY <1>2 DEF Patch, PatchRelease, CancelSource, SetEntryGitHubIssue
<1>4. /\ ResolveRelease(r) => /\ act'[r].pc = "resolved"
                              /\ \A b \in Actors : b # r => act'[b] = act[b]
      /\ CreateIssue(r) => /\ act'[r].pc = "linking"
                           /\ act'[r].entry = act[r].entry
                           /\ \A b \in Actors : b # r => act'[b] = act[b]
      /\ InsertComment(r) => /\ act'[r].pc = "counting"
                             /\ act'[r].entry = act[r].entry
                             /\ \A b \in Actors : b # r => act'[b] = act[b]
  BY <1>0 DEF ResolveRelease, CreateIssue, InsertComment, ActType
<1>5. RecordAdminActivity(r) => /\ act'[r].pc \in {"patching", "over"}
                                /\ \A b \in Actors : b # r => act'[b] = act[b]
  <2> SUFFICES ASSUME RecordAdminActivity(r)
               PROVE  /\ act'[r].pc \in {"patching", "over"}
                      /\ \A b \in Actors : b # r => act'[b] = act[b]
    OBVIOUS
  <2> DEFINE y == [act[r] EXCEPT !.pc = "patching", !.value = "none"]
  <2>1. act' = [act EXCEPT ![r] = IF act[r].pc = "last row" THEN Ended("over")
                                  ELSE y]
    BY DEF RecordAdminActivity
  <2>2. y.pc = "patching" /\ Ended("over").pc = "over"
    BY <1>0 DEF ActType, Ended
  <2> QED
    BY <1>0, <2>1, <2>2
<1>6. IncrementEntryCommentCount(r) \/ InsertRelease(r) \/ UpdateReleaseFields(r)
      \/ DeleteRelease(r) => /\ act'[r].pc = "over"
                             /\ \A b \in Actors : b # r => act'[b] = act[b]
  BY <1>0 DEF IncrementEntryCommentCount, InsertRelease, UpdateReleaseFields,
              DeleteRelease, Ended
<1>7. InsertEntry(r) => /\ act'[r].pc = "created"
                        /\ \A b \in Actors : b # r => act'[b] = act[b]
  BY <1>0 DEF InsertEntry, ActType
<1>9. InsertCreatedRow(r) => /\ act'[r].pc = "created"
                             /\ \A b \in Actors : b # r => act'[b] = act[b]
  BY <1>0 DEF InsertCreatedRow, ActType
<1>10. Done(r) => /\ act'[r].pc = "over"
                  /\ \A b \in Actors : b # r => act'[b] = act[b]
  BY <1>0 DEF Done, ActType
<1>8. LookUpName(r)
      => /\ act'[r].pc = "inserting"
         /\ \A b \in Actors : b # r => act'[b] = act[b]
  BY <1>0 DEF LookUpName, ActType
<1>11. LookUpNewName(r)
      => /\ act'[r].pc = "renaming"
         /\ \A b \in Actors : b # r => act'[b] = act[b]
  BY <1>0 DEF LookUpNewName, ActType
<1>12. FindRelease(r)
      => /\ act'[r].pc = "sweeping"
         /\ \A b \in Actors : b # r => act'[b] = act[b]
  BY <1>0 DEF FindRelease, ActType
<1>13. RemoveReleaseIDFromAllEntries(r)
      => /\ act'[r].pc = "deleting"
         /\ \A b \in Actors : b # r => act'[b] = act[b]
  BY <1>0 DEF RemoveReleaseIDFromAllEntries, ActType
<1> QED
  BY <1>1, <1>3, <1>4, <1>5, <1>6, <1>7, <1>8, <1>9, <1>10,
     <1>11, <1>12, <1>13 DEF Handle

\* So do a step of a boot, the end of either, and the sweep that is skipped.
LEMMA Booted ==
    ASSUME TypeInv, NEW b \in Boots, Boot(b)
    PROVE  /\ act[b].pc \in {"new", "listed", "created"}
           /\ act'[b].pc \in {"listed", "created", "over"}
           /\ \A a \in Actors : a # b => act'[a] = act[a]
<1>0. b \in Actors /\ act[b] \in ActType /\ act \in [Actors -> ActType]
  BY DEF Actors, TypeInv
<1> QED
  BY <1>0 DEF Boot, ListEntries, FindMissingRows, InsertCreatedRow, Done, ActType

LEMMA Stopped ==
    ASSUME TypeInv, NEW a \in Actors, Stop(a)
    PROVE  act'[a] = Ended("over") /\ \A b \in Actors : b # a => act'[b] = act[b]
BY DEF Stop, TypeInv

LEMMA Skipped ==
    ASSUME TypeInv, NEW r \in Requests, SkipSweep(r)
    PROVE  /\ act[r].pc = "sweeping" /\ act'[r].pc = "deleting"
           /\ act'[r].release = act[r].release /\ act'[r].entry = act[r].entry
           /\ \A b \in Actors : b # r => act'[b] = act[b]
<1>0. r \in Actors /\ act[r] \in ActType /\ act \in [Actors -> ActType]
  BY DEF Actors, TypeInv
<1> QED
  BY <1>0 DEF SkipSweep, ActType

-----------------------------------------------------------------------------
(* Comments.                                                               *)

Counting(e) == {r \in Requests : act[r].pc = "counting" /\ act[r].entry = e}

CountInv == \A e \in Entries \ uncounted :
                commentCount[e] = comments[e] - Cardinality(Counting(e))

LEMMA CountingFinite == ASSUME TypeInv, NEW e
                        PROVE  /\ IsFiniteSet(Counting(e))
                               /\ Cardinality(Counting(e)) \in Nat
<1>1. Counting(e) \subseteq Begun
  BY DEF Counting, Begun, Actors
<1> QED
  BY <1>1, FS_Subset, FS_CardinalityType DEF TypeInv

LEMMA InitCounted == Init => CountInv
<1> SUFFICES ASSUME Init PROVE CountInv
  OBVIOUS
<1>1. \A e : Counting(e) = {}
  BY DEF Init, Counting, Ended
<1> QED
  BY <1>1, FS_EmptySet DEF Init, CountInv

LEMMA NextCounted == TypeInv /\ CountInv /\ [Next]_vars => CountInv'
<1> SUFFICES ASSUME TypeInv, CountInv, [Next]_vars,
                    NEW e \in Entries, e \notin uncounted'
             PROVE  (commentCount[e] = comments[e] - Cardinality(Counting(e)))'
  BY DEF CountInv
<1>0. e \notin uncounted
  BY DEF Next, Observe, vars, ghosts
<1>1. ASSUME Counting(e)' = Counting(e), commentCount'[e] = commentCount[e],
             comments'[e] = comments[e]
      PROVE  (commentCount[e] = comments[e] - Cardinality(Counting(e)))'
  BY <1>0, <1>1 DEF CountInv
<1>2. ASSUME NEW a \in Actors, \A b \in Actors : b # a => act'[b] = act[b],
             act[a].pc # "counting", act'[a].pc # "counting"
      PROVE  Counting(e)' = Counting(e)
  BY <1>2 DEF Counting, Actors
<1>3. ASSUME NEW r \in Requests, Handle(r)
      PROVE  (commentCount[e] = comments[e] - Cardinality(Counting(e)))'
  <2>0. r \in Actors /\ act[r] \in ActType /\ Fits(act[r])
        /\ \A b \in Actors : b # r => act'[b] = act[b]
    BY <1>3, Handled DEF Actors, TypeInv
  <2>1. CASE InsertComment(r)
    <3>1. act[r].entry \in Entries /\ act[r].pc = "commenting"
      BY <2>0, <2>1 DEF InsertComment, Fits, AboutEntry
    <3>2. act'[r].pc = "counting" /\ act'[r].entry = act[r].entry
      BY <2>1, Handled
    <3>3. CASE e = act[r].entry
      <4>1. Counting(e)' = Counting(e) \cup {r} /\ r \notin Counting(e)
        BY <2>0, <3>1, <3>2, <3>3 DEF Counting, Actors
      <4>2. Cardinality(Counting(e)') = Cardinality(Counting(e)) + 1
        BY <4>1, CountingFinite, FS_AddElement
      <4>3. comments'[e] = comments[e] + 1 /\ commentCount'[e] = commentCount[e]
        BY <2>1, <3>3 DEF InsertComment, entry, TypeInv
      <4> QED
        BY <1>0, <4>2, <4>3, CountingFinite DEF CountInv, TypeInv
    <3>4. CASE e # act[r].entry
      <4>1. Counting(e)' = Counting(e)
        BY <2>0, <3>1, <3>2, <3>4 DEF Counting, Actors
      <4> QED
        BY <1>1, <2>1, <3>4, <4>1 DEF InsertComment, entry, TypeInv
    <3> QED
      BY <3>3, <3>4
  <2>2. CASE IncrementEntryCommentCount(r)
    <3>1. act[r].entry \in Entries /\ act[r].pc = "counting"
      BY <2>0, <2>2 DEF IncrementEntryCommentCount, Fits, AboutEntry
    <3>2. act'[r].pc = "over"
      BY <2>2, Handled
    <3>3. CASE e = act[r].entry
      <4>1. Counting(e)' = Counting(e) \ {r} /\ r \in Counting(e)
        BY <2>0, <3>1, <3>2, <3>3 DEF Counting, Actors
      <4>2. Cardinality(Counting(e)') = Cardinality(Counting(e)) - 1
        BY <4>1, CountingFinite, FS_RemoveElement
      <4>3. comments'[e] = comments[e] /\ commentCount'[e] = commentCount[e] + 1
        BY <2>2, <3>3 DEF IncrementEntryCommentCount, TypeInv
      <4> QED
        BY <1>0, <4>2, <4>3, CountingFinite DEF CountInv, TypeInv
    <3>4. CASE e # act[r].entry
      <4>1. Counting(e)' = Counting(e)
        BY <2>0, <3>1, <3>2, <3>4 DEF Counting, Actors
      <4> QED
        BY <1>1, <2>2, <3>4, <4>1 DEF IncrementEntryCommentCount, TypeInv
    <3> QED
      BY <3>3, <3>4
  <2>3. CASE ~InsertComment(r) /\ ~IncrementEntryCommentCount(r)
    <3>1. act[r].pc # "counting" /\ UNCHANGED <<comments, commentCount>>
      BY <1>3, <2>3
         DEF Handle, ReadEntry, Patch, ResolveRelease, PatchRelease, CancelSource,
             CreateIssue, SetEntryGitHubIssue, RecordAdminActivity, InsertEntry,
             InsertCreatedRow, Done, LookUpName, InsertRelease, LookUpNewName,
             UpdateReleaseFields, FindRelease, RemoveReleaseIDFromAllEntries,
             DeleteRelease, Put, entry
    <3>2. act'[r].pc # "counting"
      BY <1>3, <2>3, Handled DEF Handle
    <3> QED
      BY <1>1, <1>2, <2>0, <3>1, <3>2
  <2> QED
    BY <2>1, <2>2, <2>3
<1>4. ASSUME NEW b \in Boots, Boot(b)
      PROVE  (commentCount[e] = comments[e] - Cardinality(Counting(e)))'
  <2>1. UNCHANGED <<comments, commentCount>> /\ b \in Actors
    BY <1>4 DEF Boot, ListEntries, FindMissingRows, InsertCreatedRow, Done, entry,
                Actors
  <2> QED
    BY <1>1, <1>2, <1>4, <2>1, Booted
<1>5. ASSUME NEW a \in Actors, Stop(a),
             Observe(IF act[a].pc = "sweeping" THEN {} ELSE {a})
      PROVE  (commentCount[e] = comments[e] - Cardinality(Counting(e)))'
  <2>1. Counting(e)' = Counting(e)
    <3>1. ~(act[a].pc = "counting" /\ act[a].entry = e)
      BY <1>5 DEF Observe
    <3> QED
      BY <1>5, <3>1, Stopped DEF Counting, Actors, Ended
  <2> QED
    BY <1>1, <1>5, <2>1 DEF Stop, entry
<1>6. ASSUME NEW r \in Requests, SkipSweep(r)
      PROVE  (commentCount[e] = comments[e] - Cardinality(Counting(e)))'
  BY <1>1, <1>2, <1>6, Skipped DEF SkipSweep, entry, Actors
<1>7. CASE UNCHANGED vars
  BY <1>1, <1>7 DEF vars, entry, Counting
<1> QED
  BY <1>3, <1>4, <1>5, <1>6, <1>7 DEF Next, Actors

\* Between the insertion of a comment and its increment, and after a request that
\* died there, Entry.CommentCount is behind, and only then: whatever handlers run
\* at once, concurrent comments are all counted.
THEOREM CommentsAllCounted == Spec => []CommentsCounted
<1>1. TypeInv /\ CountInv => CommentsCounted
  BY DEF CountInv, CommentsCounted, Counting, TypeInv
<1> QED
  BY InitTyped, NextTyped, InitCounted, NextCounted, <1>1, PTL DEF Spec

-----------------------------------------------------------------------------
(* Issues.                                                                 *)

LEMMA AtMostOne == ASSUME NEW S, IsFiniteSet(S), ~(Cardinality(S) > 1)
                   PROVE  \A x, y \in S : x = y
<1> SUFFICES ASSUME NEW x \in S, NEW y \in S, x # y PROVE FALSE
  OBVIOUS
<1>1. IsFiniteSet({x}) /\ Cardinality({x}) = 1
  BY FS_Singleton
<1>2. Cardinality({x} \cup {y}) = 2
  BY <1>1, FS_AddElement
<1>3. {x} \cup {y} \in SUBSET S
  OBVIOUS
<1>4. Cardinality({x} \cup {y}) <= Cardinality(S)
  BY <1>3, FS_Subset
<1>5. Cardinality(S) \in Nat
  BY FS_CardinalityType
<1> QED
  BY <1>2, <1>4, <1>5

\* A write of a field changes that field of that entry.
LEMMA PutField ==
    ASSUME TypeInv, NEW r \in Requests, NEW f \in Fields, NEW v, NEW then,
           Put(r, f, v, then), act[r].entry \in Entries,
           NEW e \in Entries, NEW g \in Fields
    PROVE  field'[e][g] = IF e = act[r].entry /\ g = f THEN v ELSE field[e][g]
<1>1. field' = [field EXCEPT ![act[r].entry][f] = v]
  BY DEF Put
<1>2. field'[e] = IF e = act[r].entry THEN [field[e] EXCEPT ![f] = v] ELSE field[e]
  BY <1>1 DEF TypeInv
<1>3. PICK s \in FieldsType : s = field[e]
  BY DEF TypeInv
<1>4. [s EXCEPT ![f] = v][g] = IF g = f THEN v ELSE s[g]
  BY FieldsAre DEF FieldsType
<1> QED
  BY <1>2, <1>3, <1>4

\* Only SetEntryGitHubIssue writes the link.
LEMMA IssueKept ==
    ASSUME TypeInv, NEW r \in Requests, Handle(r), ~SetEntryGitHubIssue(r),
           NEW e \in Entries
    PROVE  field'[e]["issue"] = field[e]["issue"]
<1>0. r \in Actors /\ act[r] \in ActType /\ Fits(act[r])
  BY DEF Actors, TypeInv
<1>1. CASE Patch(r) \/ PatchRelease(r) \/ CancelSource(r)
  <2>1. act[r].entry \in Entries
    BY <1>0, <1>1 DEF Patch, PatchRelease, CancelSource, Fits, AboutEntry
  <2>2. ASSUME NEW f \in {"internal", "type", "status", "release"}, NEW v, NEW then,
               Put(r, f, v, then)
        PROVE  field'[e]["issue"] = field[e]["issue"]
    BY <2>1, <2>2, FieldsAre, PutField
  <2>3. CASE Patch(r)
    BY <2>2, <2>3 DEF Patch
  <2>4. CASE PatchRelease(r)
    BY <2>2, <2>4 DEF PatchRelease
  <2>5. CASE CancelSource(r)
    BY <2>2, <2>5 DEF CancelSource
  <2> QED
    BY <1>1, <2>3, <2>4, <2>5
<1>2. CASE InsertEntry(r)
  BY <1>2 DEF InsertEntry, TypeInv, FieldsType
<1>3. CASE RemoveReleaseIDFromAllEntries(r)
  <2>1. field'[e] = [field[e] EXCEPT !.release = IF @ = act[r].release
                                                THEN NoRelease ELSE @]
    BY <1>3 DEF RemoveReleaseIDFromAllEntries
  <2> QED
    BY <2>1 DEF TypeInv, FieldsType
<1>4. CASE field' = field
  BY <1>4
<1> QED
  BY <1>1, <1>2, <1>3, <1>4
     DEF Handle, ReadEntry, ResolveRelease, CreateIssue, RecordAdminActivity,
         InsertComment, IncrementEntryCommentCount, InsertCreatedRow, Done,
         LookUpName, InsertRelease, LookUpNewName, UpdateReleaseFields,
         FindRelease, DeleteRelease, entry

\* Away from an entry with two publishers, or an answer that was lost: while one
\* publishes it, it has no link, and an issue as soon as GitHub has answered.
PublishInv ==
    \A e \in Entries \ unheard :
        /\ \A q, r \in Publishes(e) : q = r
        /\ \A r \in Publishes(e) :
              /\ field[e]["issue"] = "none"
              /\ issues[e] = IF act[r].pc = "linking" THEN 1 ELSE 0
        /\ Publishes(e) = {}
           => issues[e] = IF field[e]["issue"] = "linked" THEN 1 ELSE 0

LEMMA InitPublished == Init => PublishInv
<1> SUFFICES ASSUME Init PROVE PublishInv
  OBVIOUS
<1>1. \A e : Publishes(e) = {}
  BY DEF Init, Publishes, Ended
<1>2. \A e \in Entries : field[e]["issue"] = "none"
  BY DEF Init, NewEntry
<1> QED
  BY <1>1, <1>2 DEF Init, PublishInv

LEMMA NextPublished == TypeInv /\ TypeInv' /\ PublishInv /\ [Next]_vars => PublishInv'
<1> DEFINE Good(e) ==
             /\ \A q, r \in Publishes(e) : q = r
             /\ \A r \in Publishes(e) :
                   /\ field[e]["issue"] = "none"
                   /\ issues[e] = IF act[r].pc = "linking" THEN 1 ELSE 0
             /\ Publishes(e) = {}
                => issues[e] = IF field[e]["issue"] = "linked" THEN 1 ELSE 0
<1> SUFFICES ASSUME TypeInv, TypeInv', PublishInv, [Next]_vars,
                    NEW e \in Entries, e \notin unheard'
             PROVE  Good(e)'
  BY DEF PublishInv
<1>0. e \notin unheard /\ Good(e)
  BY DEF Next, Observe, vars, ghosts, PublishInv
<1>1. ASSUME Publishes(e)' = Publishes(e), field'[e]["issue"] = field[e]["issue"],
             issues'[e] = issues[e],
             \A r \in Publishes(e) : act'[r].pc = act[r].pc
      PROVE  Good(e)'
  BY <1>0, <1>1
<1>2. ASSUME NEW a \in Actors, \A b \in Actors : b # a => act'[b] = act[b],
             ~(act[a].pc \in {"publishing", "linking"} /\ act[a].entry = e),
             ~(act'[a].pc \in {"publishing", "linking"} /\ act'[a].entry = e)
      PROVE  /\ Publishes(e)' = Publishes(e)
             /\ \A r \in Publishes(e) : act'[r].pc = act[r].pc
  BY <1>2 DEF Publishes, Actors
<1>3. ASSUME Next PROVE \A q, r \in Publishes(e)' : q = r
  <2>1. ~(Cardinality(Publishes(e)') > 1)
    BY <1>3 DEF Next, Observe
  <2>2. Publishes(e)' \subseteq Begun'
    BY DEF Publishes, Begun, Actors
  <2>3. IsFiniteSet(Publishes(e)')
    BY <2>2, FS_Subset DEF TypeInv
  <2> QED
    BY <2>1, <2>3, AtMostOne
<1>4. ASSUME Next, NEW r \in Requests, Handle(r) PROVE Good(e)'
  <2>0. r \in Actors /\ act[r] \in ActType /\ Fits(act[r])
        /\ \A b \in Actors : b # r => act'[b] = act[b]
    BY <1>4, Handled DEF Actors, TypeInv
  <2>1. CASE ReadEntry(r) /\ act'[r].pc = "publishing" /\ act'[r].entry = e
    <3>1. field[e]["issue"] = "none" /\ act[r].pc = "new"
      <4>1. PICK d \in stored, pc \in {"patching", "merging", "commenting",
                                       "publishing"} :
               /\ pc = "publishing" => field[d].type = "bug" /\ field[d].issue = "none"
               /\ act' = [act EXCEPT ![r].pc = pc, ![r].entry = d,
                             ![r].seen = IF pc = "patching" THEN field[d] ELSE @]
        BY <2>1 DEF ReadEntry
      <4>2. act'[r].pc = pc /\ act'[r].entry = d
        BY <2>0, <4>1 DEF ActType, TypeInv
      <4> QED
        BY <2>1, <4>1, <4>2 DEF ReadEntry
    <3>2. r \in Publishes(e)' /\ r \notin Publishes(e)
      BY <2>1, <3>1 DEF Publishes
    <3>3. Publishes(e)' = Publishes(e) \cup {r}
      BY <2>0, <3>2 DEF Publishes, Actors
    <3>4. Publishes(e) = {}
      BY <1>3, <1>4, <3>2, <3>3
    <3>5. field' = field /\ issues' = issues
      BY <2>1 DEF ReadEntry, entry
    <3> QED
      BY <1>0, <2>1, <3>1, <3>3, <3>4, <3>5
  <2>2. CASE CreateIssue(r) /\ act[r].entry = e
    <3>1. /\ act[r].pc = "publishing" /\ act'[r].pc = "linking"
          /\ act'[r].entry = e
      BY <2>2, Handled DEF CreateIssue
    <3>2. r \in Publishes(e) /\ r \in Publishes(e)'
      BY <2>2, <3>1 DEF Publishes
    <3>3. issues'[e] = issues[e] + 1 /\ field' = field
      BY <2>2 DEF CreateIssue, TypeInv, entry
    <3>4. issues[e] = 0 /\ field[e]["issue"] = "none"
      BY <1>0, <3>1, <3>2
    <3> QED
      BY <1>3, <1>4, <3>1, <3>2, <3>3, <3>4
  <2>3. CASE SetEntryGitHubIssue(r) /\ act[r].entry = e
    <3>1. act[r].pc = "linking" /\ act'[r].pc \in {"row", "last row"}
      BY <2>3, Handled DEF SetEntryGitHubIssue
    <3>2. r \in Publishes(e) /\ issues[e] = 1
      BY <1>0, <2>3, <3>1 DEF Publishes
    <3>3. Publishes(e)' = {}
      <4>1. \A q \in Publishes(e) : q = r
        BY <1>0, <3>2
      <4>2. SUFFICES ASSUME NEW q \in Publishes(e)' PROVE FALSE
        OBVIOUS
      <4>3. /\ q \in Requests /\ act'[q].entry = e
            /\ act'[q].pc \in {"publishing", "linking"}
        BY <4>2 DEF Publishes
      <4>4. q # r
        BY <3>1, <4>3
      <4>5. act'[q] = act[q]
        BY <2>0, <4>3, <4>4 DEF Actors
      <4>6. q \in Publishes(e)
        BY <4>3, <4>5 DEF Publishes
      <4> QED
        BY <4>1, <4>4, <4>6
    <3>4. field'[e]["issue"] = "linked" /\ issues' = issues
      <4>1. PICK f, v, then :
               f \in Fields /\ Put(r, f, v, then) /\ f = "issue" /\ v = "linked"
        BY <2>3, FieldsAre DEF SetEntryGitHubIssue
      <4>2. field'[e][f] = v
        BY <2>3, <4>1, PutField
      <4> QED
        BY <4>1, <4>2 DEF Put
    <3> QED
      BY <3>2, <3>3, <3>4
  <2>4. CASE /\ ~(ReadEntry(r) /\ act'[r].pc = "publishing" /\ act'[r].entry = e)
             /\ ~(CreateIssue(r) /\ act[r].entry = e)
             /\ ~(SetEntryGitHubIssue(r) /\ act[r].entry = e)
    <3>1. issues'[e] = issues[e]
      BY <1>4, <2>4
         DEF Handle, ReadEntry, Patch, ResolveRelease, PatchRelease, CancelSource,
             CreateIssue, SetEntryGitHubIssue, RecordAdminActivity, InsertComment,
             IncrementEntryCommentCount, InsertEntry, InsertCreatedRow, Done,
             LookUpName, InsertRelease, LookUpNewName, UpdateReleaseFields,
             FindRelease, RemoveReleaseIDFromAllEntries, DeleteRelease, Put,
             TypeInv
    <3>2. field'[e]["issue"] = field[e]["issue"]
      <4>1. CASE SetEntryGitHubIssue(r)
        <5>1. act[r].entry \in Entries
          BY <2>0, <4>1 DEF SetEntryGitHubIssue, Fits, AboutEntry
        <5> QED
          <6>1. PICK f, v, then :
                   f \in Fields /\ Put(r, f, v, then) /\ f = "issue"
            BY <4>1, FieldsAre DEF SetEntryGitHubIssue
          <6>2. field'[e][f] = field[e][f]
            BY <2>4, <4>1, <5>1, <6>1, PutField
          <6> QED
            BY <6>1, <6>2
      <4> QED
        BY <1>4, <4>1, IssueKept
    <3>3. ~(act[r].pc \in {"publishing", "linking"} /\ act[r].entry = e)
      BY <1>4, <2>4
         DEF Handle, ReadEntry, Patch, ResolveRelease, PatchRelease, CancelSource,
             CreateIssue, SetEntryGitHubIssue, RecordAdminActivity, InsertComment,
             IncrementEntryCommentCount, InsertEntry, InsertCreatedRow, Done,
             LookUpName, InsertRelease, LookUpNewName, UpdateReleaseFields,
             FindRelease, RemoveReleaseIDFromAllEntries, DeleteRelease
    <3>4. ~(act'[r].pc \in {"publishing", "linking"} /\ act'[r].entry = e)
      BY <1>4, <2>4, Handled DEF Handle
    <3> QED
      BY <1>1, <1>2, <2>0, <3>1, <3>2, <3>3, <3>4
  <2> QED
    BY <2>1, <2>2, <2>3, <2>4
<1>5. ASSUME NEW b \in Boots, Boot(b) PROVE Good(e)'
  <2>1. UNCHANGED <<field, issues>> /\ b \in Actors
    BY <1>5 DEF Boot, ListEntries, FindMissingRows, InsertCreatedRow, Done, entry,
                Actors
  <2> QED
    BY <1>1, <1>2, <1>5, <2>1, Booted
<1>6. ASSUME NEW a \in Actors, Stop(a),
             Observe(IF act[a].pc = "sweeping" THEN {} ELSE {a})
      PROVE  Good(e)'
  <2>1. field' = field /\ issues' = issues /\ act'[a].pc = "over"
        /\ \A b \in Actors : b # a => act'[b] = act[b]
    <3>1. Ended("over").pc = "over"
      BY DEF Ended
    <3>2. field' = field /\ issues' = issues
      BY <1>6 DEF Stop, entry
    <3> QED
      BY <1>6, <3>1, <3>2, Stopped
  <2>2. CASE act[a].pc = "publishing" /\ act[a].entry = e /\ a \in Requests
    <3>1. a \in Publishes(e)
      BY <2>2 DEF Publishes
    <3>2. Publishes(e)' = {}
      BY <1>0, <2>1, <3>1 DEF Publishes, Actors
    <3> QED
      BY <1>0, <2>1, <2>2, <3>1, <3>2
  <2>3. CASE ~(act[a].pc = "publishing" /\ act[a].entry = e /\ a \in Requests)
    <3>1. ~(act[a].pc = "linking" /\ act[a].entry = e)
      BY <1>6 DEF Observe
    <3>2. /\ Publishes(e)' = Publishes(e)
          /\ \A r \in Publishes(e) : act'[r].pc = act[r].pc
      BY <2>1, <2>3, <3>1 DEF Publishes, Actors
    <3> QED
      BY <1>1, <2>1, <3>2
  <2> QED
    BY <2>2, <2>3
<1>7. ASSUME NEW r \in Requests, SkipSweep(r) PROVE Good(e)'
  BY <1>1, <1>2, <1>7, Skipped DEF SkipSweep, entry, Actors
<1>8. CASE UNCHANGED vars
  BY <1>1, <1>8 DEF vars, entry, Publishes
<1> QED
  BY <1>4, <1>5, <1>6, <1>7, <1>8 DEF Next, Actors

\* CreateIssue is called once for an entry and what it made is linked, whatever
\* requests publish, patch, merge or die: but for two that publish the entry at
\* once, and an answer of GitHub that is never stored.
THEOREM PublishingOnce == Spec => []PublishedOnce
<1>1. PublishInv => PublishedOnce
  BY DEF PublishInv, PublishedOnce
<1> QED
  BY InitTyped, NextTyped, InitPublished, NextPublished, <1>1, PTL DEF Spec

-----------------------------------------------------------------------------
(* Entry-created rows.                                                     *)

\* An entry has rows only if it was submitted, and only such entries are listed
\* or recorded; away from an entry that two would record, who is to record it is
\* alone and there is no row yet; and what a boot has listed and has not to do has
\* one.
CreatedInv ==
    /\ \A e \in Entries \ stored : created[e] = 0
    /\ \A a \in Actors : act[a].todo \subseteq stored
    /\ \A b \in Boots : act[b].listed \subseteq stored
    /\ \A e \in Entries \ doubled :
          /\ \A a, b \in Records(e) : a = b
          /\ Records(e) # {} => created[e] = 0
          /\ created[e] <= 1
    /\ \A b \in Boots : act[b].pc \in {"created", "over"} =>
                           \A e \in act[b].listed \ act[b].todo : created[e] >= 1

LEMMA InitCreated == Init => CreatedInv
<1> SUFFICES ASSUME Init PROVE CreatedInv
  OBVIOUS
<1>1. \A a \in Actors : act[a] = Ended("new")
  BY DEF Init, Actors
<1>2. /\ Ended("new").pc = "new" /\ Ended("new").todo = {}
      /\ Ended("new").listed = {}
  BY DEF Ended
<1>3. \A e : Records(e) = {}
  BY <1>1, <1>2 DEF Records, Actors
<1>4. \A e \in Entries : created[e] \in 0..1 /\ (e \notin stored => created[e] = 0)
  BY DEF Init
<1> QED
  BY <1>1, <1>2, <1>3, <1>4 DEF CreatedInv, Actors

\* Two that are to record an entry meet when the second gets to it.
LEMMA RecordsMeet ==
    ASSUME TypeInv', Next, NEW e \in Entries, e \notin doubled'
    PROVE  e \notin doubled /\ \A a, b \in Records(e)' : a = b
<1>1. e \notin doubled /\ ~(Cardinality(Records(e)') > 1)
  BY DEF Next, Observe
<1>2. Records(e)' \subseteq Begun'
  BY DEF Records, Begun, Actors, TypeInv, Fits
<1>3. IsFiniteSet(Records(e)')
  BY <1>2, FS_Subset DEF TypeInv
<1> QED
  BY <1>1, <1>3, AtMostOne

\* A step that adds no row and gives nobody an entry to record.
LEMMA NoRow ==
    ASSUME TypeInv, TypeInv', CreatedInv, Next, NEW a \in Actors,
           \A b \in Actors : b # a => act'[b] = act[b],
           created' = created, stored \subseteq stored',
           act'[a].todo \subseteq act[a].todo,
           a \in Boots => /\ act'[a].listed \subseteq stored
                          /\ act'[a].pc \in {"created", "over"} =>
                                \A e \in act'[a].listed \ act'[a].todo :
                                    created[e] >= 1
    PROVE  CreatedInv'
<1>1. \A b \in Actors : act'[b].todo \subseteq act[b].todo
  OBVIOUS
<1>2. \A e : Records(e)' \subseteq Records(e)
  BY <1>1 DEF Records, Actors
<1>3. \A e \in Entries \ doubled' :
          /\ \A b, c \in Records(e)' : b = c
          /\ Records(e)' # {} => created'[e] = 0
          /\ created'[e] <= 1
  BY <1>2, RecordsMeet DEF CreatedInv
<1>4. \A e \in Entries \ stored' : created'[e] = 0
  BY DEF CreatedInv
<1>5. \A b \in Actors : act'[b].todo \subseteq stored'
  BY <1>1 DEF CreatedInv
<1>6. /\ \A b \in Boots : act'[b].listed \subseteq stored'
      /\ \A b \in Boots : act'[b].pc \in {"created", "over"} =>
                           \A e \in act'[b].listed \ act'[b].todo : created'[e] >= 1
  BY DEF CreatedInv, Actors
<1> QED
  BY <1>3, <1>4, <1>5, <1>6 DEF CreatedInv

LEMMA RowInserted ==
    ASSUME TypeInv, TypeInv', CreatedInv, Next, NEW a \in Actors,
           InsertCreatedRow(a), \A b \in Actors : b # a => act'[b] = act[b]
    PROVE  CreatedInv'
<1>0. /\ act[a] \in ActType /\ act[a].pc = "created" /\ stored' = stored
      /\ created \in [Entries -> Nat]
  BY DEF TypeInv, InsertCreatedRow, entry
<1>1. PICK d \in act[a].todo :
         /\ created' = [created EXCEPT ![d] = @ + 1]
         /\ act' = [act EXCEPT ![a].todo = @ \ {d}]
  BY DEF InsertCreatedRow
<1>2. /\ act'[a].todo = act[a].todo \ {d} /\ act'[a].pc = "created"
      /\ act'[a].listed = act[a].listed
  BY <1>0, <1>1 DEF ActType, TypeInv
<1>3. d \in Entries /\ d \in stored
  BY <1>0 DEF ActType, CreatedInv
<1>4. \A e \in Entries : created'[e] = IF e = d THEN created[e] + 1 ELSE created[e]
  BY <1>0, <1>1
<1>5. \A e \in Entries : Records(e)' = IF e = d THEN Records(e) \ {a} ELSE Records(e)
  BY <1>2 DEF Records, Actors
<1>6. \A e \in Entries \ doubled' :
          /\ \A b, c \in Records(e)' : b = c
          /\ Records(e)' # {} => created'[e] = 0
          /\ created'[e] <= 1
  <2> TAKE e \in Entries \ doubled'
  <2>1. e \notin doubled /\ \A b, c \in Records(e)' : b = c
    BY RecordsMeet
  <2>2. /\ \A b, c \in Records(e) : b = c
        /\ Records(e) # {} => created[e] = 0
        /\ created[e] <= 1
    BY <2>1 DEF CreatedInv
  <2>3. CASE e = d
    <3>1. a \in Records(e)
      BY <2>3 DEF Records, Actors
    <3>2. created[e] = 0 /\ Records(e)' = {}
      BY <1>5, <2>2, <2>3, <3>1
    <3> QED
      BY <1>4, <2>1, <2>3, <3>2
  <2>4. CASE e # d
    BY <1>4, <1>5, <2>1, <2>2, <2>4
  <2> QED
    BY <2>3, <2>4
<1>7. \A e \in Entries \ stored' : created'[e] = 0
  BY <1>0, <1>3, <1>4 DEF CreatedInv
<1>8. \A b \in Actors : act'[b].todo \subseteq stored'
  BY <1>0, <1>2 DEF CreatedInv
<1>9. \A b \in Boots : act'[b].listed \subseteq stored'
  BY <1>0, <1>2 DEF CreatedInv, Actors
<1>10. \A b \in Boots : act'[b].pc \in {"created", "over"} =>
          \A e \in act'[b].listed \ act'[b].todo : created'[e] >= 1
  <2> SUFFICES ASSUME NEW b \in Boots, act'[b].pc \in {"created", "over"},
                      NEW e \in act'[b].listed \ act'[b].todo
               PROVE  created'[e] >= 1
    OBVIOUS
  <2>1. b \in Actors /\ act[b].pc \in {"created", "over"}
        /\ act'[b].listed = act[b].listed
    BY <1>0, <1>2 DEF Actors
  <2>2. e \in Entries /\ created[e] \in Nat
    BY <1>0, <2>1 DEF TypeInv, ActType
  <2>3. CASE e \in act[b].todo
    <3>1. e = d
      BY <1>2, <2>1, <2>3
    <3> QED
      BY <1>4, <2>2, <3>1
  <2>4. CASE e \notin act[b].todo
    <3>1. created[e] >= 1
      BY <2>1, <2>4 DEF CreatedInv
    <3> QED
      BY <1>4, <2>2, <3>1
  <2> QED
    BY <2>3, <2>4
<1> QED
  BY <1>6, <1>7, <1>8, <1>9, <1>10 DEF CreatedInv

\* Submission gives its request the entry to record, a boot those without a row.
LEMMA RecordAssigned ==
    ASSUME TypeInv, TypeInv', CreatedInv, Next, NEW a \in Actors,
           \A b \in Actors : b # a => act'[b] = act[b],
           created' = created, stored \subseteq stored',
           act[a].todo = {}, act'[a].todo \subseteq stored',
           \A e \in act'[a].todo : created[e] = 0,
           a \in Boots => /\ act'[a].listed \subseteq stored
                          /\ \A e \in act'[a].listed \ act'[a].todo : created[e] >= 1
    PROVE  CreatedInv'
<1>1. \A e \in Entries \ doubled' :
          /\ \A b, c \in Records(e)' : b = c
          /\ Records(e)' # {} => created'[e] = 0
          /\ created'[e] <= 1
  <2> TAKE e \in Entries \ doubled'
  <2>1. e \notin doubled /\ \A b, c \in Records(e)' : b = c
    BY RecordsMeet
  <2>2. /\ Records(e) # {} => created[e] = 0
        /\ created[e] <= 1
    BY <2>1 DEF CreatedInv
  <2>3. Records(e)' \subseteq Records(e) \cup {a}
        /\ (a \in Records(e)' => e \in act'[a].todo)
    BY DEF Records, Actors
  <2> QED
    BY <2>1, <2>2, <2>3
<1>2. \A e \in Entries \ stored' : created'[e] = 0
  BY DEF CreatedInv
<1>3. \A b \in Actors : act'[b].todo \subseteq stored'
  BY DEF CreatedInv
<1>4. /\ \A b \in Boots : act'[b].listed \subseteq stored'
      /\ \A b \in Boots : act'[b].pc \in {"created", "over"} =>
                           \A e \in act'[b].listed \ act'[b].todo : created'[e] >= 1
  BY DEF CreatedInv, Actors
<1> QED
  BY <1>1, <1>2, <1>3, <1>4 DEF CreatedInv

LEMMA NextCreated ==
    ASSUME TypeInv, TypeInv', CreatedInv, [Next]_vars
    PROVE  CreatedInv'
<1>0. \A a \in Actors : act'[a].pc # "created" => act'[a].todo = {}
  BY DEF TypeInv, Fits
<1>1. ASSUME Next, NEW r \in Requests, Handle(r) PROVE CreatedInv'
  <2>0. /\ r \in Actors /\ r \notin Boots /\ act[r] \in ActType
        /\ \A b \in Actors : b # r => act'[b] = act[b]
    BY <1>1, Handled, ConstantsAssumption DEF Actors, TypeInv, ConstantsAssumption
  <2>1. CASE InsertEntry(r)
    <3>1. PICK d \in Entries \ stored :
             /\ stored' = stored \cup {d}
             /\ act' = [act EXCEPT ![r].pc = "created", ![r].todo = {d}]
      BY <2>1 DEF InsertEntry
    <3>2. act'[r].todo = {d} /\ act[r].pc = "new" /\ created' = created
      BY <2>0, <2>1, <3>1 DEF ActType, TypeInv, InsertEntry
    <3>3. act[r].todo = {}
      BY <2>0, <3>2 DEF TypeInv, Fits
    <3>4. created[d] = 0
      BY <3>1 DEF CreatedInv
    <3> QED
      BY <1>1, <2>0, <3>1, <3>2, <3>3, <3>4, RecordAssigned
  <2>2. CASE InsertCreatedRow(r)
    BY <1>1, <2>0, <2>2, RowInserted
  <2>3. CASE ~InsertEntry(r) /\ ~InsertCreatedRow(r)
    <3>1. act'[r].todo = {}
      BY <1>0, <1>1, <2>0, <2>3, Handled DEF Handle
    <3>2. UNCHANGED <<created, stored>>
      BY <1>1, <2>3
         DEF Handle, ReadEntry, Patch, ResolveRelease, PatchRelease, CancelSource,
             CreateIssue, SetEntryGitHubIssue, RecordAdminActivity, InsertComment,
             IncrementEntryCommentCount, Done, LookUpName, InsertRelease,
             LookUpNewName, UpdateReleaseFields, FindRelease,
             RemoveReleaseIDFromAllEntries, DeleteRelease, Put, entry, rows
    <3> QED
      BY <1>1, <2>0, <3>1, <3>2, NoRow
  <2> QED
    BY <2>1, <2>2, <2>3
<1>2. ASSUME Next, NEW b \in Boots, Boot(b) PROVE CreatedInv'
  <2>0. /\ b \in Actors /\ act[b] \in ActType /\ Fits(act[b])
        /\ \A a \in Actors : a # b => act'[a] = act[a]
    BY <1>2, Booted DEF Actors, TypeInv
  <2>1. CASE ListEntries(b)
    <3>1. /\ act'[b].pc = "listed" /\ act'[b].listed = stored
          /\ UNCHANGED <<created, stored>>
      BY <2>0, <2>1 DEF ListEntries, ActType, TypeInv, entry, rows
    <3> QED
      BY <1>0, <1>2, <2>0, <3>1, NoRow
  <2>2. CASE FindMissingRows(b)
    <3>1. /\ act'[b].pc = "created" /\ act'[b].listed = act[b].listed
          /\ act'[b].todo = {e \in act[b].listed : created[e] = 0}
          /\ act[b].todo = {} /\ UNCHANGED <<created, stored>>
      <4>1. act[b].pc = "listed" /\ UNCHANGED <<created, stored>>
        BY <2>2 DEF FindMissingRows, entry, rows
      <4>2. /\ act'[b].pc = "created" /\ act'[b].listed = act[b].listed
            /\ act'[b].todo = {e \in act[b].listed : created[e] = 0}
        BY <2>0, <2>2 DEF FindMissingRows, ActType, TypeInv
      <4> QED
        BY <2>0, <4>1, <4>2 DEF Fits
    <3>2. act[b].listed \subseteq stored
      BY DEF CreatedInv
    <3>3. \A e \in act[b].listed \ act'[b].todo : created[e] >= 1
      BY <2>0, <3>1 DEF ActType, TypeInv
    <3>4. act'[b].todo \subseteq stored /\ \A e \in act'[b].todo : created[e] = 0
      BY <3>1, <3>2
    <3>5. act'[b].listed \subseteq stored
          /\ \A e \in act'[b].listed \ act'[b].todo : created[e] >= 1
      BY <3>1, <3>2, <3>3
    <3> QED
      BY <1>2, <2>0, <3>1, <3>4, <3>5, RecordAssigned
  <2>3. CASE InsertCreatedRow(b)
    BY <1>2, <2>0, <2>3, RowInserted
  <2>4. CASE Done(b)
    <3>1. /\ act'[b].pc = "over" /\ act'[b].listed = act[b].listed
          /\ act[b].pc = "created" /\ act[b].todo = {} /\ act'[b].todo = {}
          /\ UNCHANGED <<created, stored>>
      BY <2>0, <2>4 DEF Done, ActType, TypeInv, entry, rows
    <3>2. act[b].listed \subseteq stored
          /\ \A e \in act[b].listed \ act[b].todo : created[e] >= 1
      BY <3>1 DEF CreatedInv
    <3> QED
      BY <1>2, <2>0, <3>1, <3>2, NoRow
  <2> QED
    BY <1>2, <2>1, <2>2, <2>3, <2>4 DEF Boot
<1>3. ASSUME Next, NEW a \in Actors, Stop(a) PROVE CreatedInv'
  <2>1. act'[a].todo = {} /\ act'[a].listed = {}
        /\ \A b \in Actors : b # a => act'[b] = act[b]
    BY <1>3, Stopped DEF Ended
  <2>2. UNCHANGED <<created, stored>>
    BY <1>3 DEF Stop, entry, rows
  <2> QED
    BY <1>3, <2>1, <2>2, NoRow
<1>4. ASSUME Next, NEW r \in Requests, SkipSweep(r) PROVE CreatedInv'
  <2>1. r \in Actors /\ r \notin Boots
    BY ConstantsAssumption DEF Actors, ConstantsAssumption
  <2>2. act'[r].todo = {} /\ \A b \in Actors : b # r => act'[b] = act[b]
    BY <1>0, <1>4, <2>1, Skipped
  <2>3. UNCHANGED <<created, stored>>
    BY <1>4 DEF SkipSweep, entry, rows
  <2> QED
    BY <1>4, <2>1, <2>2, <2>3, NoRow
<1>5. CASE UNCHANGED vars
  BY <1>5 DEF vars, entry, rows, ghosts, CreatedInv, Records
<1> QED
  BY <1>1, <1>2, <1>3, <1>4, <1>5 DEF Next, Actors

\* An entry has one entry-created row at most, but for one that a boot looks at in
\* the middle of its submission or that two boots look at at once; and a boot that
\* has run to its end leaves none of the entries it listed without.
THEOREM CreationRecordedOnce == Spec => []CreatedOnce
<1>1. TypeInv /\ CreatedInv => CreatedOnce
  <2> SUFFICES ASSUME TypeInv, CreatedInv PROVE CreatedOnce
    OBVIOUS
  <2>1. \A b \in Boots : act[b].pc = "over" => act[b].todo = {}
    BY DEF TypeInv, Fits, Actors
  <2> QED
    BY <2>1 DEF CreatedInv, CreatedOnce
<1> QED
  BY InitTyped, NextTyped, InitCreated, NextCreated, <1>1, PTL DEF Spec

-----------------------------------------------------------------------------
(* Names and ids of releases.                                              *)

\* Away from a name that two hold: one release has it at most, and who is about to
\* write it found it free, or writes it to the release that has it.
NamesInv ==
    \A n \in Names \ crossed :
        /\ \A q, r \in Holds(n) : q = r
        /\ \A x, y \in Releases : name[x] = n /\ name[y] = n => x = y
        /\ \A r \in Holds(n), x \in Releases :
              name[x] = n => act[r].pc = "renaming" /\ x = act[r].release

\* An actor that holds a name is about to write it.
LEMMA HoldersWrite ==
    ASSUME TypeInv, NEW n \in Names, NEW r \in Holds(n)
    PROVE  act[r].pc \in {"inserting", "renaming"}
BY ConstantsAssumption DEF TypeInv, Fits, Holds, Actors, ConstantsAssumption

LEMMA HoldersMeet ==
    ASSUME TypeInv', Next, NEW n \in Names, n \notin crossed'
    PROVE  n \notin crossed /\ \A q, r \in Holds(n)' : q = r
<1>1. n \notin crossed /\ ~(Cardinality(Holds(n)') > 1)
  BY DEF Next, Observe
<1>2. Holds(n)' \subseteq Begun'
  BY ConstantsAssumption
     DEF Holds, Begun, Actors, TypeInv, Fits, ConstantsAssumption
<1>3. IsFiniteSet(Holds(n)')
  BY <1>2, FS_Subset DEF TypeInv
<1> QED
  BY <1>1, <1>3, AtMostOne

\* Of a name that one release has at most, a look-up finds the one there is.
LEMMA LookUpFinds ==
    ASSUME NEW n \in Names, ~Taken(n),
           \A x, y \in Releases : name[x] = n /\ name[y] = n => x = y
    PROVE  \A x \in Releases : name[x] # n
<1> SUFFICES ASSUME NEW x \in Releases, name[x] = n PROVE FALSE
  OBVIOUS
<1>1. {y \in Releases : name[y] = n} = {x}
  OBVIOUS
<1>2. Cardinality({x}) = 1
  BY FS_Singleton
<1> QED
  BY <1>1, <1>2 DEF Taken

LEMMA InitNames == Init => NamesInv
<1> SUFFICES ASSUME Init PROVE NamesInv
  OBVIOUS
<1>1. \A n \in Names : Holds(n) = {}
  BY ConstantsAssumption DEF Init, Holds, Ended, ConstantsAssumption
<1>2. \A x, y \in Releases : x # y => name[x] # name[y] \/ name[x] = NoName
  BY DEF Init
<1> QED
  BY <1>1, <1>2, ConstantsAssumption DEF NamesInv, ConstantsAssumption

\* A step that gives no release a name, and after which its actor holds none.
LEMMA NameLeft ==
    ASSUME TypeInv, TypeInv', NamesInv, Next, NEW a \in Actors,
           \A b \in Actors : b # a => act'[b] = act[b],
           act'[a].pc \notin {"inserting", "renaming"},
           \A x \in Releases : name'[x] \in {name[x], NoName}
    PROVE  NamesInv'
<1> SUFFICES ASSUME NEW n \in Names, n \notin crossed'
             PROVE  /\ \A q, r \in Holds(n)' : q = r
                    /\ \A x, y \in Releases : name'[x] = n /\ name'[y] = n => x = y
                    /\ \A r \in Holds(n)', x \in Releases :
                          name'[x] = n => act'[r].pc = "renaming"
                                          /\ x = act'[r].release
  BY DEF NamesInv
<1>1. n \notin crossed /\ \A q, r \in Holds(n)' : q = r
  BY HoldersMeet
<1>2. a \notin Holds(n)'
  <2>1. act'[a].name = NoName
    BY DEF TypeInv, Fits
  <2> QED
    BY <2>1, ConstantsAssumption DEF Holds, ConstantsAssumption
<1>3. \A r \in Holds(n)' : r \in Holds(n) /\ act'[r] = act[r]
  BY <1>2 DEF Holds, Actors
<1>4. \A x \in Releases : name'[x] = n => name[x] = n
  BY ConstantsAssumption DEF ConstantsAssumption
<1> QED
  BY <1>1, <1>3, <1>4 DEF NamesInv

\* A look-up that found the name free, or the release that has it.
LEMMA NameLookedUp ==
    ASSUME TypeInv, TypeInv', NamesInv, Next, NEW r \in Requests,
           \A b \in Actors : b # r => act'[b] = act[b],
           name' = name, act'[r].name \in Names,
           \A x \in Releases :
              act'[r].name \notin crossed' /\ name[x] = act'[r].name
              => act'[r].pc = "renaming" /\ x = act'[r].release
    PROVE  NamesInv'
<1> SUFFICES ASSUME NEW n \in Names, n \notin crossed'
             PROVE  /\ \A q, s \in Holds(n)' : q = s
                    /\ \A x, y \in Releases : name'[x] = n /\ name'[y] = n => x = y
                    /\ \A q \in Holds(n)', x \in Releases :
                          name'[x] = n => act'[q].pc = "renaming"
                                          /\ x = act'[q].release
  BY DEF NamesInv
<1>1. n \notin crossed /\ \A q, s \in Holds(n)' : q = s
  BY HoldersMeet
<1>2. \A q \in Holds(n)' : q # r => q \in Holds(n) /\ act'[q] = act[q]
  BY DEF Holds, Actors
<1>3. r \in Holds(n)' => act'[r].name = n
  BY DEF Holds
<1> QED
  BY <1>1, <1>2, <1>3 DEF NamesInv

\* A write of the name that its actor held, to the only release that may have it.
LEMMA NameWritten ==
    ASSUME TypeInv, TypeInv', NamesInv, Next, NEW r \in Requests, NEW y \in Releases,
           \A b \in Actors : b # r => act'[b] = act[b],
           act[r].name \in Names, act'[r].pc = "over",
           \A x \in Releases : x # y => name'[x] = name[x],
           name'[y] \in {name[y], act[r].name},
           act[r].pc = "renaming" => y = act[r].release
    PROVE  NamesInv'
<1> SUFFICES ASSUME NEW n \in Names, n \notin crossed'
             PROVE  /\ \A q, s \in Holds(n)' : q = s
                    /\ \A x, z \in Releases : name'[x] = n /\ name'[z] = n => x = z
                    /\ \A q \in Holds(n)', x \in Releases :
                          name'[x] = n => act'[q].pc = "renaming"
                                          /\ x = act'[q].release
  BY DEF NamesInv
<1>1. n \notin crossed /\ \A q, s \in Holds(n)' : q = s
  BY HoldersMeet
<1>2. r \notin Holds(n)'
  <2>1. act'[r].name = NoName
    BY DEF TypeInv, Fits, Actors
  <2> QED
    BY <2>1, ConstantsAssumption DEF Holds, ConstantsAssumption
<1>3. \A q \in Holds(n)' : q \in Holds(n) /\ act'[q] = act[q]
  BY <1>2 DEF Holds, Actors
<1>4. CASE n # act[r].name
  <2>1. \A x \in Releases : name'[x] = n => name[x] = n
    BY <1>4
  <2> QED
    BY <1>1, <1>3, <2>1 DEF NamesInv
<1>5. CASE n = act[r].name
  <2>1. r \in Holds(n)
    BY <1>5 DEF Holds
  <2>2. Holds(n)' = {}
    BY <1>1, <1>2, <1>3, <2>1 DEF NamesInv
  <2>3. \A x \in Releases : name[x] = n => x = y
    BY <1>1, <2>1 DEF NamesInv
  <2>4. \A x \in Releases : name'[x] = n => x = y
    BY <2>3
  <2> QED
    BY <2>2, <2>4
<1> QED
  BY <1>4, <1>5

LEMMA NextNames ==
    ASSUME TypeInv, TypeInv', NamesInv, [Next]_vars
    PROVE  NamesInv'
<1>1. ASSUME Next, NEW r \in Requests, Handle(r) PROVE NamesInv'
  <2>0. /\ r \in Actors /\ act[r] \in ActType /\ Fits(act[r])
        /\ act' \in [Actors -> ActType] /\ Fits(act'[r])
        /\ name \in [Releases -> Names \cup {NoName}]
        /\ \A b \in Actors : b # r => act'[b] = act[b]
    BY <1>1, Handled DEF Actors, TypeInv
  <2>1. CASE LookUpName(r)
    <3>1. PICK n \in Names :
             /\ ~Taken(n)
             /\ act' = [act EXCEPT ![r].pc = "inserting", ![r].name = n]
      BY <2>1 DEF LookUpName
    <3>2. act'[r].name = n /\ name' = name
      BY <2>0, <2>1, <3>1 DEF LookUpName, ActType, TypeInv, releases
    <3>3. n \notin crossed' => \A x \in Releases : name[x] # n
      BY <1>1, <3>1, LookUpFinds, HoldersMeet DEF NamesInv
    <3> QED
      BY <1>1, <2>0, <3>2, <3>3, NameLookedUp
  <2>2. CASE LookUpNewName(r)
    <3>1. PICK y \in Releases, n \in Names :
             /\ name[y] = n \/ ~Taken(n)
             /\ act' = [act EXCEPT ![r].pc = "renaming", ![r].release = y,
                                   ![r].name = n]
      BY <2>2 DEF LookUpNewName
    <3>2. /\ act'[r].name = n /\ act'[r].release = y /\ act'[r].pc = "renaming"
          /\ name' = name
      BY <2>0, <2>2, <3>1 DEF LookUpNewName, ActType, TypeInv, releases
    <3>3. n \notin crossed' => \A x \in Releases : name[x] = n => x = y
      <4>1. n \notin crossed' =>
               \A x, z \in Releases : name[x] = n /\ name[z] = n => x = z
        BY <1>1, HoldersMeet DEF NamesInv
      <4> QED
        BY <3>1, <4>1, LookUpFinds
    <3> QED
      BY <1>1, <2>0, <3>2, <3>3, NameLookedUp
  <2>3. CASE InsertRelease(r)
    <3>1. PICK y \in unused : name' = [name EXCEPT ![y] = act[r].name]
      BY <2>3 DEF InsertRelease
    <3>2. /\ y \in Releases /\ act[r].pc = "inserting" /\ act'[r].pc = "over"
          /\ act[r].name \in Names
      BY <2>0, <2>3, Handled DEF InsertRelease, TypeInv, Fits, ActType
    <3> QED
      BY <1>1, <2>0, <3>1, <3>2, NameWritten
  <2>4. CASE UpdateReleaseFields(r)
    <3>1. /\ act[r].release \in Releases /\ act'[r].pc = "over"
          /\ act[r].pc = "renaming" /\ act[r].name \in Names
      BY <2>0, <2>4, Handled DEF UpdateReleaseFields, Fits, ActType, AboutRelease
    <3>2. PICK y \in Releases : y = act[r].release
      BY <3>1
    <3>3. /\ \A x \in Releases : x # y => name'[x] = name[x]
          /\ name'[y] \in {name[y], act[r].name}
      BY <2>4, <3>2 DEF UpdateReleaseFields
    <3> QED
      BY <1>1, <2>0, <3>1, <3>2, <3>3, NameWritten
  <2>5. CASE ~LookUpName(r) /\ ~LookUpNewName(r) /\ ~InsertRelease(r)
             /\ ~UpdateReleaseFields(r)
    <3>1. act'[r].pc \notin {"inserting", "renaming"}
      BY <1>1, <2>5, Handled DEF Handle
    <3>2. \A x \in Releases : name'[x] \in {name[x], NoName}
      <4>1. CASE DeleteRelease(r)
        BY <2>0, <4>1 DEF DeleteRelease
      <4>2. CASE ~DeleteRelease(r)
        BY <1>1, <2>5, <4>2
           DEF Handle, ReadEntry, Patch, ResolveRelease, PatchRelease,
               CancelSource, CreateIssue, SetEntryGitHubIssue,
               RecordAdminActivity, InsertComment, IncrementEntryCommentCount,
               InsertEntry, InsertCreatedRow, Done, FindRelease,
               RemoveReleaseIDFromAllEntries, Put, releases
      <4> QED
        BY <4>1, <4>2
    <3> QED
      BY <1>1, <2>0, <3>1, <3>2, NameLeft
  <2> QED
    BY <2>1, <2>2, <2>3, <2>4, <2>5
<1>2. ASSUME Next, NEW b \in Boots, Boot(b) PROVE NamesInv'
  <2>1. name' = name /\ b \in Actors
    BY <1>2 DEF Boot, ListEntries, FindMissingRows, InsertCreatedRow, Done,
                releases, Actors
  <2> QED
    BY <1>2, <2>1, Booted, NameLeft
<1>3. ASSUME Next, NEW a \in Actors, Stop(a) PROVE NamesInv'
  <2>1. name' = name /\ act'[a].pc = "over"
        /\ \A b \in Actors : b # a => act'[b] = act[b]
    <3>1. name' = name /\ Ended("over").pc = "over"
      BY <1>3 DEF Stop, releases, Ended
    <3> QED
      BY <1>3, <3>1, Stopped
  <2> QED
    BY <1>3, <2>1, NameLeft
<1>4. ASSUME Next, NEW r \in Requests, SkipSweep(r) PROVE NamesInv'
  <2>1. name' = name /\ r \in Actors
    BY <1>4 DEF SkipSweep, releases, Actors
  <2> QED
    BY <1>4, <2>1, Skipped, NameLeft
<1>5. CASE UNCHANGED vars
  BY <1>5 DEF vars, releases, ghosts, NamesInv, Holds
<1> QED
  BY <1>1, <1>2, <1>3, <1>4, <1>5 DEF Next, Actors

\* A release that an entry has, or is about to get, exists, or is known to dangle;
\* one that was swept and is not deleted yet is nobody's.  An id that no release
\* has had is nowhere, and a handler is about an entry that there is.
Known(x) == x = NoRelease \/ Exists(x) \/ x \in dangling
NeverHad(x) ==
    /\ name[x] = NoName
    /\ \A e \in Entries : field[e]["release"] # x /\ shown[e]["release"] # x
    /\ \A r \in Requests :
          /\ act[r].pc = "resolved" => act[r].release # x
          /\ act[r].pc \in {"row", "last row"} /\ act[r].at = "release"
             => act[r].value # x
RefInv ==
    /\ \A e \in Entries : Known(field[e]["release"])
    /\ \A r \in Requests : act[r].pc = "resolved" => Known(act[r].release)
    /\ \A x \in Releases : Deletes(x) /\ x \notin dangling =>
          ~Assigns(x) /\ \A e \in Entries : field[e]["release"] # x
    /\ \A x \in unused : NeverHad(x)
    /\ \A r \in Requests : act[r].pc \in AboutEntry => act[r].entry \in stored

LEMMA InitRef == Init => RefInv
<1> SUFFICES ASSUME Init PROVE RefInv
  OBVIOUS
<1>0. \A a \in Actors : act[a].pc = "new"
  BY DEF Init, Actors, Ended
<1>1. PICK t \in Types, x \in {y \in Releases : name[y] # NoName} \cup {NoRelease} :
         field = [e \in Entries |-> [NewEntry EXCEPT !.type = t, !.release = x]]
  BY DEF Init
<1>2. \A e \in Entries : field[e]["release"] = x /\ shown[e]["release"] = x
  BY <1>1 DEF Init, NewEntry
<1>3. \A e \in Entries : Known(field[e]["release"])
  BY <1>1, <1>2 DEF Known, Exists
<1>4. \A y \in unused : y \in Releases /\ name[y] = NoName
  BY DEF Init
<1>5. \A y \in unused : y # x
  BY <1>1, <1>4, ConstantsAssumption DEF ConstantsAssumption
<1> QED
  BY <1>0, <1>2, <1>3, <1>4, <1>5
     DEF RefInv, NeverHad, Deletes, Assigns, AboutEntry, Actors

\* What was known about ids stays so, while no release is taken away.
LEMMA KnownKept ==
    ASSUME TypeInv, Next, \A x \in Releases : name[x] # NoName => name'[x] # NoName,
           NEW x, Known(x)
    PROVE  Known(x)'
<1>1. dangling \subseteq dangling'
  BY DEF Next, Observe
<1> QED
  BY <1>1 DEF Known, Exists

\* An id stays unheard of, unless its actor now has it or has written it.
LEMMA NeverHadKept ==
    ASSUME RefInv, NEW a \in Actors, \A b \in Actors : b # a => act'[b] = act[b],
           NEW x \in unused, name'[x] = NoName,
           \A e \in Entries : field'[e]["release"] # x /\ shown'[e]["release"] # x,
           act'[a].pc = "resolved" => act'[a].release # x,
           act'[a].pc \in {"row", "last row"} /\ act'[a].at = "release"
           => act'[a].value # x
    PROVE  NeverHad(x)'
<1>1. NeverHad(x)
  BY DEF RefInv
<1>2. \A r \in Requests : r = a \/ act'[r] = act[r]
  BY DEF Actors
<1>3. \A r \in Requests :
         /\ act'[r].pc = "resolved" => act'[r].release # x
         /\ act'[r].pc \in {"row", "last row"} /\ act'[r].at = "release"
            => act'[r].value # x
  BY <1>1, <1>2 DEF NeverHad
<1> QED
  BY <1>3 DEF NeverHad

\* A step that moves no release to or from an entry.
LEMMA RefsLeft ==
    ASSUME TypeInv, TypeInv', RefInv, Next, NEW a \in Actors,
           \A b \in Actors : b # a => act'[b] = act[b],
           \A x \in Releases : name[x] # NoName => name'[x] # NoName,
           unused' \subseteq unused, \A x \in unused' : name'[x] = name[x],
           \A e \in Entries : field'[e]["release"] = field[e]["release"],
           \A e \in Entries : \/ shown'[e]["release"] = shown[e]["release"]
                              \/ shown'[e]["release"] \notin unused,
           stored \subseteq stored',
           act'[a].pc \notin {"resolved", "deleting"},
           act'[a].pc \in {"row", "last row"} => act'[a].at # "release",
           act'[a].pc \in AboutEntry => act'[a].entry \in stored'
    PROVE  RefInv'
<1>1. \A e \in Entries : Known(field[e]["release"])'
  BY KnownKept DEF RefInv
<1>2. \A r \in Requests : act'[r].pc = "resolved" => Known(act[r].release)'
  <2> TAKE r \in Requests
  <2>1. act'[r].pc = "resolved" => act'[r] = act[r]
    BY DEF Actors
  <2>2. ASSUME act'[r].pc = "resolved" PROVE Known(act[r].release)'
    <3>1. PICK x : x = act[r].release
      OBVIOUS
    <3>2. Known(x)
      BY <2>1, <2>2, <3>1 DEF RefInv
    <3>3. Known(x)'
      BY <3>2, KnownKept
    <3> QED
      BY <2>1, <2>2, <3>1, <3>3
  <2> QED
    BY <2>2
<1>3. \A x \in Releases : Deletes(x)' /\ x \notin dangling' =>
          ~Assigns(x)' /\ \A e \in Entries : field'[e]["release"] # x
  <2> SUFFICES ASSUME NEW x \in Releases, Deletes(x)', x \notin dangling'
               PROVE  ~Assigns(x)' /\ \A e \in Entries : field'[e]["release"] # x
    OBVIOUS
  <2>1. x \notin dangling /\ ~Assigns(x)'
    BY DEF Next, Observe
  <2>2. Deletes(x)
    BY DEF Deletes, Actors
  <2> QED
    BY <2>1, <2>2 DEF RefInv
<1>4. \A x \in unused' : NeverHad(x)'
  <2> TAKE x \in unused'
  <2>1. x \in unused /\ NeverHad(x)
    BY DEF RefInv
  <2>2. /\ name'[x] = NoName
        /\ \A e \in Entries : field'[e]["release"] # x /\ shown'[e]["release"] # x
    BY <2>1 DEF NeverHad
  <2> QED
    BY <2>1, <2>2, NeverHadKept
<1>5. \A r \in Requests : act'[r].pc \in AboutEntry => act'[r].entry \in stored'
  BY DEF RefInv, Actors
<1> QED
  BY <1>1, <1>2, <1>3, <1>4, <1>5 DEF RefInv

LEMMA HandleRef ==
    ASSUME TypeInv, TypeInv', RefInv, Next, NEW r \in Requests, Handle(r)
    PROVE  RefInv'
<1>0. /\ r \in Actors /\ act[r] \in ActType /\ Fits(act[r])
      /\ \A b \in Actors : b # r => act'[b] = act[b]
  BY Handled DEF Actors, TypeInv
<1>1. \A q \in Requests : act[q].pc \in AboutEntry => act[q].entry \in stored
  BY DEF RefInv
<1>2. ASSUME NEW f \in {"internal", "type", "status", "issue"}, NEW v, NEW then,
             Put(r, f, v, then), act[r].pc \in AboutEntry,
             then \in {"row", "last row"}
      PROVE  RefInv'
  <2>1. act[r].entry \in stored /\ act[r].entry \in Entries
    BY <1>1, <1>2 DEF TypeInv
  <2>2. \A e \in Entries : field'[e]["release"] = field[e]["release"]
    <3>1. f \in Fields /\ f # "release"
      BY FieldsAre
    <3>2. PICK g \in Fields : g = "release"
      BY FieldsAre
    <3>3. \A e \in Entries : field'[e][g] = field[e][g]
      <4> TAKE e \in Entries
      <4>1. field'[e][g] = IF e = act[r].entry /\ g = f THEN v ELSE field[e][g]
        <5>1. PICK h \in Fields : h = f
          BY <3>1
        <5>2. Put(r, h, v, then)
          BY <1>2, <5>1
        <5>3. field'[e][g] = IF e = act[r].entry /\ g = h THEN v ELSE field[e][g]
          BY <2>1, <5>2, PutField
        <5> QED
          BY <5>1, <5>3
      <4> QED
        BY <3>1, <3>2, <4>1
    <3> QED
      BY <3>2, <3>3
  <2>3. /\ act'[r].pc = then /\ act'[r].at = f /\ act'[r].entry = act[r].entry
    BY <1>0, <1>2 DEF Put, ActType, TypeInv
  <2>4. UNCHANGED <<name, unused, shown, stored>>
    BY <1>2 DEF Put, releases, rows
  <2> QED
    BY <1>0, <1>2, <2>1, <2>2, <2>3, <2>4, RefsLeft
<1>3. CASE Patch(r)
  BY <1>2, <1>3 DEF Patch, AboutEntry
<1>4. CASE CancelSource(r)
  BY <1>2, <1>4 DEF CancelSource, AboutEntry
<1>5. CASE SetEntryGitHubIssue(r)
  BY <1>2, <1>5 DEF SetEntryGitHubIssue, AboutEntry
<1>6. CASE ResolveRelease(r)
  <2>1. PICK y \in Releases \cup {NoRelease} :
           /\ Exists(y) \/ y = NoRelease
           /\ act' = [act EXCEPT ![r].pc = "resolved", ![r].release = y]
    BY <1>6 DEF ResolveRelease
  <2>2. /\ act'[r].pc = "resolved" /\ act'[r].release = y
        /\ act'[r].entry = act[r].entry
        /\ UNCHANGED <<name, unused, shown, field, stored>>
    BY <1>0, <1>6, <2>1
       DEF ResolveRelease, ActType, TypeInv, releases, rows, entry
  <2>3. act[r].entry \in stored
    BY <1>1, <1>6 DEF ResolveRelease, AboutEntry
  <2>4. \A e \in Entries : Known(field[e]["release"])'
    BY <2>2, KnownKept DEF RefInv
  <2>5. \A q \in Requests : act'[q].pc = "resolved" => Known(act[q].release)'
    <3> TAKE q \in Requests
    <3>1. CASE q = r
      BY <2>1, <2>2, <3>1 DEF Known, Exists
    <3>2. CASE q # r
      <4>1. PICK x : x = act[q].release
        OBVIOUS
      <4>2. act'[q] = act[q] /\ (act[q].pc = "resolved" => Known(x)')
        BY <1>0, <2>2, <3>2, <4>1, KnownKept DEF RefInv, Actors
      <4> QED
        BY <4>1, <4>2
    <3> QED
      BY <3>1, <3>2
  <2>6. \A x \in Releases : Deletes(x)' /\ x \notin dangling' =>
            ~Assigns(x)' /\ \A e \in Entries : field'[e]["release"] # x
    <3> SUFFICES ASSUME NEW x \in Releases, Deletes(x)', x \notin dangling'
                 PROVE  ~Assigns(x)' /\ \A e \in Entries : field'[e]["release"] # x
      OBVIOUS
    <3>1. x \notin dangling /\ ~Assigns(x)'
      BY DEF Next, Observe
    <3>2. Deletes(x)
      BY <1>0, <2>2 DEF Deletes, Actors
    <3> QED
      BY <2>2, <3>1, <3>2 DEF RefInv
  <2>7. \A x \in unused' : NeverHad(x)'
    <3>1. \A x \in unused : x # y
      BY <2>1, ConstantsAssumption
         DEF RefInv, NeverHad, Exists, TypeInv, ConstantsAssumption
    <3> TAKE x \in unused'
    <3>2. x \in unused /\ NeverHad(x)
      BY <2>2 DEF RefInv
    <3>3. /\ name'[x] = NoName
          /\ \A e \in Entries : field'[e]["release"] # x /\ shown'[e]["release"] # x
      BY <2>2, <3>2 DEF NeverHad
    <3> QED
      BY <1>0, <2>2, <3>1, <3>2, <3>3, NeverHadKept
  <2>8. \A q \in Requests : act'[q].pc \in AboutEntry => act'[q].entry \in stored'
    BY <1>0, <1>1, <2>2, <2>3 DEF Actors
  <2> QED
    BY <2>4, <2>5, <2>6, <2>7, <2>8 DEF RefInv
<1>7. CASE PatchRelease(r)
  <2>1. PICK y : y = act[r].release
    OBVIOUS
  <2>2. Put(r, "release", y, "row") /\ act[r].pc = "resolved"
    BY <1>7, <2>1 DEF PatchRelease
  <2>3. /\ act'[r].pc = "row" /\ act'[r].at = "release" /\ act'[r].value = y
        /\ act'[r].entry = act[r].entry
        /\ UNCHANGED <<name, unused, shown, stored>>
    BY <1>0, <2>2 DEF Put, ActType, TypeInv, releases, rows
  <2>4. act[r].entry \in stored /\ act[r].entry \in Entries
    BY <1>1, <2>2 DEF TypeInv, AboutEntry
  <2>5. \A e \in Entries : field'[e]["release"] \in {field[e]["release"], y}
    <3>1. PICK f, v, then : f \in Fields /\ Put(r, f, v, then) /\ f = "release" /\ v = y
      BY <2>2, FieldsAre
    <3>2. \A e \in Entries : field'[e][f] \in {field[e][f], v}
      BY <2>4, <3>1, PutField
    <3> QED
      BY <3>1, <3>2
  <2>6. Known(y) /\ Assigns(y) /\ y \notin unused
    BY <2>1, <2>2 DEF RefInv, Assigns, NeverHad
  <2>7. \A e \in Entries : Known(field[e]["release"])'
    <3> TAKE e \in Entries
    <3>1. PICK x : x = field'[e]["release"]
      OBVIOUS
    <3>2. Known(x)
      BY <2>5, <2>6, <3>1 DEF RefInv
    <3>3. Known(x)'
      BY <2>3, <3>2, KnownKept
    <3> QED
      BY <3>1, <3>3
  <2>8. \A q \in Requests : act'[q].pc = "resolved" => Known(act[q].release)'
    <3> TAKE q \in Requests
    <3>1. CASE q = r
      BY <2>3, <3>1
    <3>2. CASE q # r
      <4>1. PICK x : x = act[q].release
        OBVIOUS
      <4>2. act'[q] = act[q] /\ (act[q].pc = "resolved" => Known(x)')
        BY <1>0, <2>3, <3>2, <4>1, KnownKept DEF RefInv, Actors
      <4> QED
        BY <4>1, <4>2
    <3> QED
      BY <3>1, <3>2
  <2>9. \A x \in Releases : Deletes(x)' /\ x \notin dangling' =>
            ~Assigns(x)' /\ \A e \in Entries : field'[e]["release"] # x
    <3> SUFFICES ASSUME NEW x \in Releases, Deletes(x)', x \notin dangling'
                 PROVE  ~Assigns(x)' /\ \A e \in Entries : field'[e]["release"] # x
      OBVIOUS
    <3>1. x \notin dangling /\ ~Assigns(x)'
      BY DEF Next, Observe
    <3>2. Deletes(x)
      BY <1>0, <2>3 DEF Deletes, Actors
    <3>3. ~Assigns(x) /\ \A e \in Entries : field[e]["release"] # x
      BY <3>1, <3>2 DEF RefInv
    <3> QED
      BY <2>5, <2>6, <3>1, <3>3
  <2>10. \A x \in unused' : NeverHad(x)'
    <3> TAKE x \in unused'
    <3>1. x \in unused /\ NeverHad(x) /\ x # y
      BY <2>3, <2>6 DEF RefInv
    <3>2. /\ name'[x] = NoName
          /\ \A e \in Entries : field'[e]["release"] # x /\ shown'[e]["release"] # x
      BY <2>3, <2>5, <3>1 DEF NeverHad
    <3> QED
      BY <1>0, <2>3, <3>1, <3>2, NeverHadKept
  <2>11. \A q \in Requests : act'[q].pc \in AboutEntry => act'[q].entry \in stored'
    BY <1>0, <1>1, <2>3, <2>4 DEF Actors
  <2> QED
    BY <2>7, <2>8, <2>9, <2>10, <2>11 DEF RefInv
<1>8. CASE RecordAdminActivity(r)
  <2>1. /\ act[r].entry \in Entries /\ act[r].at \in Fields
        /\ act[r].pc \in {"row", "last row"} /\ act[r].entry \in stored
    BY <1>0, <1>1, <1>8 DEF RecordAdminActivity, Fits, AboutEntry
  <2>2. \A e \in Entries : \/ shown'[e]["release"] = shown[e]["release"]
                           \/ shown'[e]["release"] \notin unused
    <3> TAKE e \in Entries
    <3>1. shown' = [shown EXCEPT ![act[r].entry][act[r].at] = act[r].value]
      BY <1>8 DEF RecordAdminActivity
    <3>2. shown'[e] = IF e = act[r].entry
                      THEN [shown[e] EXCEPT ![act[r].at] = act[r].value] ELSE shown[e]
      BY <2>1, <3>1 DEF TypeInv
    <3>3. shown[e] \in FieldsType
      BY DEF TypeInv
    <3>4. shown'[e]["release"] = IF e = act[r].entry /\ act[r].at = "release"
                                 THEN act[r].value ELSE shown[e]["release"]
      <4>1. PICK g \in Fields : g = "release"
        BY FieldsAre
      <4>2. PICK f \in Fields : f = act[r].at
        BY <2>1
      <4>3. PICK v : v = act[r].value
        OBVIOUS
      <4>4. [shown[e] EXCEPT ![f] = v][g] = IF g = f THEN v ELSE shown[e][g]
        BY <3>3, FieldUpdate
      <4> QED
        BY <3>2, <4>1, <4>2, <4>3, <4>4
    <3>5. act[r].at = "release" => act[r].value \notin unused
      BY <2>1 DEF RefInv, NeverHad
    <3> QED
      BY <3>4, <3>5
  <2>3. UNCHANGED <<name, unused, field, stored>>
    BY <1>8 DEF RecordAdminActivity, releases, entry
  <2>4. /\ act'[r].pc \in {"patching", "over"}
        /\ act'[r].pc \in AboutEntry => act'[r].entry = act[r].entry
    <3>1. CASE act[r].pc = "row"
      BY <1>0, <1>8, <3>1 DEF RecordAdminActivity, ActType, TypeInv
    <3>2. CASE act[r].pc = "last row"
      BY <1>0, <1>8, <3>2 DEF RecordAdminActivity, TypeInv, Ended, AboutEntry
    <3> QED
      BY <2>1, <3>1, <3>2
  <2> QED
    BY <1>0, <2>1, <2>2, <2>3, <2>4, RefsLeft
<1>9. CASE InsertEntry(r)
  <2>1. PICK d \in Entries, t \in Types :
           /\ stored' = stored \cup {d}
           /\ field' = [field EXCEPT ![d].type = t]
           /\ shown' = [shown EXCEPT ![d].type = t]
    BY <1>9 DEF InsertEntry
  <2>2. \A e \in Entries : /\ field'[e]["release"] = field[e]["release"]
                           /\ shown'[e]["release"] = shown[e]["release"]
    BY <2>1 DEF TypeInv, FieldsType
  <2>3. act'[r].pc = "created" /\ UNCHANGED <<name, unused>>
    BY <1>9, Handled DEF InsertEntry, releases
  <2> QED
    BY <1>0, <2>1, <2>2, <2>3, RefsLeft DEF AboutEntry
<1>10. CASE InsertRelease(r)
  <2>1. PICK y \in unused : /\ name' = [name EXCEPT ![y] = act[r].name]
                            /\ unused' = unused \ {y}
    BY <1>10 DEF InsertRelease
  <2>2. act[r].name # NoName
    BY <1>0, <1>10 DEF InsertRelease, Fits
  <2>3. /\ \A x \in Releases : name[x] # NoName => name'[x] # NoName
        /\ \A x \in unused' : name'[x] = name[x]
    BY <2>1, <2>2 DEF TypeInv
  <2>4. act'[r].pc = "over" /\ UNCHANGED <<field, shown, stored>>
    BY <1>10, Handled DEF InsertRelease, entry, rows
  <2> QED
    BY <1>0, <2>1, <2>3, <2>4, RefsLeft DEF AboutEntry
<1>11. CASE UpdateReleaseFields(r)
  <2>1. act[r].name # NoName
    BY <1>0, <1>11 DEF UpdateReleaseFields, Fits
  <2>2. /\ \A x \in Releases : name[x] # NoName => name'[x] # NoName
        /\ \A x \in Releases : name[x] = NoName => name'[x] = name[x]
    BY <1>11, <2>1 DEF UpdateReleaseFields, Exists
  <2>3. \A x \in unused : x \in Releases /\ name[x] = NoName
    BY DEF RefInv, NeverHad, TypeInv
  <2>4. act'[r].pc = "over" /\ UNCHANGED <<field, shown, stored, unused>>
    BY <1>11, Handled DEF UpdateReleaseFields, entry, rows
  <2> QED
    BY <1>0, <2>2, <2>3, <2>4, RefsLeft DEF AboutEntry
<1>12. CASE RemoveReleaseIDFromAllEntries(r)
  <2>1. PICK y : y = act[r].release
    OBVIOUS
  <2>2. \A e \in Entries :
           field'[e]["release"] = IF field[e]["release"] = y THEN NoRelease
                                  ELSE field[e]["release"]
    <3> TAKE e \in Entries
    <3>1. field'[e] = [field[e] EXCEPT !.release = IF @ = y THEN NoRelease ELSE @]
      BY <1>12, <2>1 DEF RemoveReleaseIDFromAllEntries
    <3>2. field[e] \in FieldsType
      BY DEF TypeInv
    <3> QED
      BY <3>1, <3>2 DEF FieldsType
  <2>3. /\ act'[r].pc = "deleting" /\ act'[r].release = y
        /\ UNCHANGED <<name, unused, shown, stored>>
    BY <1>0, <1>12, <2>1
       DEF RemoveReleaseIDFromAllEntries, ActType, TypeInv, releases, rows
  <2>4. \A e \in Entries : Known(field[e]["release"])'
    <3> TAKE e \in Entries
    <3>1. PICK x : x = field'[e]["release"]
      OBVIOUS
    <3>2. Known(x)
      BY <2>2, <3>1 DEF RefInv, Known
    <3>3. Known(x)'
      BY <2>3, <3>2, KnownKept
    <3> QED
      BY <3>1, <3>3
  <2>5. \A q \in Requests : act'[q].pc = "resolved" => Known(act[q].release)'
    <3> TAKE q \in Requests
    <3>1. CASE q = r
      BY <2>3, <3>1
    <3>2. CASE q # r
      <4>1. PICK x : x = act[q].release
        OBVIOUS
      <4>2. act'[q] = act[q] /\ (act[q].pc = "resolved" => Known(x)')
        BY <1>0, <2>3, <3>2, <4>1, KnownKept DEF RefInv, Actors
      <4> QED
        BY <4>1, <4>2
    <3> QED
      BY <3>1, <3>2
  <2>6. \A x \in Releases : Deletes(x)' /\ x \notin dangling' =>
            ~Assigns(x)' /\ \A e \in Entries : field'[e]["release"] # x
    <3> SUFFICES ASSUME NEW x \in Releases, Deletes(x)', x \notin dangling'
                 PROVE  ~Assigns(x)' /\ \A e \in Entries : field'[e]["release"] # x
      OBVIOUS
    <3>1. x \notin dangling /\ ~Assigns(x)' /\ x # NoRelease
      BY ConstantsAssumption DEF Next, Observe, ConstantsAssumption
    <3>2. Deletes(x) \/ x = y
      BY <1>0, <2>3 DEF Deletes, Actors
    <3> QED
      BY <2>2, <3>1, <3>2 DEF RefInv
  <2>7. \A x \in unused' : NeverHad(x)'
    <3>1. \A x \in unused : x # NoRelease
      BY ConstantsAssumption DEF TypeInv, ConstantsAssumption
    <3> TAKE x \in unused'
    <3>2. x \in unused /\ NeverHad(x)
      BY <2>3 DEF RefInv
    <3>3. /\ name'[x] = NoName
          /\ \A e \in Entries : field'[e]["release"] # x /\ shown'[e]["release"] # x
      BY <2>2, <2>3, <3>1, <3>2 DEF NeverHad
    <3> QED
      BY <1>0, <2>3, <3>2, <3>3, NeverHadKept
  <2>8. \A q \in Requests : act'[q].pc \in AboutEntry => act'[q].entry \in stored'
    BY <1>0, <1>1, <2>3 DEF Actors, AboutEntry
  <2> QED
    BY <2>4, <2>5, <2>6, <2>7, <2>8 DEF RefInv
<1>13. CASE DeleteRelease(r)
  <2>1. PICK y : y = act[r].release
    OBVIOUS
  <2>2. /\ Deletes(y) /\ y \in Releases
        /\ name' = [name EXCEPT ![y] = NoName]
    BY <1>0, <1>13, <2>1 DEF DeleteRelease, Deletes, Fits, AboutRelease
  <2>3. act'[r].pc = "over" /\ UNCHANGED <<field, shown, stored, unused>>
    BY <1>13, Handled DEF DeleteRelease, entry, rows
  <2>4. dangling \subseteq dangling'
    BY DEF Next, Observe
  <2>5. \A x : Known(x) /\ (x = y => y \in dangling) => Known(x)'
    BY <2>2, <2>4 DEF Known, Exists, TypeInv
  <2>6. y \notin dangling => ~Assigns(y) /\ \A e \in Entries : field[e]["release"] # y
    BY <2>2 DEF RefInv
  <2>7. \A e \in Entries : Known(field[e]["release"])'
    BY <2>3, <2>5, <2>6 DEF RefInv
  <2>8. \A q \in Requests : act'[q].pc = "resolved" => Known(act[q].release)'
    <3> SUFFICES ASSUME NEW q \in Requests, act'[q].pc = "resolved"
                 PROVE  Known(act[q].release)'
      OBVIOUS
    <3>1. act'[q] = act[q]
      BY <1>0, <2>3 DEF Actors
    <3>2. PICK x : x = act[q].release
      OBVIOUS
    <3>3. Known(x) /\ Assigns(x)
      BY <3>1, <3>2 DEF RefInv, Assigns
    <3>4. Known(x)'
      BY <2>5, <2>6, <3>3
    <3> QED
      BY <3>1, <3>2, <3>4
  <2>9. \A x \in Releases : Deletes(x)' /\ x \notin dangling' =>
            ~Assigns(x)' /\ \A e \in Entries : field'[e]["release"] # x
    <3> SUFFICES ASSUME NEW x \in Releases, Deletes(x)', x \notin dangling'
                 PROVE  ~Assigns(x)' /\ \A e \in Entries : field'[e]["release"] # x
      OBVIOUS
    <3>1. x \notin dangling /\ ~Assigns(x)'
      BY DEF Next, Observe
    <3>2. Deletes(x)
      BY <1>0, <2>3 DEF Deletes, Actors
    <3> QED
      BY <2>3, <3>1, <3>2 DEF RefInv
  <2>10. \A x \in unused' : NeverHad(x)'
    <3> TAKE x \in unused'
    <3>1. x \in unused /\ x \in Releases /\ NeverHad(x)
      BY <2>3 DEF RefInv, TypeInv
    <3>2. name'[x] = NoName
      BY <2>2, <3>1 DEF NeverHad, TypeInv
    <3>3. \A e \in Entries : field'[e]["release"] # x /\ shown'[e]["release"] # x
      BY <2>3, <3>1 DEF NeverHad
    <3> QED
      BY <1>0, <2>3, <3>1, <3>2, <3>3, NeverHadKept
  <2>11. \A q \in Requests : act'[q].pc \in AboutEntry => act'[q].entry \in stored'
    BY <1>0, <1>1, <2>3 DEF Actors, AboutEntry
  <2> QED
    BY <2>7, <2>8, <2>9, <2>10, <2>11 DEF RefInv
<1>14. CASE ReadEntry(r)
  <2>1. act'[r].entry \in stored /\ act'[r].pc \in {"patching", "merging",
                                                    "commenting", "publishing"}
    BY <1>14, Handled
  <2>2. UNCHANGED <<name, unused, field, shown, stored>>
    BY <1>14 DEF ReadEntry, releases, entry, rows
  <2> QED
    BY <1>0, <2>1, <2>2, RefsLeft
<1>15. CASE CreateIssue(r) \/ InsertComment(r)
  <2>1. /\ act'[r].entry = act[r].entry /\ act'[r].pc \in {"linking", "counting"}
        /\ act[r].entry \in stored
    BY <1>1, <1>15, Handled DEF CreateIssue, InsertComment, AboutEntry
  <2>2. UNCHANGED <<name, unused, field, shown, stored>>
    BY <1>15 DEF CreateIssue, InsertComment, releases, entry, rows
  <2> QED
    BY <1>0, <2>1, <2>2, RefsLeft
<1>16. CASE \/ IncrementEntryCommentCount(r) \/ InsertCreatedRow(r) \/ Done(r)
            \/ LookUpName(r) \/ LookUpNewName(r) \/ FindRelease(r)
  <2>1. act'[r].pc \in {"over", "created", "inserting", "renaming", "sweeping"}
    BY <1>16, Handled
  <2>2. UNCHANGED <<name, unused, field, shown, stored>>
    BY <1>16 DEF IncrementEntryCommentCount, InsertCreatedRow, Done, LookUpName,
                 LookUpNewName, FindRelease, releases, entry, rows
  <2> QED
    BY <1>0, <2>1, <2>2, RefsLeft DEF AboutEntry
<1> QED
  BY <1>3, <1>4, <1>5, <1>6, <1>7, <1>8, <1>9, <1>10, <1>11, <1>12, <1>13, <1>14,
     <1>15, <1>16 DEF Handle

LEMMA NextRef ==
    ASSUME TypeInv, TypeInv', RefInv, [Next]_vars
    PROVE  RefInv'
<1>1. ASSUME Next, NEW b \in Boots, Boot(b) PROVE RefInv'
  <2>1. UNCHANGED <<name, unused, field, shown, stored>> /\ b \in Actors
    BY <1>1 DEF Boot, ListEntries, FindMissingRows, InsertCreatedRow, Done,
                releases, entry, rows, Actors
  <2>2. act'[b].pc \in {"listed", "created", "over"}
    BY <1>1, Booted
  <2> QED
    BY <1>1, <2>1, <2>2, Booted, RefsLeft DEF AboutEntry
<1>2. ASSUME Next, NEW a \in Actors, Stop(a) PROVE RefInv'
  <2>1. UNCHANGED <<name, unused, field, shown, stored>>
    BY <1>2 DEF Stop, releases, entry, rows
  <2>2. Ended("over").pc = "over"
    BY DEF Ended
  <2> QED
    BY <1>2, <2>1, <2>2, Stopped, RefsLeft DEF AboutEntry
<1>3. ASSUME Next, NEW r \in Requests, SkipSweep(r), Observe({r}) PROVE RefInv'
  <2>0. /\ act[r].pc = "sweeping" /\ act'[r].pc = "deleting"
        /\ act'[r].release = act[r].release
        /\ \A b \in Actors : b # r => act'[b] = act[b]
        /\ UNCHANGED <<name, unused, field, shown, stored>>
    BY <1>3, Skipped DEF SkipSweep, releases, entry, rows
  <2>1. act[r].release \in dangling'
    BY <1>3, <2>0 DEF Observe
  <2>2. \A e \in Entries : Known(field[e]["release"])'
    BY <1>3, <2>0, KnownKept DEF RefInv
  <2>3. \A q \in Requests : act'[q].pc = "resolved" => Known(act[q].release)'
    <3> SUFFICES ASSUME NEW q \in Requests, act'[q].pc = "resolved"
                 PROVE  Known(act[q].release)'
      OBVIOUS
    <3>1. act'[q] = act[q]
      BY <2>0 DEF Actors
    <3>2. PICK x : x = act[q].release
      OBVIOUS
    <3>3. Known(x)
      BY <3>1, <3>2 DEF RefInv
    <3>4. Known(x)'
      BY <1>3, <2>0, <3>3, KnownKept
    <3> QED
      BY <3>1, <3>2, <3>4
  <2>4. \A x \in Releases : Deletes(x)' /\ x \notin dangling' =>
            ~Assigns(x)' /\ \A e \in Entries : field'[e]["release"] # x
    <3> SUFFICES ASSUME NEW x \in Releases, Deletes(x)', x \notin dangling'
                 PROVE  ~Assigns(x)' /\ \A e \in Entries : field'[e]["release"] # x
      OBVIOUS
    <3>1. x \notin dangling /\ ~Assigns(x)'
      BY <1>3 DEF Observe
    <3>2. Deletes(x)
      BY <2>0, <2>1 DEF Deletes, Actors
    <3> QED
      BY <2>0, <3>1, <3>2 DEF RefInv
  <2>5. \A x \in unused' : NeverHad(x)'
    <3> TAKE x \in unused'
    <3>1. x \in unused /\ NeverHad(x) /\ r \in Actors
      BY <2>0 DEF RefInv, Actors
    <3>2. /\ name'[x] = NoName
          /\ \A e \in Entries : field'[e]["release"] # x /\ shown'[e]["release"] # x
      BY <2>0, <3>1 DEF NeverHad
    <3> QED
      BY <2>0, <3>1, <3>2, NeverHadKept
  <2>6. \A q \in Requests : act'[q].pc \in AboutEntry => act'[q].entry \in stored'
    BY <2>0 DEF RefInv, Actors, AboutEntry
  <2> QED
    BY <2>2, <2>3, <2>4, <2>5, <2>6 DEF RefInv
<1>4. CASE UNCHANGED vars
  BY <1>4 DEF vars, releases, entry, rows, ghosts, RefInv, Known, Exists, NeverHad,
              Deletes, Assigns
<1> QED
  BY <1>1, <1>2, <1>3, <1>4, HandleRef DEF Next, Actors

\* A version name is one release's, and the release an entry has exists, whatever
\* releases are created, renamed and deleted while entries are patched: but for a
\* name that two hold at once, and a release that is given out while it is deleted
\* or whose deletion does not sweep or stops half-way.
THEOREM ReleasesHold == Spec => []ReleaseKeysHold
<1>1. TypeInv /\ NamesInv /\ RefInv => ReleaseKeysHold
  <2> SUFFICES ASSUME TypeInv, NamesInv, RefInv PROVE ReleaseKeysHold
    OBVIOUS
  <2>1. \A x, y \in Releases :
           x # y /\ Exists(x) /\ name[x] \notin crossed => name[x] # name[y]
    BY DEF NamesInv, TypeInv, Exists
  <2>2. \A e \in stored : \/ Exists(field[e].release)
                          \/ field[e].release \in {NoRelease} \cup dangling
    BY DEF RefInv, Known, TypeInv
  <2> QED
    BY <2>1, <2>2 DEF ReleaseKeysHold
<1> QED
  BY InitTyped, NextTyped, InitNames, NextNames, InitRef, NextRef, <1>1, PTL DEF Spec

\* A value recorded, or about to be, is the field's, or a release since swept.
Follows(v, e, f) ==
    \/ v = field[e][f]
    \/ /\ f = "release" /\ field[e]["release"] = NoRelease
       /\ v \in Releases
       /\ ~Exists(v) \/ v \in dangling \/ Deletes(v)
TimeInv ==
    \A e \in Entries, f \in Fields :
        <<e, f>> \notin torn =>
            /\ \A q, r \in Owes(e, f) : q = r
            /\ \A r \in Owes(e, f) : Follows(act[r].value, e, f)
            /\ Owes(e, f) = {} => Follows(shown[e][f], e, f)

LEMMA OwersMeet ==
    ASSUME TypeInv', Next, NEW e \in Entries, NEW f \in Fields, <<e, f>> \notin torn'
    PROVE  <<e, f>> \notin torn /\ \A q, r \in Owes(e, f)' : q = r
<1>1. <<e, f>> \notin torn
  BY DEF Next, Observe
<1>2. ~(Cardinality(Owes(e, f)') > 1)
  <2>1. <<e, f>> \notin {p \in Entries \X Fields : Cardinality(Owes(p[1], p[2])') > 1}
    BY DEF Next, Observe
  <2>2. <<e, f>> \in Entries \X Fields /\ <<e, f>>[1] = e /\ <<e, f>>[2] = f
    OBVIOUS
  <2> QED
    BY <2>1, <2>2
<1>3. Owes(e, f)' \subseteq Begun'
  BY DEF Owes, Begun, Actors
<1>4. IsFiniteSet(Owes(e, f)')
  BY <1>3, FS_Subset DEF TypeInv
<1> QED
  BY <1>1, <1>2, <1>4, AtMostOne

LEMMA InitTime == Init => TimeInv
<1> SUFFICES ASSUME Init PROVE TimeInv
  OBVIOUS
<1>1. \A e, f : Owes(e, f) = {}
  BY DEF Init, Owes, Ended
<1>2. shown = field
  BY DEF Init
<1> QED
  BY <1>1, <1>2 DEF TimeInv, Follows

\* A recorded value goes on to follow its field while the field stays, its release
\* does not come back, and a deletion under way goes on, ends or is noted.
LEMMA FollowsKept ==
    ASSUME Next, NEW e \in Entries, NEW f \in Fields, NEW v, Follows(v, e, f),
           field'[e][f] = field[e][f],
           f = "release" /\ v \in Releases =>
              /\ ~Exists(v) => ~Exists(v)'
              /\ Deletes(v) => Deletes(v)' \/ v \in dangling' \/ ~Exists(v)'
    PROVE  Follows(v, e, f)'
<1>1. dangling \subseteq dangling'
  BY DEF Next, Observe
<1>2. f = "release" => field'[e]["release"] = field[e]["release"]
  OBVIOUS
<1> QED
  BY <1>1, <1>2 DEF Follows

\* What TimeInv says of a field of an entry.
Replays(e, f) == /\ \A q, r \in Owes(e, f) : q = r
                 /\ \A r \in Owes(e, f) : Follows(act[r].value, e, f)
                 /\ Owes(e, f) = {} => Follows(shown[e][f], e, f)

LEMMA PairKept ==
    ASSUME TypeInv, TypeInv', RefInv, TimeInv, Next, NEW e \in Entries,
           NEW f \in Fields, <<e, f>> \notin torn',
           Owes(e, f)' = Owes(e, f),
           \A r \in Owes(e, f) : act'[r].value = act[r].value,
           shown'[e][f] = shown[e][f], field'[e][f] = field[e][f],
           \A x \in Releases \ unused :
              /\ ~Exists(x) => ~Exists(x)'
              /\ Deletes(x) => Deletes(x)' \/ x \in dangling' \/ ~Exists(x)'
    PROVE  Replays(e, f)'
<1>1. Replays(e, f)
  BY OwersMeet DEF TimeInv, Replays
<1>2. f = "release" => shown[e][f] \notin unused
  <2>1. \A x \in unused : shown[e]["release"] # x
    BY DEF RefInv, NeverHad
  <2> QED
    BY <2>1
<1>3. \A r \in Owes(e, f) : f = "release" => act[r].value \notin unused
  <2>1. \A x \in unused, r \in Requests :
           act[r].pc \in {"row", "last row"} /\ act[r].at = "release"
           => act[r].value # x
    BY DEF RefInv, NeverHad
  <2> QED
    BY <2>1 DEF Owes
<1>4. ASSUME NEW v, Follows(v, e, f), f = "release" => v \notin unused
      PROVE  Follows(v, e, f)'
  BY <1>4, FollowsKept
<1>5. \A r \in Owes(e, f)' : Follows(act[r].value, e, f)'
  <2> TAKE r \in Owes(e, f)'
  <2>1. PICK v : v = act[r].value
    OBVIOUS
  <2>2. Follows(v, e, f)' /\ act'[r].value = v
    BY <1>1, <1>3, <1>4, <2>1 DEF Replays
  <2> QED
    BY <2>2
<1>6. Owes(e, f)' = {} => Follows(shown[e][f], e, f)'
  <2>1. PICK v : v = shown[e][f]
    OBVIOUS
  <2>2. Owes(e, f) = {} => Follows(v, e, f)'
    BY <1>1, <1>2, <1>4, <2>1 DEF Replays
  <2> QED
    BY <2>1, <2>2
<1> QED
  BY <1>1, <1>5, <1>6 DEF Replays

LEMMA AllReplay ==
    (\A e \in Entries, f \in Fields : <<e, f>> \notin torn => Replays(e, f)) <=> TimeInv
BY DEF TimeInv, Replays

\* A step that neither writes nor records a field, nor ends a deletion.
LEMMA TimeLeft ==
    ASSUME TypeInv, TypeInv', RefInv, TimeInv, Next, NEW a \in Actors,
           \A b \in Actors : b # a => act'[b] = act[b],
           act[a].pc \notin {"row", "last row", "deleting"},
           act'[a].pc \notin {"row", "last row"},
           field' = field, shown' = shown,
           \A x \in Releases \ unused : name[x] = NoName => name'[x] = NoName
    PROVE  TimeInv'
<1> SUFFICES ASSUME NEW e \in Entries, NEW f \in Fields, <<e, f>> \notin torn'
             PROVE  Replays(e, f)'
  BY DEF TimeInv, Replays
<1>1. /\ Owes(e, f)' = Owes(e, f)
      /\ \A r \in Owes(e, f) : act'[r].value = act[r].value
  BY DEF Owes, Actors
<1>2. \A x \in Releases \ unused : /\ ~Exists(x) => ~Exists(x)'
                                   /\ Deletes(x) => Deletes(x)'
  BY DEF Exists, Deletes, Actors
<1> QED
  BY <1>1, <1>2, PairKept

\* A field is written: its row, now owed, will say the value it has.
LEMMA TimePut ==
    ASSUME TypeInv, TypeInv', RefInv, TimeInv, Next, NEW r \in Requests,
           NEW g \in Fields, NEW v, NEW then, Put(r, g, v, then),
           then \in {"row", "last row"}, act[r].entry \in Entries,
           act[r].pc \notin {"row", "last row", "deleting"},
           \A b \in Actors : b # r => act'[b] = act[b]
    PROVE  TimeInv'
<1> SUFFICES ASSUME NEW e \in Entries, NEW f \in Fields, <<e, f>> \notin torn'
             PROVE  Replays(e, f)'
  BY DEF TimeInv, Replays
<1>0. /\ act'[r].pc = then /\ act'[r].at = g /\ act'[r].entry = act[r].entry
      /\ act'[r].value = v /\ UNCHANGED <<shown, name>>
  <2>1. act[r] \in ActType
    BY DEF TypeInv, Actors
  <2>2. /\ act' = [act EXCEPT ![r].pc = then, ![r].at = g, ![r].value = v,
                      ![r].seen[g] = NewEntry[g], ![r].release = NoRelease]
        /\ UNCHANGED <<shown, name>>
    BY DEF Put, rows, releases
  <2> QED
    BY <2>1, <2>2 DEF ActType, TypeInv, Actors
<1>1. \A x \in Releases \ unused : /\ ~Exists(x) => ~Exists(x)'
                                   /\ Deletes(x) => Deletes(x)'
  BY <1>0 DEF Exists, Deletes, Actors
<1>2. field'[e][f] = IF e = act[r].entry /\ f = g THEN v ELSE field[e][f]
  <2>1. field' = [field EXCEPT ![act[r].entry][g] = v]
    BY DEF Put
  <2>2. field'[e] = IF e = act[r].entry THEN [field[e] EXCEPT ![g] = v] ELSE field[e]
    BY <2>1 DEF TypeInv
  <2>3. PICK s \in FieldsType : s = field[e]
    BY DEF TypeInv
  <2>4. [s EXCEPT ![g] = v][f] = IF f = g THEN v ELSE s[f]
    BY FieldsAre DEF FieldsType
  <2> QED
    BY <2>2, <2>3, <2>4
<1>3. CASE e = act[r].entry /\ f = g
  <2>1. r \in Owes(e, f)'
    BY <1>0, <1>3 DEF Owes
  <2>2. \A q \in Owes(e, f)' : q = r
    BY <2>1, OwersMeet
  <2>3. Follows(v, e, f)'
    BY <1>2, <1>3 DEF Follows
  <2> QED
    BY <1>0, <2>1, <2>2, <2>3 DEF Replays
<1>4. CASE ~(e = act[r].entry /\ f = g)
  <2>1. /\ Owes(e, f)' = Owes(e, f)
        /\ \A q \in Owes(e, f) : act'[q].value = act[q].value
    BY <1>0, <1>4 DEF Owes, Actors
  <2> QED
    BY <1>0, <1>1, <1>2, <1>4, <2>1, PairKept
<1> QED
  BY <1>3, <1>4

LEMMA HandleTime ==
    ASSUME TypeInv, TypeInv', RefInv, TimeInv, Next, NEW r \in Requests, Handle(r)
    PROVE  TimeInv'
<1>0. /\ r \in Actors /\ act[r] \in ActType /\ Fits(act[r])
      /\ \A b \in Actors : b # r => act'[b] = act[b]
  BY Handled DEF Actors, TypeInv
<1>1. ASSUME NEW g, NEW v, NEW then, g \in Fields, Put(r, g, v, then),
             then \in {"row", "last row"},
             act[r].pc \in AboutEntry \ {"row", "last row"}
      PROVE  TimeInv'
  <2>1. act[r].entry \in Entries /\ act[r].pc \notin {"row", "last row", "deleting"}
    BY <1>0, <1>1 DEF Fits, AboutEntry
  <2> QED
    BY <1>0, <1>1, <2>1, TimePut
<1>2. CASE Patch(r)
  BY <1>1, <1>2, FieldsAre DEF Patch, AboutEntry
<1>3. CASE PatchRelease(r)
  BY <1>1, <1>3, FieldsAre DEF PatchRelease, AboutEntry
<1>4. CASE CancelSource(r)
  BY <1>1, <1>4, FieldsAre DEF CancelSource, AboutEntry
<1>5. CASE SetEntryGitHubIssue(r)
  BY <1>1, <1>5, FieldsAre DEF SetEntryGitHubIssue, AboutEntry
<1>6. CASE RecordAdminActivity(r)
  <2> SUFFICES ASSUME NEW e \in Entries, NEW f \in Fields, <<e, f>> \notin torn'
               PROVE  Replays(e, f)'
    BY DEF TimeInv, Replays
  <2>1. /\ act[r].entry \in Entries /\ act[r].at \in Fields
        /\ act[r].pc \in {"row", "last row"}
    BY <1>0, <1>6 DEF RecordAdminActivity, Fits, AboutEntry
  <2>2. act'[r].pc \in {"patching", "over"} /\ UNCHANGED <<field, name>>
    BY <1>6, Handled DEF RecordAdminActivity, entry, releases
  <2>3. shown'[e][f] = IF e = act[r].entry /\ f = act[r].at THEN act[r].value
                       ELSE shown[e][f]
    <3>1. shown' = [shown EXCEPT ![act[r].entry][act[r].at] = act[r].value]
      BY <1>6 DEF RecordAdminActivity
    <3>2. shown'[e] = IF e = act[r].entry
                      THEN [shown[e] EXCEPT ![act[r].at] = act[r].value] ELSE shown[e]
      BY <2>1, <3>1 DEF TypeInv
    <3>3. PICK g \in Fields : g = act[r].at
      BY <2>1
    <3>4. PICK v : v = act[r].value
      OBVIOUS
    <3>5. PICK s \in FieldsType : s = shown[e]
      BY DEF TypeInv
    <3>6. [s EXCEPT ![g] = v][f] = IF f = g THEN v ELSE s[f]
      BY FieldUpdate
    <3> QED
      BY <3>2, <3>3, <3>4, <3>5, <3>6
  <2>4. \A x \in Releases \ unused : /\ ~Exists(x) => ~Exists(x)'
                                     /\ Deletes(x) => Deletes(x)'
    BY <1>0, <2>1, <2>2 DEF Exists, Deletes, Actors
  <2>5. CASE e = act[r].entry /\ f = act[r].at
    <3>1. r \in Owes(e, f) /\ <<e, f>> \notin torn
      BY <2>1, <2>5, OwersMeet DEF Owes
    <3>2. PICK v : v = act[r].value
      OBVIOUS
    <3>3. Follows(v, e, f) /\ \A q \in Owes(e, f) : q = r
      BY <3>1, <3>2 DEF TimeInv
    <3>4. Owes(e, f)' = {}
      BY <1>0, <2>2, <3>3 DEF Owes, Actors
    <3>5. \A x \in Releases : ~Exists(x) => ~Exists(x)'
      BY <2>2 DEF Exists
    <3>6. \A x : Deletes(x) => Deletes(x)'
      BY <1>0, <2>1 DEF Deletes, Actors
    <3>7. Follows(v, e, f)'
      BY <2>2, <3>3, <3>5, <3>6, FollowsKept
    <3> QED
      BY <2>3, <2>5, <3>2, <3>4, <3>7 DEF Replays
  <2>6. CASE ~(e = act[r].entry /\ f = act[r].at)
    <3>1. /\ Owes(e, f)' = Owes(e, f)
          /\ \A q \in Owes(e, f) : act'[q].value = act[q].value
      BY <1>0, <2>2, <2>6 DEF Owes, Actors
    <3> QED
      BY <2>2, <2>3, <2>4, <2>6, <3>1, PairKept
  <2> QED
    BY <2>5, <2>6
<1>7. CASE InsertEntry(r)
  <2> SUFFICES ASSUME NEW e \in Entries, NEW f \in Fields, <<e, f>> \notin torn'
               PROVE  Replays(e, f)'
    BY DEF TimeInv, Replays
  <2>1. PICK d \in Entries \ stored, t \in Types :
           /\ field' = [field EXCEPT ![d].type = t]
           /\ shown' = [shown EXCEPT ![d].type = t]
    BY <1>7 DEF InsertEntry
  <2>2. act[r].pc = "new" /\ act'[r].pc = "created" /\ name' = name
    BY <1>7, Handled DEF InsertEntry, releases
  <2>3. /\ field'[e][f] = IF e = d /\ f = "type" THEN t ELSE field[e][f]
        /\ shown'[e][f] = IF e = d /\ f = "type" THEN t ELSE shown[e][f]
    BY <2>1, FieldsAre DEF TypeInv, FieldsType
  <2>4. /\ Owes(e, f)' = Owes(e, f)
        /\ \A q \in Owes(e, f) : act'[q].value = act[q].value
    BY <1>0, <2>2 DEF Owes, Actors
  <2>5. \A x \in Releases \ unused : /\ ~Exists(x) => ~Exists(x)'
                                     /\ Deletes(x) => Deletes(x)'
    BY <1>0, <2>2 DEF Exists, Deletes, Actors
  <2>6. CASE e = d /\ f = "type"
    <3>1. Owes(e, f) = {}
      BY <2>1, <2>6 DEF Owes, RefInv, AboutEntry
    <3>2. Follows(t, e, f)'
      BY <2>3, <2>6 DEF Follows
    <3> QED
      BY <2>3, <2>4, <2>6, <3>1, <3>2 DEF Replays
  <2>7. CASE ~(e = d /\ f = "type")
    BY <2>3, <2>4, <2>5, <2>7, PairKept
  <2> QED
    BY <2>6, <2>7
<1>8. CASE RemoveReleaseIDFromAllEntries(r)
  <2> SUFFICES ASSUME NEW e \in Entries, NEW f \in Fields, <<e, f>> \notin torn'
               PROVE  Replays(e, f)'
    BY DEF TimeInv, Replays
  <2>1. PICK y : y = act[r].release
    OBVIOUS
  <2>2. /\ act[r].pc = "sweeping" /\ act'[r].pc = "deleting"
        /\ act'[r].release = y /\ UNCHANGED <<name, shown>>
    BY <1>0, <1>8, <2>1
       DEF RemoveReleaseIDFromAllEntries, ActType, TypeInv, releases, rows
  <2>3. y \in Releases /\ Deletes(y)'
    BY <1>0, <2>1, <2>2 DEF Fits, AboutRelease, Deletes
  <2>4. field'[e][f] = IF f = "release" /\ field[e]["release"] = y THEN NoRelease
                       ELSE field[e][f]
    <3>1. field'[e] = [field[e] EXCEPT !.release = IF @ = y THEN NoRelease ELSE @]
      BY <1>8, <2>1 DEF RemoveReleaseIDFromAllEntries
    <3> QED
      BY <3>1, FieldsAre DEF TypeInv, FieldsType
  <2>5. /\ Owes(e, f)' = Owes(e, f)
        /\ \A q \in Owes(e, f) : act'[q].value = act[q].value
    BY <1>0, <2>2 DEF Owes, Actors
  <2>6. \A x : Deletes(x) => Deletes(x)'
    BY <1>0, <2>2 DEF Deletes, Actors
  <2>7. \A x : Exists(x)' = Exists(x)
    BY <2>2 DEF Exists
  <2>8. CASE f # "release" \/ field[e]["release"] # y
    BY <2>2, <2>4, <2>5, <2>6, <2>7, <2>8, PairKept
  <2>9. CASE f = "release" /\ field[e]["release"] = y
    <3>1. Replays(e, f)
      BY OwersMeet DEF TimeInv, Replays
    <3>2. y # NoRelease
      BY <2>3, ConstantsAssumption DEF ConstantsAssumption
    <3>3. ASSUME NEW v, Follows(v, e, f) PROVE Follows(v, e, f)'
      <4>1. v = y
        BY <2>9, <3>2, <3>3 DEF Follows
      <4> QED
        BY <2>3, <2>4, <2>9, <4>1 DEF Follows
    <3>4. \A q \in Owes(e, f)' : Follows(act[q].value, e, f)'
      <4> TAKE q \in Owes(e, f)'
      <4>1. PICK v : v = act[q].value
        OBVIOUS
      <4>2. Follows(v, e, f)'
        BY <2>5, <3>1, <3>3, <4>1 DEF Replays
      <4> QED
        BY <2>5, <4>1, <4>2
    <3>5. Owes(e, f)' = {} => Follows(shown[e][f], e, f)'
      <4>1. PICK v : v = shown[e][f]
        OBVIOUS
      <4>2. Owes(e, f) = {} => Follows(v, e, f)'
        BY <3>1, <3>3, <4>1 DEF Replays
      <4> QED
        BY <2>2, <2>5, <4>1, <4>2
    <3> QED
      BY <2>5, <3>1, <3>4, <3>5 DEF Replays
  <2> QED
    BY <2>8, <2>9
<1>9. CASE DeleteRelease(r)
  <2> SUFFICES ASSUME NEW e \in Entries, NEW f \in Fields, <<e, f>> \notin torn'
               PROVE  Replays(e, f)'
    BY DEF TimeInv, Replays
  <2>1. PICK y : y = act[r].release
    OBVIOUS
  <2>2. /\ act[r].pc = "deleting" /\ act'[r].pc = "over"
        /\ name' = [name EXCEPT ![y] = NoName] /\ UNCHANGED <<field, shown>>
    BY <1>9, <2>1, Handled DEF DeleteRelease, entry, rows
  <2>3. /\ Owes(e, f)' = Owes(e, f)
        /\ \A q \in Owes(e, f) : act'[q].value = act[q].value
    BY <1>0, <2>2 DEF Owes, Actors
  <2>4. \A x \in Releases : /\ ~Exists(x) => ~Exists(x)'
                            /\ x = y => ~Exists(x)'
                            /\ x # y /\ Deletes(x) => Deletes(x)'
    BY <1>0, <2>1, <2>2 DEF Exists, Deletes, Actors, TypeInv
  <2> QED
    BY <2>2, <2>3, <2>4, PairKept
<1>10. CASE InsertRelease(r)
  <2>1. /\ act[r].pc = "inserting" /\ act'[r].pc = "over"
        /\ UNCHANGED <<field, shown>>
    BY <1>10, Handled DEF InsertRelease, entry, rows
  <2>2. \A x \in Releases \ unused : name'[x] = name[x]
    BY <1>10 DEF InsertRelease, TypeInv
  <2> QED
    BY <1>0, <2>1, <2>2, TimeLeft
<1>11. CASE UpdateReleaseFields(r)
  <2>1. /\ act[r].pc = "renaming" /\ act'[r].pc = "over"
        /\ UNCHANGED <<field, shown>>
    BY <1>11, Handled DEF UpdateReleaseFields, entry, rows
  <2>2. \A x \in Releases : name[x] = NoName => name'[x] = NoName
    BY <1>11 DEF UpdateReleaseFields, Exists
  <2> QED
    BY <1>0, <2>1, <2>2, TimeLeft
<1>12. CASE \/ ReadEntry(r) \/ ResolveRelease(r) \/ CreateIssue(r)
            \/ InsertComment(r) \/ IncrementEntryCommentCount(r)
            \/ InsertCreatedRow(r) \/ Done(r)
            \/ LookUpName(r) \/ LookUpNewName(r) \/ FindRelease(r)
  <2>1. act'[r].pc \notin {"row", "last row"}
    BY <1>12, Handled
  <2>2. act[r].pc \notin {"row", "last row", "deleting"}
        /\ UNCHANGED <<field, shown, name>>
    BY <1>12 DEF ReadEntry, ResolveRelease, CreateIssue, InsertComment,
                 IncrementEntryCommentCount, InsertCreatedRow, Done, LookUpName,
                 LookUpNewName, FindRelease, entry, rows, releases
  <2> QED
    BY <1>0, <2>1, <2>2, TimeLeft
<1> QED
  BY <1>2, <1>3, <1>4, <1>5, <1>6, <1>7, <1>8, <1>9, <1>10, <1>11, <1>12 DEF Handle

LEMMA NextTime ==
    ASSUME TypeInv, TypeInv', RefInv, TimeInv, [Next]_vars
    PROVE  TimeInv'
<1>1. ASSUME Next, NEW b \in Boots, Boot(b) PROVE TimeInv'
  <2>1. UNCHANGED <<name, field, shown>> /\ b \in Actors
    BY <1>1 DEF Boot, ListEntries, FindMissingRows, InsertCreatedRow, Done,
                releases, entry, rows, Actors
  <2>2. /\ act[b].pc \in {"new", "listed", "created"}
        /\ act'[b].pc \in {"listed", "created", "over"}
    BY <1>1, Booted
  <2> QED
    BY <1>1, <2>1, <2>2, Booted, TimeLeft
<1>2. ASSUME Next, NEW a \in Actors, Stop(a),
             Observe(IF act[a].pc = "sweeping" THEN {} ELSE {a})
      PROVE TimeInv'
  <2> SUFFICES ASSUME NEW e \in Entries, NEW f \in Fields, <<e, f>> \notin torn'
               PROVE  Replays(e, f)'
    BY DEF TimeInv, Replays
  <2>0. /\ UNCHANGED <<name, field, shown>> /\ act'[a].pc = "over"
        /\ \A b \in Actors : b # a => act'[b] = act[b]
    <3>1. Ended("over").pc = "over" /\ UNCHANGED <<name, field, shown>>
      BY <1>2 DEF Stop, releases, entry, rows, Ended
    <3> QED
      BY <1>2, <3>1, Stopped
  <2>1. ~(act[a].pc \in {"row", "last row"} /\ act[a].entry = e /\ act[a].at = f)
    BY <1>2 DEF Observe
  <2>2. /\ Owes(e, f)' = Owes(e, f)
        /\ \A q \in Owes(e, f) : act'[q].value = act[q].value
    BY <2>0, <2>1 DEF Owes, Actors
  <2>3. act[a].pc = "deleting" => act[a].release \in dangling'
    BY <1>2 DEF Observe
  <2>4. \A x \in Releases : /\ ~Exists(x) => ~Exists(x)'
                            /\ Deletes(x) => Deletes(x)' \/ x \in dangling'
    BY <2>0, <2>3 DEF Exists, Deletes, Actors
  <2> QED
    BY <1>2, <2>0, <2>2, <2>4, PairKept
<1>3. ASSUME Next, NEW r \in Requests, SkipSweep(r) PROVE TimeInv'
  <2>1. /\ UNCHANGED <<name, field, shown>> /\ r \in Actors
        /\ act[r].pc = "sweeping" /\ act'[r].pc = "deleting"
    BY <1>3, Skipped DEF SkipSweep, releases, entry, rows, Actors
  <2> QED
    BY <1>3, <2>1, Skipped, TimeLeft
<1>4. CASE UNCHANGED vars
  <2>1. UNCHANGED <<act, name, field, shown, torn, unused, dangling>>
    BY <1>4 DEF vars, releases, entry, rows, ghosts
  <2>2. \A e \in Entries, f \in Fields : Owes(e, f)' = Owes(e, f)
    BY <2>1 DEF Owes
  <2>3. \A v, e, f : Follows(v, e, f)' <=> Follows(v, e, f)
    BY <2>1 DEF Follows, Exists, Deletes
  <2> QED
    BY <2>1, <2>2, <2>3 DEF TimeInv
<1> QED
  BY <1>1, <1>2, <1>3, <1>4, HandleTime DEF Next, Actors

\* Who replays the timeline of an entry knows its fields, whatever handlers run at
\* once and on what they had read: but for a write whose row met another's or got
\* lost, and a release given out while it was deleted.
THEOREM TimelineKept == Spec => []TimelineReplays
<1>1. TypeInv /\ RefInv /\ TimeInv => TimelineReplays
  <2> SUFFICES ASSUME TypeInv, RefInv, TimeInv, NEW e \in stored, NEW f \in Fields,
                      Owes(e, f) = {}, <<e, f>> \notin torn
               PROVE  \/ Reads(f, shown[e][f]) = field[e][f]
                      \/ /\ f = "release"
                         /\ {field[e].release, shown[e].release}
                            \cap (dangling \cup {x \in Releases : Deletes(x)}) # {}
    BY DEF TimelineReplays
  <2>1. e \in Entries /\ Known(field[e]["release"])
    BY DEF TypeInv, RefInv
  <2>2. Follows(shown[e][f], e, f)
    BY <2>1 DEF TimeInv
  <2>3. CASE f # "release"
    BY <2>2, <2>3 DEF Follows, Reads
  <2>4. CASE f = "release"
    BY <2>1, <2>2, <2>4 DEF Follows, Reads, Known
  <2> QED
    BY <2>3, <2>4
<1> QED
  BY InitTyped, NextTyped, InitRef, NextRef, InitTime, NextTime, <1>1, PTL DEF Spec
=============================================================================
